-------------------------- MODULE DataLayerProofs --------------------------
(***************************************************************************)
(* Theorems about DataLayer, for any number of handlers, writes, failures  *)
(* and crashes.                                                            *)
(*                                                                         *)
(* Between two crashes the handlers use the lock as RWLock allows, and a   *)
(* crash makes it anew, so the lock's own inductive invariant holds here   *)
(* (LP!IInv, by the lemmas of RWLockProofs).  From it the invariant takes  *)
(* that a writer is alone inside: then the last pieces of the text are the *)
(* ones it wrote (OwnPiecesLast), a text read and not yet stamped is still *)
(* the file (ReadsWhole), and the stamp lags by the one line that is       *)
(* written and not yet counted (StampExact).                               *)
(***************************************************************************)
EXTENDS DataLayer, FiniteSetTheorems, TLAPS

LP == INSTANCE RWLockProofs WITH Readers <- Handlers, Writers <- Handlers

(* How far a thread may be, by what it holds. *)
Staged ==
    \A t \in Handlers :
        /\ pc[t] \notin {"reading", "writing"} => step[t] = "start"
        /\ pc[t] = "reading" => step[t] \in {"start", "content", "done", "failed"}
        /\ pc[t] = "writing" => step[t] \in {"start", "head", "tail", "done", "failed"}

(* A write under way finds its own pieces at the end of the file. *)
OwnPiecesLast ==
    \A t \in Handlers :
        /\ step[t] = "head" => /\ Len(file) >= 1
                               /\ file[Len(file)] = Piece(t, "head")
        /\ step[t] = "tail" => /\ Len(file) >= 2
                               /\ file[Len(file)] = Piece(t, "tail")
                               /\ file[Len(file) - 1] = Piece(t, "head")

(* No writer comes between the two steps of a read. *)
ReadsWhole == \A t \in Handlers : step[t] = "content" => content[t] = file

(* A line that is complete and has not been stamped yet. *)
Unstamped == IF \E t \in Handlers : step[t] = "tail" THEN 1 ELSE 0

StampExact == version + born + Unstamped = Lines(file)

(* Calls of write_resource that may still bump the stamp. *)
Uncommitted ==
    {t \in Handlers : \/ pc[t] \in {"want_write", "wait_write"}
                      \/ pc[t] = "writing" /\ step[t] \in {"start", "head", "tail"}}

CallsCounted == version + Cardinality(Uncommitted) <= writes

DataTypeOK ==
    /\ file \in Seq(Pieces)
    /\ writes \in 0 .. MaxWrites
    /\ version \in Nat
    /\ step \in [Handlers -> Steps]
    /\ content \in [Handlers -> Seq(Pieces)]
    /\ result \in [Handlers ->
          {NoCopy} \cup [version : Nat, content : Seq(Pieces), run : 0 .. run]]
    /\ run \in 0 .. MaxCrashes
    /\ born \in Nat

DataInv ==
    /\ DataTypeOK /\ Staged /\ CallsCounted
    /\ OwnPiecesLast /\ LinesContiguous
    /\ ReadsWhole /\ StampExact /\ SnapshotExact

IInv == LP!IInv /\ DataInv

Outside == {"idle", "timed_out", "want_read", "wait_read", "want_write", "wait_write"}

LEMMA LockAssumption == LP!ThreadsFinite /\ LP!Threads = Handlers
<1>1. LP!Threads = Handlers
  BY DEF LP!Threads
<1>2. IsFiniteSet(LP!Threads)
  BY <1>1, DataLayerAssumption
<1>3. QED
  BY <1>1, <1>2 DEF LP!ThreadsFinite, LP!IsFiniteSet, IsFiniteSet

LEMMA LockSteps ==
    ASSUME NEW t \in Handlers,
           CallRead(t) \/ ReadNext(t) \/ CallWrite(t) \/ WriteNext(t) \/ Tick(t)
    PROVE  [LP!Next]_(LP!lockVars)
<1> USE DEF Lock!MoveTo, Lock!Return, Lock!ReadLoop, Lock!WriteLoop, Lock!ReaderBlocked,
            Lock!WriterBlocked, Lock!OutOfTime, Lock!Awake, Lock!Notify, Lock!NotifyAll,
            Lock!Withdraw, Lock!Free, Lock!Acquiring,
            Lock!counters, Lock!conditions,
            LP!MoveTo, LP!Return, LP!ReadLoop, LP!WriteLoop, LP!ReaderBlocked,
            LP!WriterBlocked, LP!OutOfTime, LP!Awake, LP!Notify, LP!NotifyAll,
            LP!Withdraw, LP!Free, LP!Acquiring,
            LP!counters, LP!conditions
<1>1. CASE CallRead(t)
  <2>1. LP!CallAcquireRead(t)
    BY <1>1 DEF CallRead, Lock!CallAcquireRead, LP!CallAcquireRead
  <2>2. QED
    BY <2>1 DEF LP!Next, LP!ReaderNext
<1>2. CASE CallWrite(t)
  <2>1. LP!CallAcquireWrite(t)
    BY <1>2 DEF CallWrite, Lock!CallAcquireWrite, LP!CallAcquireWrite
  <2>2. QED
    BY <2>1 DEF LP!Next, LP!WriterNext
<1>3. CASE Tick(t)
  <2>1. LP!Expire(t)
    BY <1>3 DEF Tick, Lock!Expire, LP!Expire
  <2>2. QED
    BY <2>1, LockAssumption DEF LP!Next
<1>4. CASE AcquireRead(t)
  <2>1. LP!EnterAcquireRead(t) \/ LP!WakeReader(t)
    BY <1>4 DEF AcquireRead, Lock!EnterAcquireRead, LP!EnterAcquireRead,
                Lock!WakeReader, LP!WakeReader
  <2>2. QED
    BY <2>1 DEF LP!Next, LP!ReaderNext
<1>5. CASE AcquireWrite(t)
  <2>1. LP!EnterAcquireWrite(t) \/ LP!WakeWriter(t)
    BY <1>5 DEF AcquireWrite, Lock!EnterAcquireWrite, LP!EnterAcquireWrite,
                Lock!WakeWriter, LP!WakeWriter
  <2>2. QED
    BY <2>1 DEF LP!Next, LP!WriterNext
<1>6. CASE FinishRead(t)
  <2>1. LP!ReleaseRead(t)
    BY <1>6 DEF FinishRead, Lock!ReleaseRead, LP!ReleaseRead
  <2>2. QED
    BY <2>1 DEF LP!Next, LP!ReaderNext
<1>7. CASE FinishWrite(t)
  <2>1. LP!ReleaseWrite(t)
    BY <1>7 DEF FinishWrite, Lock!ReleaseWrite, LP!ReleaseWrite
  <2>2. QED
    BY <2>1 DEF LP!Next, LP!WriterNext
<1>8. CASE \/ ReadContent(t) \/ ReadFails(t) \/ ReadVersion(t)
           \/ AppendPiece(t, "start", "head") \/ AppendPiece(t, "head", "tail")
           \/ AppendFails(t) \/ BumpVersion(t)
  BY <1>8 DEF ReadContent, ReadFails, ReadVersion, AppendPiece, AppendFails, BumpVersion,
              lockVars, LP!lockVars
<1>9. QED
  BY <1>1, <1>2, <1>3, <1>4, <1>5, <1>6, <1>7, <1>8 DEF ReadNext, WriteNext

LEMMA LockInit == Lock!Init => LP!IInv
<1> SUFFICES ASSUME Lock!Init PROVE LP!IInv
  OBVIOUS
<1>1. LP!Init
  BY LockAssumption DEF Lock!Init, LP!Init, Lock!Threads, LP!Threads
<1>2. QED
  BY <1>1, LockAssumption, LP!InitInv

LEMMA LockStep ==
    ASSUME LP!IInv, NEW t \in Handlers,
           CallRead(t) \/ ReadNext(t) \/ CallWrite(t) \/ WriteNext(t) \/ Tick(t)
    PROVE  LP!IInv'
BY LockSteps, LockAssumption, LP!NextInv

LEMMA LockRenewed == ASSUME Crash PROVE LP!IInv'
<1>1. LP!Init'
  BY LockAssumption DEF Crash, LP!Init
<1>2. QED
  BY <1>1, LockAssumption, LP!RenewedInv

-----------------------------------------------------------------------------
(* What the lock gives. *)

LEMMA LockGives ==
    ASSUME LP!IInv
    PROVE  /\ Lock!TypeOK
           /\ pc \in [Handlers -> Outside \cup {"reading", "writing"}]
           /\ \A s, t \in Handlers : pc[t] = "writing" =>
                 pc[s] # "reading" /\ (pc[s] = "writing" => s = t)
<1>1. LP!TypeOK /\ LP!MutualExclusion
  BY DEF LP!IInv
<1>2. Lock!TypeOK
  BY <1>1 DEF LP!TypeOK, Lock!TypeOK, LP!Threads, Lock!Threads, LP!Free, LP!Acquiring,
              LP!Inside, Lock!Free, Lock!Acquiring, Lock!Inside
<1>3. pc \in [Handlers -> Outside \cup {"reading", "writing"}]
  BY <1>1, LockAssumption DEF LP!TypeOK, LP!Free, LP!Acquiring, LP!Inside, Outside
<1>4. \A s, t \in Handlers : pc[t] = "writing" =>
         pc[s] # "reading" /\ (pc[s] = "writing" => s = t)
  BY <1>1, LockAssumption DEF LP!MutualExclusion, LP!At
<1>5. QED
  BY <1>2, <1>3, <1>4

(* Where the calls of the lock lead. *)
LEMMA LockMoves ==
    ASSUME LP!IInv, NEW t \in Handlers
    PROVE  /\ CallRead(t) => pc[t] \in Outside /\ pc' = [pc EXCEPT ![t] = "want_read"]
                              /\ pc[t] \in {"idle", "timed_out"}
           /\ CallWrite(t) => pc[t] \in {"idle", "timed_out"}
                               /\ pc' = [pc EXCEPT ![t] = "want_write"]
           /\ AcquireRead(t) => /\ pc[t] \in {"want_read", "wait_read"}
                                 /\ \E place \in {"reading", "wait_read", "timed_out"} :
                                       pc' = [pc EXCEPT ![t] = place]
           /\ AcquireWrite(t) => /\ pc[t] \in {"want_write", "wait_write"}
                                  /\ \E place \in {"writing", "wait_write", "timed_out"} :
                                        pc' = [pc EXCEPT ![t] = place]
           /\ FinishRead(t) => pc[t] = "reading" /\ pc' = [pc EXCEPT ![t] = "idle"]
           /\ FinishWrite(t) => pc[t] = "writing" /\ pc' = [pc EXCEPT ![t] = "idle"]
           /\ Tick(t) => pc' = pc
BY DEF CallRead, CallWrite, AcquireRead, AcquireWrite, FinishRead, FinishWrite, Tick,
       Lock!CallAcquireRead, Lock!CallAcquireWrite, Lock!EnterAcquireRead, Lock!WakeReader,
       Lock!EnterAcquireWrite, Lock!WakeWriter, Lock!ReleaseRead, Lock!ReleaseWrite,
       Lock!Expire, Lock!ReadLoop, Lock!WriteLoop, Lock!Return, Lock!MoveTo, Lock!Free, Outside

-----------------------------------------------------------------------------
(* Texts. *)

LEMMA OnePieceMore ==
    ASSUME NEW f \in Seq(Pieces), NEW p \in Pieces
    PROVE  /\ Append(f, p) \in Seq(Pieces) /\ Len(f) \in Nat
           /\ Len(Append(f, p)) = Len(f) + 1 /\ Append(f, p)[Len(f) + 1] = p
           /\ DOMAIN f = 1 .. Len(f) /\ DOMAIN Append(f, p) = 1 .. Len(f) + 1
           /\ \A i \in 1 .. Len(f) : Append(f, p)[i] = f[i]
OBVIOUS

LEMMA LinesType == ASSUME NEW f \in Seq(Pieces) PROVE Lines(f) \in Nat
<1>1. Len(f) \in Nat /\ DOMAIN f = 1 .. Len(f)
  OBVIOUS
<1>2. IsFiniteSet(1 .. Len(f))
  BY <1>1, FS_Interval
<1> DEFINE T == {i \in DOMAIN f : f[i].half = "tail"}
<1>3. T \in SUBSET (1 .. Len(f))
  BY <1>1
<1>4. IsFiniteSet(T)
  BY <1>2, <1>3, FS_Subset
<1>5. QED
  BY <1>4, FS_CardinalityType DEF Lines

LEMMA LinesAppend ==
    ASSUME NEW f \in Seq(Pieces), NEW p \in Pieces
    PROVE  Lines(Append(f, p)) = IF p.half = "tail" THEN Lines(f) + 1 ELSE Lines(f)
<1> DEFINE T(g) == {i \in DOMAIN g : g[i].half = "tail"}
           n == Len(f) + 1
<1>1. /\ DOMAIN f = 1 .. Len(f) /\ DOMAIN Append(f, p) = 1 .. n /\ Len(f) \in Nat
      /\ Append(f, p)[n] = p
      /\ \A i \in 1 .. Len(f) : Append(f, p)[i] = f[i]
  BY OnePieceMore
<1>2. n \notin T(f) /\ n \in 1 .. n /\ \A i \in 1 .. n : i = n \/ i \in 1 .. Len(f)
  BY <1>1
<1>3. T(Append(f, p)) = IF p.half = "tail" THEN T(f) \cup {n} ELSE T(f)
  BY <1>1, <1>2
<1>4. IsFiniteSet(T(f))
  <2>1. T(f) \in SUBSET (1 .. Len(f)) /\ IsFiniteSet(1 .. Len(f))
    BY <1>1, FS_Interval
  <2>2. QED
    BY <2>1, FS_Subset
<1>5. Lines(f) = Cardinality(T(f)) /\ Lines(Append(f, p)) = Cardinality(T(Append(f, p)))
  BY DEF Lines
<1>6. \A S : \A x : IsFiniteSet(S) /\ x \notin S =>
                       Cardinality(S \cup {x}) = Cardinality(S) + 1
  BY FS_AddElement
<1> HIDE DEF T, n
<1>7. Cardinality(T(f) \cup {n}) = Cardinality(T(f)) + 1
  BY <1>2, <1>4, <1>6
<1>8. QED
  BY <1>3, <1>5, <1>7

-----------------------------------------------------------------------------
(* The calls of write_resource that may still commit. *)

LEMMA UncommittedFinite ==
    /\ IsFiniteSet(Uncommitted) /\ Cardinality(Uncommitted) \in Nat
    /\ IsFiniteSet(Uncommitted') /\ Cardinality(Uncommitted') \in Nat
<1>1. Uncommitted \in SUBSET Handlers /\ Uncommitted' \in SUBSET Handlers
  BY DEF Uncommitted
<1>2. IsFiniteSet(Uncommitted) /\ IsFiniteSet(Uncommitted')
  BY <1>1, DataLayerAssumption, FS_Subset
<1>3. QED
  BY <1>2, FS_CardinalityType

LEMMA NoMoreUncommitted ==
    ASSUME DataTypeOK, CallsCounted, UNCHANGED <<version, writes>>,
           Uncommitted' \subseteq Uncommitted
    PROVE  CallsCounted'
<1>1. Cardinality(Uncommitted') <= Cardinality(Uncommitted)
  BY UncommittedFinite, FS_Subset
<1>2. QED
  BY <1>1, UncommittedFinite DEF CallsCounted, DataTypeOK

-----------------------------------------------------------------------------
(* The invariant, one action after the other. *)

LEMMA UnstampedKept ==
    ASSUME \A k \in Handlers : step'[k] = "tail" <=> step[k] = "tail"
    PROVE  Unstamped' = Unstamped
BY DEF Unstamped

LEMMA DataInit == Init => DataInv
<1> SUFFICES ASSUME Init PROVE DataInv
  OBVIOUS
<1>1. pc = [t \in Handlers |-> "idle"]
  BY DEF Init, Lock!Init, Lock!Threads
<1> USE <1>1, DataLayerAssumption DEF Init
<1>2. DataTypeOK /\ Staged /\ OwnPiecesLast /\ ReadsWhole /\ LinesContiguous /\ SnapshotExact
  BY DEF DataTypeOK, Steps, Staged, OwnPiecesLast, ReadsWhole, LinesContiguous, SnapshotExact,
         HasCopy
<1>3. CallsCounted
  <2>1. Uncommitted = {}
    BY DEF Uncommitted
  <2>2. QED
    BY <2>1, FS_EmptySet DEF CallsCounted
<1>4. StampExact
  <2>1. {i \in DOMAIN file : file[i].half = "tail"} = {}
    OBVIOUS
  <2>2. QED
    BY <2>1, FS_EmptySet DEF StampExact, Unstamped, Lines
<1>5. QED
  BY <1>2, <1>3, <1>4 DEF DataInv

(* The calls of the lock before anything is read or written. *)
LEMMA LockMoveInv ==
    ASSUME LP!IInv, DataInv, NEW t \in Handlers,
           CallRead(t) \/ CallWrite(t) \/ AcquireRead(t) \/ AcquireWrite(t) \/ Tick(t)
    PROVE  DataInv'
<1> USE DEF DataInv
<1>1. UNCHANGED <<file, version, step, content, result, run, born>>
  BY DEF CallRead, CallWrite, AcquireRead, AcquireWrite, Tick, dataVars
<1>2. pc \in [Handlers -> Outside \cup {"reading", "writing"}]
  BY LockGives
<1>3. writes' = (IF CallWrite(t) THEN writes + 1 ELSE writes) /\ writes' <= MaxWrites
  BY LockMoves, DataLayerAssumption
     DEF CallRead, CallWrite, AcquireRead, AcquireWrite, Tick, dataVars, DataTypeOK
<1>4. DataTypeOK'
  BY <1>1, <1>3, DataLayerAssumption DEF DataTypeOK
<1>5. Staged'
  BY <1>1, <1>2, LockMoves DEF Staged, Outside
<1>6. OwnPiecesLast' /\ LinesContiguous' /\ ReadsWhole' /\ SnapshotExact'
  BY <1>1 DEF OwnPiecesLast, LinesContiguous, ReadsWhole, SnapshotExact, HasCopy
<1>7. StampExact'
  BY <1>1 DEF StampExact, Unstamped
<1>8. CallsCounted'
  <2>1. CASE CallWrite(t)
    <3>1. Uncommitted' = Uncommitted \cup {t} /\ t \notin Uncommitted
      BY <1>1, <1>2, <2>1, LockMoves DEF Uncommitted
    <3>2. Cardinality(Uncommitted') = Cardinality(Uncommitted) + 1
      BY <3>1, UncommittedFinite, FS_AddElement
    <3>3. QED
      BY <1>1, <1>3, <2>1, <3>2, UncommittedFinite DEF CallsCounted, DataTypeOK
  <2>2. CASE ~CallWrite(t)
    <3>1. Uncommitted' \subseteq Uncommitted
      BY <1>1, <1>2, <2>2, LockMoves DEF Uncommitted, Staged, Outside
    <3>2. QED
      BY <1>1, <1>3, <2>2, <3>1, NoMoreUncommitted
  <2>3. QED
    BY <2>1, <2>2
<1>9. QED
  BY <1>4, <1>5, <1>6, <1>7, <1>8

(* The steps of a read, and the releases of the lock. *)
LEMMA ReadStepInv ==
    ASSUME LP!IInv, DataInv, NEW t \in Handlers,
           ReadContent(t) \/ ReadFails(t) \/ ReadVersion(t) \/ FinishRead(t) \/ FinishWrite(t)
    PROVE  DataInv'
<1> USE DEF DataInv
<1>1. UNCHANGED <<file, version, writes, run, born>>
  BY DEF ReadContent, ReadFails, ReadVersion, FinishRead, FinishWrite
<1>2. pc \in [Handlers -> Outside \cup {"reading", "writing"}]
  BY LockGives
<1>3. /\ step[t] \in {"start", "content", "done", "failed"}
      /\ \E next \in {"start", "content", "done", "failed"} :
            step' = [step EXCEPT ![t] = next]
  BY DEF ReadContent, ReadFails, ReadVersion, FinishRead, FinishWrite, Over, Advance
<1>4. \A k \in Handlers : k # t => step'[k] = step[k] /\ pc'[k] = pc[k]
  BY <1>2, <1>3, LockMoves
     DEF ReadContent, ReadFails, ReadVersion, FinishRead, FinishWrite, lockVars, DataTypeOK
<1>5. DataTypeOK'
  <2>1. content' \in [Handlers -> Seq(Pieces)]
    <3>1. \E q \in {file, <<>>, content[t]} : content' = [content EXCEPT ![t] = q]
      BY DEF DataTypeOK, ReadContent, ReadFails, ReadVersion, FinishRead, FinishWrite
    <3>2. file \in Seq(Pieces) /\ <<>> \in Seq(Pieces) /\ content[t] \in Seq(Pieces)
      BY DEF DataTypeOK
    <3>3. QED
      BY <3>1, <3>2 DEF DataTypeOK
  <2>2. result' \in [Handlers ->
           {NoCopy} \cup [version : Nat, content : Seq(Pieces), run : 0 .. run]]
    <3>1. CASE ReadVersion(t)
      <4>1. [version |-> version, content |-> content[t], run |-> run]
               \in [version : Nat, content : Seq(Pieces), run : 0 .. run]
        BY DataLayerAssumption DEF DataTypeOK
      <4>2. QED
        BY <3>1, <4>1 DEF ReadVersion, DataTypeOK
    <3>2. CASE ~ReadVersion(t)
      BY <3>2 DEF DataTypeOK, ReadContent, ReadFails, FinishRead, FinishWrite
    <3>3. QED
      BY <3>1, <3>2
  <2>3. QED
    BY <1>1, <1>3, <2>1, <2>2 DEF DataTypeOK, Steps
<1>6. Staged'
  BY <1>2, <1>3, LockMoves DEF Staged, DataTypeOK, Outside, Holds, Advance, lockVars,
     ReadContent, ReadFails, ReadVersion, FinishRead, FinishWrite
<1>7. OwnPiecesLast' /\ LinesContiguous'
  BY <1>1, <1>3 DEF OwnPiecesLast, LinesContiguous, DataTypeOK
<1>8. ReadsWhole'
  BY <1>1, <1>3 DEF ReadsWhole, DataTypeOK, Advance,
     ReadContent, ReadFails, ReadVersion, FinishRead, FinishWrite
<1>9. Unstamped' = Unstamped
  BY <1>3, <1>4, UnstampedKept DEF DataTypeOK
<1>10. StampExact'
  BY <1>1, <1>9 DEF StampExact
<1>11. CallsCounted'
  <2>1. t \notin Uncommitted'
    <3>1. CASE ReadContent(t) \/ ReadFails(t) \/ ReadVersion(t)
      <4>1. pc' = pc /\ pc[t] = "reading"
        BY <3>1 DEF ReadContent, ReadFails, ReadVersion, Holds, lockVars
      <4>2. QED
        BY <4>1 DEF Uncommitted
    <3>2. CASE FinishRead(t) \/ FinishWrite(t)
      <4>1. pc' = [pc EXCEPT ![t] = "idle"]
        BY <3>2, LockMoves
      <4>2. QED
        BY <1>2, <4>1 DEF Uncommitted
    <3>3. QED
      BY <3>1, <3>2
  <2>2. Uncommitted' \subseteq Uncommitted
    BY <1>4, <2>1 DEF Uncommitted
  <2>3. QED
    BY <1>1, <2>2, NoMoreUncommitted
<1>12. SnapshotExact'
  <2>1. CASE ReadVersion(t)
    <3>1. /\ pc[t] = "reading" /\ content[t] = file
          /\ result' = [result EXCEPT
                 ![t] = [version |-> version, content |-> file, run |-> run]]
      BY <2>1 DEF ReadVersion, ReadsWhole, Holds
    <3>2. \A k \in Handlers : step[k] # "tail"
      BY <1>2, <3>1, LockGives DEF Staged, Outside
    <3>3. version + born = Lines(file)
      <4>1. Unstamped = 0
        BY <3>2 DEF Unstamped
      <4>2. QED
        BY <4>1 DEF StampExact, DataTypeOK
    <3>4. QED
      BY <1>1, <3>1, <3>3 DEF SnapshotExact, HasCopy, DataTypeOK
  <2>2. CASE ~ReadVersion(t)
    <3>1. result' = result
      BY <2>2 DEF ReadContent, ReadFails, FinishRead, FinishWrite
    <3>2. QED
      BY <1>1, <3>1 DEF SnapshotExact, HasCopy
  <2>3. QED
    BY <2>1, <2>2
<1>13. QED
  BY <1>5, <1>6, <1>7, <1>8, <1>10, <1>11, <1>12

(* The steps of a write.  The writer is alone: no other thread has pieces  *)
(* of its own in the text, or a text of its own in hand. *)
LEMMA WriterAlone ==
    ASSUME LP!IInv, DataInv, NEW t \in Handlers, pc[t] = "writing"
    PROVE  \A k \in Handlers : k # t => step[k] = "start" /\ pc[k] \in Outside
BY LockGives DEF DataInv, Staged, Outside

LEMMA AppendInv ==
    ASSUME LP!IInv, DataInv, NEW t \in Handlers,
           NEW from, NEW half,
           (from = "start" /\ half = "head") \/ (from = "head" /\ half = "tail"),
           AppendPiece(t, from, half)
    PROVE  DataInv'
<1> USE DEF DataInv
<1>1. /\ pc[t] = "writing" /\ pc' = pc /\ step[t] = from
      /\ step' = [step EXCEPT ![t] = half]
      /\ file' = Append(file, Piece(t, half))
      /\ UNCHANGED <<version, content, result, writes, run, born>>
  BY DEF AppendPiece, Holds, Advance, lockVars
<1>2. Piece(t, half) \in Pieces /\ Piece(t, half).half = half /\ Piece(t, half).by = t
  BY DEF Pieces, Piece
<1>3. /\ file' \in Seq(Pieces) /\ Len(file) \in Nat /\ Len(file') = Len(file) + 1
      /\ file'[Len(file) + 1] = Piece(t, half)
      /\ DOMAIN file = 1 .. Len(file) /\ DOMAIN file' = 1 .. Len(file) + 1
      /\ \A i \in 1 .. Len(file) : file'[i] = file[i]
  BY <1>1, <1>2, OnePieceMore DEF DataTypeOK
<1>4. \A k \in Handlers : k # t => step[k] = "start" /\ step'[k] = "start"
  BY <1>1, WriterAlone DEF DataTypeOK
<1>5. step'[t] = half
  BY <1>1 DEF DataTypeOK
<1>6. DataTypeOK'
  BY <1>1, <1>3 DEF DataTypeOK, Steps
<1>7. Staged' /\ ReadsWhole'
  BY <1>1, <1>4, <1>5 DEF Staged, ReadsWhole
<1>8. half = "tail" => Len(file) >= 1 /\ file[Len(file)] = Piece(t, "head")
  BY <1>1 DEF OwnPiecesLast
<1>9. OwnPiecesLast'
  <2>1. half = "tail" => Len(file') - 1 = Len(file) /\ file'[Len(file)] = file[Len(file)]
    BY <1>3, <1>8
  <2>2. QED
    BY <1>3, <1>4, <1>5, <1>8, <2>1 DEF OwnPiecesLast
<1>10. LinesContiguous'
  <2> SUFFICES ASSUME NEW i \in 1 .. Len(file) + 1, file'[i].half = "tail"
               PROVE  i > 1 /\ file'[i - 1] = Piece(file'[i].by, "head")
    BY <1>3 DEF LinesContiguous
  <2>1. CASE i \in 1 .. Len(file)
    <3>1. i > 1 /\ file[i - 1] = Piece(file[i].by, "head")
      BY <1>3, <2>1 DEF LinesContiguous
    <3>2. i - 1 \in 1 .. Len(file)
      BY <1>3, <2>1, <3>1
    <3>3. QED
      BY <1>3, <2>1, <3>1, <3>2
  <2>2. CASE i = Len(file) + 1
    <3>1. half = "tail" /\ file'[i].by = t
      BY <1>2, <1>3, <2>2
    <3>2. i - 1 = Len(file) /\ i - 1 \in 1 .. Len(file) /\ i > 1
      BY <1>3, <1>8, <2>2, <3>1
    <3>3. QED
      BY <1>3, <1>8, <3>1, <3>2
  <2>3. QED
    BY <1>3, <2>1, <2>2
<1>11. StampExact'
  <2>1. Lines(file') = (IF half = "tail" THEN Lines(file) + 1 ELSE Lines(file))
    BY <1>1, <1>2, LinesAppend DEF DataTypeOK
  <2>2. Unstamped = 0 /\ Unstamped' = (IF half = "tail" THEN 1 ELSE 0)
    BY <1>1, <1>4, <1>5 DEF Unstamped
  <2>3. Lines(file) \in Nat
    BY LinesType DEF DataTypeOK
  <2>4. QED
    BY <1>1, <2>1, <2>2, <2>3 DEF StampExact, DataTypeOK
<1>12. SnapshotExact'
  BY <1>1 DEF SnapshotExact, HasCopy
<1>13. CallsCounted'
  <2>1. Uncommitted' \subseteq Uncommitted
    BY <1>1, <1>4, <1>5 DEF Uncommitted
  <2>2. QED
    BY <1>1, <2>1, NoMoreUncommitted
<1>14. QED
  BY <1>6, <1>7, <1>9, <1>10, <1>11, <1>12, <1>13

LEMMA AppendFailsInv ==
    ASSUME LP!IInv, DataInv, NEW t \in Handlers, AppendFails(t)
    PROVE  DataInv'
<1> USE DEF DataInv
<1>1. /\ pc[t] = "writing" /\ pc' = pc /\ step[t] \in {"start", "head"}
      /\ step' = [step EXCEPT ![t] = "failed"]
      /\ UNCHANGED <<file, version, content, result, writes, run, born>>
  BY DEF AppendFails, Holds, Advance, lockVars
<1>2. DataTypeOK' /\ Staged' /\ ReadsWhole' /\ OwnPiecesLast' /\ LinesContiguous'
  BY <1>1 DEF DataTypeOK, Steps, Staged, ReadsWhole, OwnPiecesLast, LinesContiguous
<1>3. StampExact'
  <2>1. Unstamped' = Unstamped
    BY <1>1, UnstampedKept DEF DataTypeOK
  <2>2. QED
    BY <1>1, <2>1 DEF StampExact
<1>4. SnapshotExact'
  BY <1>1 DEF SnapshotExact, HasCopy
<1>5. CallsCounted'
  <2>1. Uncommitted' \subseteq Uncommitted
    BY <1>1 DEF Uncommitted, DataTypeOK
  <2>2. QED
    BY <1>1, <2>1, NoMoreUncommitted
<1>6. QED
  BY <1>2, <1>3, <1>4, <1>5

LEMMA BumpInv ==
    ASSUME LP!IInv, DataInv, NEW t \in Handlers, BumpVersion(t)
    PROVE  DataInv'
<1> USE DEF DataInv
<1>1. /\ pc[t] = "writing" /\ pc' = pc /\ step[t] = "tail"
      /\ step' = [step EXCEPT ![t] = "done"]
      /\ version' = version + 1
      /\ UNCHANGED <<file, content, result, writes, run, born>>
  BY DEF BumpVersion, Bump, Holds, Advance, lockVars
<1>2. DataTypeOK' /\ Staged' /\ ReadsWhole' /\ OwnPiecesLast' /\ LinesContiguous'
  BY <1>1 DEF DataTypeOK, Steps, Staged, ReadsWhole, OwnPiecesLast, LinesContiguous
<1>3. StampExact'
  <2>1. Unstamped = 1 /\ Unstamped' = 0
    BY <1>1, WriterAlone DEF Unstamped, DataTypeOK
  <2>2. QED
    BY <1>1, <2>1 DEF StampExact, DataTypeOK
<1>4. SnapshotExact'
  BY <1>1 DEF SnapshotExact, HasCopy
<1>5. CallsCounted'
  <2>1. Uncommitted' = Uncommitted \ {t} /\ t \in Uncommitted
    BY <1>1 DEF Uncommitted, DataTypeOK
  <2>2. Cardinality(Uncommitted') = Cardinality(Uncommitted) - 1
    BY <2>1, UncommittedFinite, FS_RemoveElement
  <2>3. QED
    BY <1>1, <2>2, UncommittedFinite DEF CallsCounted, DataTypeOK
<1>6. QED
  BY <1>2, <1>3, <1>4, <1>5

(* The new process knows nothing of what was under way; no copy is its own.*)
LEMMA CrashInv ==
    ASSUME DataInv, Crash
    PROVE  DataInv'
<1> USE DEF DataInv
<1>1. /\ pc' = [k \in Handlers |-> "idle"] /\ step' = [k \in Handlers |-> "start"]
      /\ content' = [k \in Handlers |-> <<>>]
      /\ version' = 0 /\ born' = Lines(file) /\ run' = run + 1 /\ run < MaxCrashes
      /\ UNCHANGED <<file, result, writes>>
  BY DEF Crash
<1>2. Lines(file) \in Nat
  BY LinesType DEF DataTypeOK
<1>3. \A k \in Handlers : HasCopy(k) => result[k].run \in 0 .. run
  BY DEF HasCopy, DataTypeOK
<1>4. run \in Nat /\ run + 1 \in 0 .. MaxCrashes /\ 0 .. run \subseteq 0 .. run + 1
  BY <1>1, DataLayerAssumption DEF DataTypeOK
<1>5. DataTypeOK'
  <2>1. result' \in [Handlers ->
           {NoCopy} \cup [version : Nat, content : Seq(Pieces), run : 0 .. run']]
    <3>1. [version : Nat, content : Seq(Pieces), run : 0 .. run]
             \subseteq [version : Nat, content : Seq(Pieces), run : 0 .. run']
      BY <1>1, <1>4
    <3>2. QED
      BY <1>1, <3>1 DEF DataTypeOK
  <2>2. QED
    BY <1>1, <1>2, <1>4, <2>1 DEF DataTypeOK, Steps
<1>6. Staged' /\ ReadsWhole' /\ OwnPiecesLast' /\ LinesContiguous'
  BY <1>1 DEF Staged, ReadsWhole, OwnPiecesLast, LinesContiguous
<1>7. StampExact'
  <2>1. Unstamped' = 0
    BY <1>1 DEF Unstamped
  <2>2. QED
    BY <1>1, <1>2, <2>1 DEF StampExact
<1>8. SnapshotExact'
  BY <1>1, <1>3, <1>4 DEF SnapshotExact, HasCopy
<1>9. CallsCounted'
  <2>1. Uncommitted' = {}
    BY <1>1 DEF Uncommitted
  <2>2. QED
    BY <1>1, <2>1, FS_EmptySet DEF CallsCounted, DataTypeOK
<1>10. QED
  BY <1>5, <1>6, <1>7, <1>8, <1>9

LEMMA StepInv == IInv /\ [Next]_vars => IInv'
<1> SUFFICES ASSUME LP!IInv, DataInv, [Next]_vars PROVE LP!IInv' /\ DataInv'
  BY DEF IInv
<1>1. ASSUME NEW t \in Handlers,
             CallRead(t) \/ ReadNext(t) \/ CallWrite(t) \/ WriteNext(t) \/ Tick(t)
      PROVE  LP!IInv' /\ DataInv'
  BY <1>1, LockStep, LockMoveInv, ReadStepInv, AppendInv, AppendFailsInv, BumpInv
     DEF ReadNext, WriteNext
<1>2. CASE Crash
  BY <1>2, LockRenewed, CrashInv
<1>3. CASE UNCHANGED vars
  <2>1. [LP!Next]_(LP!lockVars)
    BY <1>3 DEF vars, lockVars, LP!lockVars, LP!counters, LP!conditions
  <2>2. DataInv'
    BY <1>3 DEF vars, lockVars, dataVars, DataInv, DataTypeOK, Staged, CallsCounted, Uncommitted,
       OwnPiecesLast, LinesContiguous, ReadsWhole, StampExact, Unstamped, SnapshotExact, HasCopy
  <2>3. QED
    BY <2>1, <2>2, LockAssumption, LP!NextInv
<1>4. QED
  BY <1>1, <1>2, <1>3 DEF Next

LEMMA Invariance == Spec => []IInv
<1>1. Init => IInv
  BY LockInit, DataInit DEF Init, IInv
<1>2. QED
  BY <1>1, StepInv, PTL DEF Spec

-----------------------------------------------------------------------------
(* The safety properties checked by the run. *)

(* Every variable keeps its type; in particular the stamp never exceeds    *)
(* the number of write calls made. *)
THEOREM TypeCorrect == Spec => []TypeOK
<1>1. IInv => TypeOK
  <2> SUFFICES ASSUME LP!IInv, DataInv PROVE TypeOK
    BY DEF IInv
  <2>1. version \in 0 .. writes
    BY UncommittedFinite, DataLayerAssumption DEF DataInv, CallsCounted, DataTypeOK
  <2>2. QED
    BY <2>1, LockGives DEF DataInv, DataTypeOK, TypeOK
<1>2. QED
  BY <1>1, Invariance, PTL

(* The two halves of a line are never parted, however many writers there   *)
(* are and whatever fails or crashes (write_resource). *)
THEOREM ContiguousLines == Spec => []LinesContiguous
<1>1. IInv => LinesContiguous
  BY DEF IInv, DataInv
<1>2. QED
  BY <1>1, Invariance, PTL

(* A read returns a text and the stamp of that very text (read_resource).  *)
THEOREM ExactSnapshots == Spec => []SnapshotExact
<1>1. IInv => SnapshotExact
  BY DEF IInv, DataInv
<1>2. QED
  BY <1>1, Invariance, PTL

-----------------------------------------------------------------------------
(* The abstract text. *)

LEMMA CutOne ==
    ASSUME NEW f \in Seq(Pieces), NEW p \in Pieces
    PROVE  /\ SubSeq(Append(f, p), 1, Len(Append(f, p)) - 1) = f
           /\ Len(f) >= 1 => SubSeq(Append(f, p), 1, Len(Append(f, p)) - 2)
                                = SubSeq(f, 1, Len(f) - 1)
OBVIOUS

LEMMA JoinOne ==
    ASSUME NEW f \in Seq(Pieces), Len(f) >= 1
    PROVE  f = SubSeq(f, 1, Len(f) - 1) \o <<f[Len(f)]>>
OBVIOUS

LEMMA JoinTwo ==
    ASSUME NEW f \in Seq(Pieces), Len(f) >= 2
    PROVE  f = SubSeq(f, 1, Len(f) - 2) \o (<<f[Len(f) - 1]>> \o <<f[Len(f)]>>)
OBVIOUS

SettledShape ==
    /\ (\A t \in Handlers : step[t] \notin {"head", "tail"}) => Settled = file
    /\ \A t \in Handlers : step[t] = "head" => Settled = SubSeq(file, 1, Len(file) - 1)
    /\ \A t \in Handlers : step[t] = "tail" => Settled = SubSeq(file, 1, Len(file) - 2)

LEMMA SettledIs == IInv => SettledShape
<1> SUFFICES ASSUME LP!IInv, DataInv PROVE SettledShape
  BY DEF IInv
<1>1. Unsettled = {t \in Handlers : step[t] \in {"head", "tail"}}
  BY LockGives DEF DataInv, Staged, Unsettled, Outside
<1>2. \A s, t \in Handlers : s \in Unsettled /\ t \in Unsettled => s = t
  BY LockGives DEF Unsettled
<1>3. QED
  BY <1>1, <1>2 DEF SettledShape, Settled

LEMMA SettledIsNext == IInv' => SettledShape'
BY SettledIs, PTL

-----------------------------------------------------------------------------
(* Every step is a step of the versioned file, or none. *)

LEMMA SettledKept ==
    ASSUME SettledShape, SettledShape', file' = file,
           \A k \in Handlers : /\ step'[k] = "head" <=> step[k] = "head"
                               /\ step'[k] = "tail" <=> step[k] = "tail"
    PROVE  Settled' = Settled
<1>1. CASE \A k \in Handlers : step[k] \notin {"head", "tail"}
  BY <1>1 DEF SettledShape
<1>2. ASSUME NEW k \in Handlers, step[k] = "head" PROVE Settled' = Settled
  BY <1>2 DEF SettledShape
<1>3. ASSUME NEW k \in Handlers, step[k] = "tail" PROVE Settled' = Settled
  BY <1>3 DEF SettledShape
<1>4. QED
  BY <1>1, <1>2, <1>3

LEMMA InitRefines == Init => Abstract!Init
<1> SUFFICES ASSUME Init PROVE Abstract!Init
  OBVIOUS
<1>1. Settled = <<>>
  BY DEF Init, Settled, Unsettled
<1>2. QED
  BY <1>1 DEF Init, Abstract!Init, NoCopy

LEMMA QuietRefines ==
    ASSUME DataTypeOK, SettledShape, SettledShape', NEW t \in Handlers,
           \/ CallRead(t) \/ CallWrite(t) \/ AcquireRead(t) \/ AcquireWrite(t) \/ Tick(t)
           \/ ReadContent(t) \/ ReadFails(t) \/ FinishRead(t) \/ FinishWrite(t)
    PROVE  UNCHANGED Abstract!vfVars
<1>1. UNCHANGED <<file, version, result>>
  BY DEF CallRead, CallWrite, AcquireRead, AcquireWrite, Tick, ReadContent, ReadFails,
         FinishRead, FinishWrite, dataVars
<1>2. \A k \in Handlers : /\ step'[k] = "head" <=> step[k] = "head"
                          /\ step'[k] = "tail" <=> step[k] = "tail"
  <2>1. CASE CallRead(t) \/ CallWrite(t) \/ AcquireRead(t) \/ AcquireWrite(t) \/ Tick(t)
    BY <2>1 DEF CallRead, CallWrite, AcquireRead, AcquireWrite, Tick, dataVars
  <2>2. CASE ReadContent(t) \/ ReadFails(t) \/ FinishRead(t) \/ FinishWrite(t)
    BY <2>2 DEF ReadContent, ReadFails, FinishRead, FinishWrite, Over, Advance, DataTypeOK
  <2>3. QED
    BY <2>1, <2>2
<1>3. Settled' = Settled
  BY <1>1, <1>2, SettledKept
<1>4. QED
  BY <1>1, <1>3 DEF Abstract!vfVars

LEMMA ReadRefines ==
    ASSUME LP!IInv, DataInv, SettledShape, SettledShape',
           NEW t \in Handlers, ReadVersion(t)
    PROVE  Abstract!Observe(t)
<1> USE DEF DataInv
<1>1. /\ pc[t] = "reading" /\ content[t] = file
      /\ step' = [step EXCEPT ![t] = "done"]
      /\ result' = [result EXCEPT ![t] = [version |-> version, content |-> file, run |-> run]]
      /\ UNCHANGED <<file, version>>
  BY DEF ReadVersion, ReadsWhole, Holds, Advance
<1>2. \A k \in Handlers : step[k] \notin {"head", "tail"}
  BY <1>1, LockGives DEF Staged, Outside
<1>3. \A k \in Handlers : step'[k] \notin {"head", "tail"}
  BY <1>1, <1>2 DEF DataTypeOK
<1>4. Settled = file /\ Settled' = file
  BY <1>1, <1>2, <1>3 DEF SettledShape
<1>5. result \in [Handlers -> {NoCopy} \cup [version : Nat, content : Seq(Pieces), run : 0 .. run]]
  BY DEF DataTypeOK
<1> DEFINE copy(r) == [version |-> r.version, content |-> r.content]
<1>6. [k \in Handlers |-> copy(result'[k])]
         = [[k \in Handlers |-> copy(result[k])] EXCEPT
              ![t] = [version |-> version, content |-> file]]
  BY <1>1, <1>5
<1>7. QED
  BY <1>1, <1>4, <1>6 DEF Abstract!Observe

LEMMA AppendRefines ==
    ASSUME LP!IInv, DataInv, SettledShape, SettledShape',
           NEW t \in Handlers, NEW from, NEW half,
           (from = "start" /\ half = "head") \/ (from = "head" /\ half = "tail"),
           AppendPiece(t, from, half)
    PROVE  UNCHANGED Abstract!vfVars
<1> USE DEF DataInv
<1>1. /\ pc[t] = "writing" /\ step[t] = from
      /\ step' = [step EXCEPT ![t] = half] /\ step'[t] = half
      /\ file' = Append(file, Piece(t, half)) /\ file \in Seq(Pieces)
      /\ UNCHANGED <<version, result>>
  BY DEF AppendPiece, Holds, Advance, DataTypeOK
<1>2. Piece(t, half) \in Pieces
  BY DEF Pieces, Piece
<1>3. Settled' = Settled
  <2>1. CASE from = "start" /\ half = "head"
    <3>1. Settled = file
      BY <1>1, <2>1, WriterAlone DEF SettledShape
    <3>2. Settled' = SubSeq(file', 1, Len(file') - 1)
      BY <1>1, <2>1 DEF SettledShape
    <3>3. QED
      BY <1>1, <1>2, <3>1, <3>2, CutOne
  <2>2. CASE from = "head" /\ half = "tail"
    <3>1. Settled = SubSeq(file, 1, Len(file) - 1) /\ Len(file) >= 1
      BY <1>1, <2>2 DEF SettledShape, OwnPiecesLast
    <3>2. Settled' = SubSeq(file', 1, Len(file') - 2)
      BY <1>1, <2>2 DEF SettledShape
    <3>3. QED
      BY <1>1, <1>2, <3>1, <3>2, CutOne
  <2>3. QED
    BY <2>1, <2>2
<1>4. QED
  BY <1>1, <1>3 DEF Abstract!vfVars

(* The stamp makes the line part of the abstract text. *)
LEMMA BumpRefines ==
    ASSUME LP!IInv, DataInv, SettledShape, SettledShape',
           NEW t \in Handlers, BumpVersion(t)
    PROVE  Abstract!Commit(t)
<1> USE DEF DataInv
<1>1. /\ pc[t] = "writing" /\ step[t] = "tail" /\ step' = [step EXCEPT ![t] = "done"]
      /\ version' = version + 1 /\ UNCHANGED <<file, result>> /\ file \in Seq(Pieces)
  BY DEF BumpVersion, Bump, Holds, Advance, DataTypeOK
<1>2. \A k \in Handlers : step'[k] \notin {"head", "tail"}
  BY <1>1, WriterAlone DEF DataTypeOK
<1>3. Settled = SubSeq(file, 1, Len(file) - 2) /\ Settled' = file
  BY <1>1, <1>2 DEF SettledShape
<1>4. /\ Len(file) >= 2 /\ file[Len(file)] = Piece(t, "tail")
      /\ file[Len(file) - 1] = Piece(t, "head")
  BY <1>1 DEF OwnPiecesLast
<1>5. file = SubSeq(file, 1, Len(file) - 2) \o (<<Piece(t, "head")>> \o <<Piece(t, "tail")>>)
  BY <1>1, <1>4, JoinTwo
<1>6. QED
  BY <1>1, <1>3, <1>5 DEF Abstract!Commit, Abstract!Line, Abstract!Half, Piece

LEMMA FailRefines ==
    ASSUME LP!IInv, DataInv, SettledShape, SettledShape',
           NEW t \in Handlers, AppendFails(t)
    PROVE  Abstract!Spoil(t) \/ UNCHANGED Abstract!vfVars
<1> USE DEF DataInv
<1>1. /\ pc[t] = "writing" /\ step[t] \in {"start", "head"}
      /\ step' = [step EXCEPT ![t] = "failed"]
      /\ UNCHANGED <<file, version, result>> /\ file \in Seq(Pieces)
  BY DEF AppendFails, Holds, Advance, DataTypeOK
<1>2. \A k \in Handlers : step'[k] \notin {"head", "tail"}
  BY <1>1, WriterAlone DEF DataTypeOK
<1>3. Settled' = file
  BY <1>1, <1>2 DEF SettledShape
<1>4. CASE step[t] = "start"
  <2>1. Settled = file
    BY <1>1, <1>4, WriterAlone DEF SettledShape
  <2>2. QED
    BY <1>1, <1>3, <2>1 DEF Abstract!vfVars
<1>5. CASE step[t] = "head"
  <2>1. Settled = SubSeq(file, 1, Len(file) - 1)
    BY <1>5 DEF SettledShape
  <2>2. Len(file) >= 1 /\ file[Len(file)] = Piece(t, "head")
    BY <1>5 DEF OwnPiecesLast
  <2>3. file = SubSeq(file, 1, Len(file) - 1) \o <<Piece(t, "head")>>
    BY <1>1, <2>2, JoinOne
  <2>4. QED
    BY <1>1, <1>3, <2>1, <2>3 DEF Abstract!Spoil, Abstract!Half, Piece
<1>6. QED
  BY <1>1, <1>4, <1>5

LEMMA CrashRefines ==
    ASSUME LP!IInv, DataInv, SettledShape, SettledShape', Crash
    PROVE  Abstract!Restart
<1> USE DEF DataInv
<1>1. /\ step' = [k \in Handlers |-> "start"] /\ version' = 0
      /\ UNCHANGED <<file, result>> /\ file \in Seq(Pieces)
  BY DEF Crash, DataTypeOK
<1>2. Settled' = file
  BY <1>1 DEF SettledShape
<1>3. \/ file = Settled
      \/ \E h \in Handlers : file = Settled \o Abstract!Half(h)
      \/ \E h \in Handlers : file = Settled \o Abstract!Line(h)
  <2>1. CASE \A k \in Handlers : step[k] \notin {"head", "tail"}
    BY <2>1 DEF SettledShape
  <2>2. ASSUME NEW k \in Handlers, step[k] = "head"
        PROVE  file = Settled \o Abstract!Half(k)
    <3>1. file = SubSeq(file, 1, Len(file) - 1) \o <<Piece(k, "head")>>
      BY <1>1, <2>2, JoinOne DEF OwnPiecesLast
    <3>2. QED
      BY <2>2, <3>1 DEF SettledShape, Abstract!Half, Piece
  <2>3. ASSUME NEW k \in Handlers, step[k] = "tail"
        PROVE  file = Settled \o Abstract!Line(k)
    <3>1. file = SubSeq(file, 1, Len(file) - 2)
                   \o (<<Piece(k, "head")>> \o <<Piece(k, "tail")>>)
      BY <1>1, <2>3, JoinTwo DEF OwnPiecesLast
    <3>2. QED
      BY <2>3, <3>1 DEF SettledShape, Abstract!Line, Abstract!Half, Piece
  <2>4. QED
    BY <2>1, <2>2, <2>3
<1>4. QED
  BY <1>1, <1>2, <1>3 DEF Abstract!Restart

LEMMA StepRefines ==
    IInv /\ IInv' /\ [Next]_vars => [Abstract!Next]_(Abstract!vfVars)
<1> SUFFICES ASSUME LP!IInv, DataInv, SettledShape, SettledShape', [Next]_vars
             PROVE  [Abstract!Next]_(Abstract!vfVars)
  BY SettledIs, SettledIsNext DEF IInv
<1>1. ASSUME NEW t \in Handlers,
             CallRead(t) \/ ReadNext(t) \/ CallWrite(t) \/ WriteNext(t) \/ Tick(t)
      PROVE  \/ Abstract!Commit(t) \/ Abstract!Spoil(t) \/ Abstract!Observe(t)
             \/ UNCHANGED Abstract!vfVars
  BY <1>1, QuietRefines, ReadRefines, AppendRefines, BumpRefines, FailRefines
     DEF ReadNext, WriteNext, DataInv
<1>2. CASE Crash
  BY <1>2, CrashRefines DEF Abstract!Next
<1>3. CASE UNCHANGED vars
  <2>1. Settled' = Settled
    BY <1>3, SettledKept DEF vars, dataVars
  <2>2. QED
    BY <1>3, <2>1 DEF vars, dataVars, Abstract!vfVars
<1>4. QED
  BY <1>1, <1>2, <1>3 DEF Next, Abstract!Next

(* The data layer, with its lock, its two-step reads and its three-step    *)
(* writes, its failures and its crashes, does what VersionedFile promises: *)
(* text and stamp change by one indivisible commit, and a read returns the *)
(* two together (data_layer.py). *)
THEOREM Refinement == Spec => ImplementsVersionedFile
<1>1. IInv /\ IInv' /\ [Next]_vars => [Abstract!Next]_(Abstract!vfVars)
  BY StepRefines
<1>2. Init => Abstract!Init
  BY InitRefines
<1>3. QED
  BY <1>1, <1>2, Invariance, PTL DEF Spec, ImplementsVersionedFile, Abstract!Spec
=============================================================================
