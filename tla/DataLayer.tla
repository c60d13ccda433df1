----------------------------- MODULE DataLayer -----------------------------
(***************************************************************************)
(* data_layer.py: read_resource and write_resource over the shared file,   *)
(* run by the handler threads of one server process, on top of the lock of *)
(* rwlock.py (module RWLock, whose variables these are).                   *)
(*                                                                         *)
(* Reading the file, reading the stamp, writing the file and bumping the   *)
(* stamp are separate steps.  A line reaches the file in two halves, since *)
(* a long text is flushed by several system calls; the file is the         *)
(* sequence of the halves written.  Any file operation may raise, and the  *)
(* process may crash: the file outlives it, the lock and the stamp do not. *)
(***************************************************************************)
EXTENDS Integers, Sequences, FiniteSets

CONSTANTS
    Handlers,     \* the handler threads of the server
    MaxWrites,    \* bound on the write calls made
    MaxCrashes,   \* bound on the crashes of the server process
    Failures      \* whether a file operation may raise

ASSUME DataLayerAssumption ==
    /\ IsFiniteSet(Handlers)
    /\ MaxWrites \in Nat
    /\ MaxCrashes \in Nat
    /\ Failures \in BOOLEAN

VARIABLES
    active_readers, active_writers, waiting_writers,
    readers_ok, writers_ok, pc, expired,
    file,      \* ProductSpecification.txt, from the first write on
    version,   \* _version
    step,      \* how far each thread inside the lock has come
    content,   \* the local variable content of read_resource
    result,    \* what the last successful read of each thread returned
    writes,    \* write calls so far
    run,       \* crashes so far: which process this is
    born       \* lines in the file when this process started (history)

Lock == INSTANCE RWLock WITH Readers <- Handlers, Writers <- Handlers

lockVars == <<active_readers, active_writers, waiting_writers,
              readers_ok, writers_ok, pc, expired>>
dataVars == <<file, version, step, content, result, writes, run, born>>
vars == <<lockVars, dataVars>>

Steps == {"start", "content", "head", "tail", "done", "failed"}
Pieces == [by : Handlers, half : {"head", "tail"}]
Piece(t, half) == [by |-> t, half |-> half]

(* The complete lines of a text. *)
Lines(text) == Cardinality({i \in DOMAIN text : text[i].half = "tail"})

(* A client that has not read yet holds no copy. *)
NoCopy == [version |-> -1, content |-> <<>>, run |-> 0]
HasCopy(t) == result[t] # NoCopy

TypeOK ==
    /\ Lock!TypeOK
    /\ file \in Seq(Pieces)
    /\ writes \in 0 .. MaxWrites
    /\ version \in 0 .. writes
    /\ step \in [Handlers -> Steps]
    /\ content \in [Handlers -> Seq(Pieces)]
    /\ result \in [Handlers ->
          {NoCopy} \cup [version : Nat, content : Seq(Pieces), run : 0 .. run]]
    /\ run \in 0 .. MaxCrashes
    /\ born \in Nat

Init ==
    /\ Lock!Init
    /\ file = <<>>
    /\ version = 0
    /\ step = [t \in Handlers |-> "start"]
    /\ content = [t \in Handlers |-> <<>>]
    /\ result = [t \in Handlers |-> NoCopy]
    /\ writes = 0
    /\ run = 0
    /\ born = 0

Advance(t, next) == step' = [step EXCEPT ![t] = next]

-----------------------------------------------------------------------------
(* read_resource *)

(* Going on requires that acquire_* returned True. *)
ResultUnchecked(t, place) == pc[t] \in {place, "timed_out"}
Holds(t, place) == pc[t] = place

CallRead(t) == Lock!CallAcquireRead(t) /\ UNCHANGED dataVars

(* Admitted, refused with "Timeout acquiring read lock", or parked. *)
AcquireRead(t) ==
    /\ Lock!EnterAcquireRead(t) \/ Lock!WakeReader(t)
    /\ UNCHANGED dataVars

ReadContent(t) ==
    /\ Holds(t, "reading")
    /\ step[t] = "start"
    /\ content' = [content EXCEPT ![t] = file]
    /\ Advance(t, "content")
    /\ UNCHANGED <<lockVars, file, version, result, writes, run, born>>

ReadFails(t) ==
    /\ Failures
    /\ Holds(t, "reading")
    /\ step[t] = "start"
    /\ Advance(t, "failed")
    /\ UNCHANGED <<lockVars, file, version, content, result, writes, run, born>>

(* "return True, content, self.version": still inside the lock. *)
ReadVersion(t) ==
    /\ Holds(t, "reading")
    /\ step[t] = "content"
    /\ result' = [result EXCEPT
          ![t] = [version |-> version, content |-> content[t], run |-> run]]
    /\ content' = [content EXCEPT ![t] = <<>>]
    /\ Advance(t, "done")
    /\ UNCHANGED <<lockVars, file, version, writes, run, born>>

(* The finally clauses: the lock is released after a return and after an   *)
(* exception. *)
OnceWritten == {"tail", "done", "failed"}
Over == {"done", "failed"}

FinishRead(t) ==
    /\ step[t] \in Over
    /\ Lock!ReleaseRead(t)
    /\ Advance(t, "start")
    /\ UNCHANGED <<file, version, content, result, writes, run, born>>

-----------------------------------------------------------------------------
(* write_resource *)

CallWrite(t) ==
    /\ writes < MaxWrites
    /\ Lock!CallAcquireWrite(t)
    /\ writes' = writes + 1
    /\ UNCHANGED <<file, version, step, content, result, run, born>>

AcquireWrite(t) ==
    /\ Lock!EnterAcquireWrite(t) \/ Lock!WakeWriter(t)
    /\ UNCHANGED dataVars

AppendPiece(t, from, half) ==
    /\ Holds(t, "writing")
    /\ step[t] = from
    /\ file' = Append(file, Piece(t, half))
    /\ Advance(t, half)
    /\ UNCHANGED <<lockVars, version, content, result, writes, run, born>>

(* open, write or the flush of close raises: at most half the line is out. *)
AppendFails(t) ==
    /\ Failures
    /\ Holds(t, "writing")
    /\ step[t] \in {"start", "head"}
    /\ Advance(t, "failed")
    /\ UNCHANGED <<lockVars, file, version, content, result, writes, run, born>>

BumpTwice(v) == v + 2
Bump(v) == v + 1

BumpVersion(t) ==
    /\ Holds(t, "writing")
    /\ step[t] = "tail"
    /\ version' = Bump(version)
    /\ Advance(t, "done")
    /\ UNCHANGED <<lockVars, file, content, result, writes, run, born>>

FinishWrite(t) ==
    /\ step[t] \in Over
    /\ Lock!ReleaseWrite(t)
    /\ Advance(t, "start")
    /\ UNCHANGED <<file, version, content, result, writes, run, born>>

-----------------------------------------------------------------------------
Tick(t) == Lock!Expire(t) /\ UNCHANGED dataVars

(* The process dies and is started again: __init__ makes a new lock and a  *)
(* new stamp and finds the file as it is.  Clients keep what they have.    *)
Crash ==
    /\ run < MaxCrashes
    /\ run' = run + 1
    /\ active_readers' = 0
    /\ active_writers' = 0
    /\ waiting_writers' = 0
    /\ readers_ok' = {}
    /\ writers_ok' = {}
    /\ pc' = [t \in Handlers |-> "idle"]
    /\ expired' = [t \in Handlers |-> FALSE]
    /\ version' = 0
    /\ step' = [t \in Handlers |-> "start"]
    /\ content' = [t \in Handlers |-> <<>>]
    /\ born' = Lines(file)
    /\ UNCHANGED <<file, result, writes>>

ReadNext(t) ==
    AcquireRead(t) \/ ReadContent(t) \/ ReadFails(t) \/ ReadVersion(t) \/ FinishRead(t)

WriteNext(t) ==
    \/ AcquireWrite(t)
    \/ AppendPiece(t, "start", "head") \/ AppendPiece(t, "head", "tail")
    \/ AppendFails(t) \/ BumpVersion(t) \/ FinishWrite(t)

Next ==
    \/ \E t \in Handlers :
          CallRead(t) \/ ReadNext(t) \/ CallWrite(t) \/ WriteNext(t) \/ Tick(t)
    \/ Crash

Spec == Init /\ [][Next]_vars

-----------------------------------------------------------------------------
(* Properties. *)

(* Two writers never mix their text: the second half of a line always      *)
(* directly follows its own first half, and a first half without one is    *)
(* the work of a failed or crashed write (write_resource holds the         *)
(* exclusive lock around the whole append). *)
LinesContiguous ==
    \A i \in DOMAIN file : file[i].half = "tail" =>
        i > 1 /\ file[i - 1] = Piece(file[i].by, "head")

(* A read returns a text and the stamp of that very text, though it takes  *)
(* them in two steps and writers change them in three: the stamp counts    *)
(* the lines committed by this process (read_resource, write_resource).    *)
SnapshotExact ==
    \A t \in Handlers : HasCopy(t) /\ result[t].run = run =>
        result[t].version + born = Lines(result[t].content)

(* The data layer implements the versioned file: commits and reads are     *)
(* indivisible, failed writes leave no stamp and at most half a line.      *)
Unsettled == {t \in Handlers : pc[t] = "writing" /\ step[t] \in {"head", "tail"}}
Settled ==
    IF \E t \in Unsettled : step[t] = "head" THEN SubSeq(file, 1, Len(file) - 1)
    ELSE IF Unsettled # {} THEN SubSeq(file, 1, Len(file) - 2)
    ELSE file

Abstract == INSTANCE VersionedFile WITH
    text  <- Settled,
    stamp <- version,
    seen  <- [t \in Handlers |->
                [version |-> result[t].version, content |-> result[t].content]]

ImplementsVersionedFile == Abstract!Spec
=============================================================================
