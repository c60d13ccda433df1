------------------------------ MODULE Framing ------------------------------
(***************************************************************************)
(* protocol.py: messages over the byte stream of one TCP connection, in    *)
(* one direction.  Several threads send on the same socket, one message at *)
(* a time under the _send_lock of ClientHandler or ServerConnection; one   *)
(* thread reads with a FramedReader.                                       *)
(*                                                                         *)
(* A message is Size pieces and the delimiter.  sendall hands them to TCP  *)
(* in any portions as room allows, recv returns any portion up to Chunk of *)
(* what has arrived, and the connection may break with any suffix lost.    *)
(* JSON is what makes a line a message or not: pieces of one message in    *)
(* order, and nothing else, are that message.                              *)
(***************************************************************************)
EXTENDS Integers, Sequences, FiniteSets

CONSTANTS
    Senders,     \* the threads that send on the socket
    Messages,    \* what they send, each message once
    Size,        \* pieces of an encoded message before the delimiter
    Chunk,       \* the most that recv returns (4096)
    Window,      \* how much TCP takes before the reader has read it
    Delimiter,   \* the newline byte
    Nothing,     \* no message has been read yet
    End,         \* read_message returned None or raised OSError
    Garbled      \* json.loads raises

ASSUME FramingAssumption ==
    /\ IsFiniteSet(Messages)
    /\ {Size, Chunk, Window} \subseteq Nat \ {0}
    /\ Delimiter \notin Messages \X (1 .. Size)
    /\ {Nothing, End, Garbled} \cap Messages = {}

VARIABLES
    unsent,     \* messages no thread has begun to send
    sending,    \* the threads inside the send lock
    portion,    \* what each thread's sendall has still to hand over
    up,         \* whether the TCP connection stands
    wire,       \* bytes between the two sockets
    buffer,     \* _buffer
    returned    \* what read_message returned last

senderVars == <<unsent, sending, portion>>
vars == <<senderVars, up, wire, buffer, returned>>

Body(m) == [i \in 1 .. Size |-> <<m, i>>]
Encode(m) == Append(Body(m), Delimiter)
Bytes == (Messages \X (1 .. Size)) \cup {Delimiter}
Decode(line) ==
    IF \E m \in Messages : line = Body(m)
    THEN CHOOSE m \in Messages : line = Body(m) ELSE Garbled

(* A message that does not decode is never read: the senders take turns.   *)
TypeOK ==
    /\ unsent \subseteq Messages
    /\ sending \subseteq Senders
    /\ portion \in [Senders -> Seq(Bytes)]
    /\ up \in BOOLEAN
    /\ wire \in Seq(Bytes)
    /\ buffer \in Seq(Bytes)
    /\ returned \in Messages \cup {Nothing, End}

Init ==
    /\ unsent = Messages
    /\ sending = {}
    /\ portion = [s \in Senders |-> <<>>]
    /\ up = TRUE
    /\ wire = <<>>
    /\ buffer = <<>>
    /\ returned = Nothing

First(bytes, n) == SubSeq(bytes, 1, n)
After(bytes, n) == SubSeq(bytes, n + 1, Len(bytes))

-----------------------------------------------------------------------------
(* _send and _raw_send: send_message under the send lock. *)
AnyTime == TRUE
LockFree == sending = {}

StartSend(s, m) ==
    /\ LockFree
    /\ s \notin sending
    /\ m \in unsent
    /\ unsent' = unsent \ {m}
    /\ sending' = sending \cup {s}
    /\ portion' = [portion EXCEPT ![s] = Encode(m)]
    /\ UNCHANGED <<up, wire, buffer, returned>>

SendSome(s) ==
    /\ s \in sending
    /\ up
    /\ \E n \in 1 .. Len(portion[s]) :
          /\ Len(wire) + n <= Window
          /\ wire' = wire \o First(portion[s], n)
          /\ portion' = [portion EXCEPT ![s] = After(@, n)]
    /\ UNCHANGED <<unsent, sending, up, buffer, returned>>

(* sendall returns when all is handed over, or raises; either way the lock *)
(* is released. *)
EndSend(s) ==
    /\ s \in sending
    /\ portion[s] = <<>> \/ ~up
    /\ sending' = sending \ {s}
    /\ portion' = [portion EXCEPT ![s] = <<>>]
    /\ UNCHANGED <<unsent, up, wire, buffer, returned>>

-----------------------------------------------------------------------------
(* read_message, called again and again. *)
Delimiters(bytes) == {i \in DOMAIN bytes : bytes[i] = Delimiter}
FirstDelimiter(bytes) ==
    CHOOSE i \in Delimiters(bytes) : \A j \in Delimiters(bytes) : i <= j

Reading == returned # End
NeedsMore == Delimiters(buffer) = {}

Recv ==
    /\ Reading
    /\ NeedsMore
    /\ \E n \in 1 .. Len(wire) :
          /\ n <= Chunk
          /\ buffer' = buffer \o First(wire, n)
          /\ wire' = After(wire, n)
    /\ UNCHANGED <<senderVars, up, returned>>

RecvEnd ==
    /\ Reading
    /\ NeedsMore
    /\ ~up /\ wire = <<>>
    /\ returned' = End
    /\ UNCHANGED <<senderVars, up, wire, buffer>>

(* split(_DELIMITER, 1): the rest stays in the buffer. *)
NoRest(bytes) == <<>>
Rest(bytes) == After(bytes, FirstDelimiter(bytes))

ReturnMessage ==
    /\ Reading
    /\ ~NeedsMore
    /\ returned' = Decode(First(buffer, FirstDelimiter(buffer) - 1))
    /\ buffer' = Rest(buffer)
    /\ UNCHANGED <<senderVars, up, wire>>

-----------------------------------------------------------------------------
(* The peer closes, or the connection fails. *)
LinkEnds ==
    /\ up
    /\ up' = FALSE
    /\ wire' \in {First(wire, n) : n \in 0 .. Len(wire)}
    /\ UNCHANGED <<senderVars, buffer, returned>>

ReadStep == Recv \/ RecvEnd \/ ReturnMessage
SendStep(s) == SendSome(s) \/ EndSend(s)

Next ==
    \/ \E s \in Senders : SendStep(s) \/ \E m \in Messages : StartSend(s, m)
    \/ ReadStep
    \/ LinkEnds

Spec == Init /\ [][Next]_vars

(* The reader's and the senders' threads are scheduled. *)
FairSpec == Spec /\ WF_vars(ReadStep) /\ \A s \in Senders : WF_vars(SendStep(s))

-----------------------------------------------------------------------------
(* Properties. *)

(* The k-th line of a text, and the messages its complete lines are. *)
EndOf(bytes, k) ==
    CHOOSE e \in Delimiters(bytes) :
        Cardinality({d \in Delimiters(bytes) : d <= e}) = k
StartOf(bytes, k) == IF k = 1 THEN 1 ELSE EndOf(bytes, k - 1) + 1
Lines(bytes) ==
    [k \in 1 .. Cardinality(Delimiters(bytes)) |->
        Decode(SubSeq(bytes, StartOf(bytes, k), EndOf(bytes, k) - 1))]

(* The byte stream implements the channel of whole messages: however it is *)
(* cut up and whoever sends at the same time, messages are read one by one,*)
(* unmixed, in order and without a gap, and all that arrived is read       *)
(* before the end ("turning the byte stream into a message channel").      *)
Abstract == INSTANCE Channel WITH
    open  <- up,
    queue <- Lines(buffer \o wire),
    got   <- returned

ImplementsChannel == Abstract!Spec

(* What has been begun is read at last, unless the connection ends first:  *)
(* no message waits in the buffer, or in a thread, for a later one.        *)
UnderWay(m) ==
    \E bytes \in {buffer, wire} \cup {portion[s] : s \in Senders} :
        \E i \in DOMAIN bytes : bytes[i] \in {m} \X (1 .. Size)

EverySendArrives == \A m \in Messages : UnderWay(m) ~> (returned = m \/ ~up)
=============================================================================
