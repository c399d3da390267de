------------------------------ MODULE MsgQueue ------------------------------
(***************************************************************************)
(* The queue of outgoing messages byte by byte: queue.c and the frames of  *)
(* proto.c in the ring buffer, which is the bounded FIFO that RingBuf      *)
(* implements.  A message is put as BEGIN, its bytes with those that look  *)
(* like frame bytes escaped, END; a put that meets a full ring stops where *)
(* it is.                                                                  *)
(***************************************************************************)
EXTENDS Integers, SequencesExt, Ascent

CONSTANTS
    Message,         \* the messages that are put: sequences of bytes
    QueueSize,       \* QUEUE_BUFFER_SIZE
    MaxLen           \* the size of the buffer given to QUEUE_Gets

ASSUME QueueSizeAssumption == QueueSize \in Nat \ {0}
ASSUME MessageAssumption ==
    /\ MaxLen \in Nat
    /\ \A m \in Message : m \in Seq(0..255) /\ Len(m) <= MaxLen

VARIABLES
    rb,              \* the bytes in the ring, oldest first
    taken,           \* the answer to the last QUEUE_Gets, <<>> if it failed
    queued           \* observed: the messages put with success and not yet taken

queue == <<rb, taken, queued>>

ESC == 125           \* 0x7D
BEGIN == 126         \* 0x7E
END == 127           \* 0x7F

\* value ^ 0x20
Flip(b) == IF (b \div 32) % 2 = 1 THEN b - 32 ELSE b + 32

QueueInit == rb = <<>> /\ taken = <<>> /\ queued = <<>>

(***************************************************************************)
(* PROTO_AddRb: as much of the frame as the ring takes.                    *)
(***************************************************************************)
Escaped(b) == IF b \in {ESC, BEGIN, END} THEN <<ESC, Flip(b)>> ELSE <<b>>
Frame(m) == <<BEGIN>> \o FlattenSeq([i \in DOMAIN m |-> Escaped(m[i])]) \o <<END>>

Fits(r, m) == Len(r) + Len(Frame(m)) <= QueueSize
\* Mutant of PROTO_AddRb: a message is cut to what fits, and its frame closed.
AddTruncated(r, m) ==
    IF Fits(r, m) THEN r \o Frame(m) ELSE SubSeq(r \o Frame(m), 1, QueueSize - 1) \o <<END>>

PROTO_AddRb(r, m) == IF Fits(r, m) THEN r \o Frame(m) ELSE SubSeq(r \o Frame(m), 1, QueueSize)

QUEUE_Puts(m) ==
    /\ rb' = PROTO_AddRb(rb, m)
    /\ queued' = IF Fits(rb, m) THEN Append(queued, m) ELSE queued
    /\ UNCHANGED taken

(***************************************************************************)
(* PROTO_ParseRb: a parser runs over the ring up to the first END.         *)
(***************************************************************************)
\* Mutant of PROTO_ParseByte: BEGIN does not end an escape.
ParseByteKeepEsc(p, b) ==
    CASE b = ESC -> [p EXCEPT !.isEsc = TRUE]
      [] b = BEGIN -> [p EXCEPT !.data = <<>>, !.isBegin = TRUE]
      [] b = END -> [p EXCEPT !.isBegin = FALSE]
      [] OTHER ->
           IF ~p.isBegin THEN p
           ELSE [p EXCEPT !.isEsc = FALSE,
                          !.data = IF Len(@) < MaxLen
                                   THEN Append(@, IF p.isEsc THEN Flip(b) ELSE b)
                                   ELSE @]

PROTO_ParseByte(p, b) ==
    CASE b = ESC -> [p EXCEPT !.isEsc = TRUE]
      [] b = BEGIN -> [data |-> <<>>, isEsc |-> FALSE, isBegin |-> TRUE]
      [] b = END -> [p EXCEPT !.isBegin = FALSE]
      [] OTHER ->
           IF ~p.isBegin THEN p
           ELSE [p EXCEPT !.isEsc = FALSE,
                          !.data = IF Len(@) < MaxLen
                                   THEN Append(@, IF p.isEsc THEN Flip(b) ELSE b)
                                   ELSE @]

\* PROTO_Init, which leaves isBegin as the stack has it.
PROTO_Init(garbage) == [data |-> <<>>, isEsc |-> FALSE, isBegin |-> garbage]

\* How many bytes PROTO_ParseRb gets from r: up to the first END, or all.
Consumed(r) ==
    IF \E i \in DOMAIN r : r[i] = END
    THEN CHOOSE i \in DOMAIN r : r[i] = END /\ \A j \in 1..i - 1 : r[j] # END
    ELSE Len(r)

PROTO_ParseRb(r, garbage) ==
    LET parser[n \in 0..Consumed(r)] ==
            IF n = 0 THEN PROTO_Init(garbage) ELSE PROTO_ParseByte(parser[n - 1], r[n])
    IN  parser[Consumed(r)].data

QUEUE_Gets(garbage) ==
    /\ rb' = SubSeq(rb, Consumed(rb) + 1, Len(rb))
    /\ IF \E i \in DOMAIN rb : rb[i] = END
       THEN taken' = <<PROTO_ParseRb(rb, garbage)>> /\ queued' = SubSeq(queued, 2, Len(queued))
       ELSE taken' = <<>> /\ UNCHANGED queued

QueueNext == \/ \E m \in Message : QUEUE_Puts(m)
             \/ \E garbage \in BOOLEAN : QUEUE_Gets(garbage)

QueueSpec == QueueInit /\ [][QueueNext]_queue

-----------------------------------------------------------------------------
\* The ring keeps within its size and is empty or begins with a frame: so the flag that
\* PROTO_Init leaves uninitialised is never read before a BEGIN has set it.
QueueTypeOK ==
    /\ rb \in Seq(0..255) /\ Len(rb) <= QueueSize
    /\ rb # <<>> => Head(rb) = BEGIN
    /\ queued \in Seq(Message)
    /\ taken \in {<<>>} \cup {<<m>> : m \in Message}

\* The queue is one of whole messages, in the order they were put: whatever bytes they
\* hold, wherever a frame was torn and whatever the parser's stack held.
Abstract == INSTANCE MessageFifo
FifoOfMessages == Abstract!Spec

(***************************************************************************)
(* The queue as the other modules see it, when all frames have one length. *)
(***************************************************************************)
FrameLength == CHOOSE n \in 1..2 * MaxLen + 2 : \A m \in Message : Len(Frame(m)) = n

\* All frames have one length, and the ring does not hold a whole number of them: the part
\* of one more is what a torn frame occupies.
OneLength == /\ \A m \in Message : Len(Frame(m)) = FrameLength
             /\ FrameLength \in Nat \ {0} /\ QueueSize % FrameLength # 0

Whole == INSTANCE OutQueue WITH QueueCap <- QueueSize \div FrameLength

\* The frames in the ring: a whole one by its message, one that was begun by TORN.
Begins(r) == Ascending({i \in DOMAIN r : r[i] = BEGIN})
FrameAt(r, i) ==
    LET ends == {j \in i + 1..Len(r) : r[j] = END /\ \A k \in i + 1..j : r[k] # BEGIN}
    IN  IF ends = {} THEN Whole!TORN
        ELSE [type |-> PROTO_ParseRb(SubSeq(r, i, Len(r)), FALSE)]
Frames(r) == [k \in DOMAIN Begins(r) |-> FrameAt(r, Begins(r)[k])]

\* OutQueue describes the ring: putting and getting whole messages, torn ones included,
\* has the same effect on both, and the ring is empty when OutQueue's queue is.
AsOutQueue == [][
    /\ \A m \in Message :
          QUEUE_Puts(m) => Frames(rb') = Whole!Puts(Frames(rb), <<[type |-> m]>>)
    /\ QUEUE_Gets(FALSE) =>
          Frames(rb') = LET q == Whole!Readable(Frames(rb))
                        IN  IF Whole!IsEmpty(q) THEN q ELSE Tail(q)
    ]_queue
=============================================================================
