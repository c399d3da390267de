------------------------------ MODULE OutQueue ------------------------------
(***************************************************************************)
(* The outgoing queue of a connection (msgQueue, queue.c) at the level of  *)
(* whole messages.  QUEUE_Puts writes a frame byte by byte into the ring   *)
(* and gives up in the middle when the ring is full (proto.c): the begun   *)
(* frame stays behind, makes the queue look non-empty and is skipped by    *)
(* the reader.  It is the element TORN here.  All messages are taken to    *)
(* have one size, of which the ring holds QueueCap and a part of one more: *)
(* the part is what a TORN occupies, so that a second one finds no room.   *)
(***************************************************************************)
EXTENDS Integers, Sequences, FiniteSets

CONSTANT QueueCap    \* whole messages that fit into QUEUE_BUFFER_SIZE bytes

ASSUME QueueCapAssumption == QueueCap \in Nat /\ QueueCap >= 1

TORN == [type |-> "TORN"]

\* How many messages of q are whole.
Whole(q) == Cardinality({i \in DOMAIN q : q[i] # TORN})

\* The room left, in messages.
Room(q) == IF Whole(q) < QueueCap THEN QueueCap - Whole(q) ELSE 0

\* QUEUE_Puts of each message of ms in turn: those that fit are queued, the
\* first that does not leaves its torn beginning, the others nothing.
Puts(q, ms) ==
    IF Len(ms) <= Room(q) THEN q \o ms
    ELSE LET fitting == q \o SubSeq(ms, 1, Room(q))
         IN  IF \E i \in DOMAIN q : q[i] = TORN THEN fitting ELSE Append(fitting, TORN)

\* QUEUE_IsEmpty: no byte in the ring, not even of a torn frame.
IsEmpty(q) == q = <<>>

\* What the parser meets once it has skipped a torn frame at the head.
Readable(q) == IF q # <<>> /\ Head(q) = TORN THEN Tail(q) ELSE q
=============================================================================
