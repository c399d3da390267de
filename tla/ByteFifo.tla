------------------------------ MODULE ByteFifo ------------------------------
(***************************************************************************)
(* What mqtt/ringbuf_mqtt.h promises its only user, the packet framing of  *)
(* proto.c: a first-in first-out buffer of at most Size bytes.  A call     *)
(* answers rc = 0 (done) or rc = -1 (full, empty), and a Get that fails    *)
(* leaves the caller's byte alone.                                         *)
(***************************************************************************)
EXTENDS Integers, Sequences

CONSTANTS
    Byte,        \* the values a stored U8 can have
    Size         \* the size given to RINGBUF_Init, in bytes

VARIABLES
    fifo,        \* the bytes put and not yet got, oldest first
    rc,          \* what the last call returned
    c            \* the caller's byte, the target of the pointer given to Get

vars == <<fifo, rc, c>>

Init == fifo = <<>> /\ rc = 0 /\ c \in Byte

Put(b) ==
    /\ Len(fifo) < Size
    /\ fifo' = Append(fifo, b)
    /\ rc' = 0
    /\ UNCHANGED c

Get ==
    /\ fifo # <<>>
    /\ c' = Head(fifo)
    /\ fifo' = Tail(fifo)
    /\ rc' = 0

\* A call that cannot be served says so and changes nothing else.
Refused ==
    /\ Len(fifo) = Size \/ fifo = <<>>
    /\ rc' = -1
    /\ UNCHANGED <<fifo, c>>

Next == Get \/ Refused \/ \E b \in Byte : Put(b)

Spec == Init /\ [][Next]_vars
=============================================================================
