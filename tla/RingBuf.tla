------------------------------- MODULE RingBuf -------------------------------
(***************************************************************************)
(* The ring buffer under every message queue of the broker and of the      *)
(* client: ringbuf_mqtt.c.  The write and the read pointer are offsets     *)
(* from p_o; both are wrapped by a comparison after the step, as in the    *)
(* code, and the fill count alone tells a full ring from an empty one.     *)
(***************************************************************************)
EXTENDS Integers, Sequences

CONSTANTS
    Byte,        \* the values a stored U8 can have
    Size         \* the size given to RINGBUF_Init

\* RINGBUF_Init refuses a smaller buffer.
ASSUME SizeAssumption == Size \in Nat /\ Size >= 2
ASSUME ByteAssumption == Byte # {}

VARIABLES
    buf,         \* the bytes of the array: whatever was there, then what was put
    p_r,         \* r->p_r - r->p_o
    p_w,         \* r->p_w - r->p_o
    fill_cnt,    \* r->fill_cnt
    rc,          \* what the last call returned
    c            \* the caller's byte

vars == <<buf, p_r, p_w, fill_cnt, rc, c>>

Offset == 0 .. Size - 1

\* Mutant of Advance: the wrap test with > for >=.
AdvanceLate(p) == IF p + 1 > Size THEN 0 ELSE p + 1

\* The step of a pointer: p++, then back to p_o when it has passed the end.
Advance(p) == IF p + 1 >= Size THEN 0 ELSE p + 1

RINGBUF_Init ==
    /\ buf \in [Offset -> Byte]
    /\ p_r = 0 /\ p_w = 0
    /\ fill_cnt = 0
    /\ rc = 0
    /\ c \in Byte

\* Mutant of RINGBUF_Put: room is tested against the count before this byte.
PutOneTooMany(b) ==
    /\ fill_cnt <= Size
    /\ fill_cnt' = fill_cnt + 1
    /\ buf' = [buf EXCEPT ![p_w] = b]
    /\ p_w' = Advance(p_w)
    /\ rc' = 0
    /\ UNCHANGED <<p_r, c>>

RINGBUF_Put(b) ==
    /\ fill_cnt < Size
    /\ fill_cnt' = fill_cnt + 1
    /\ buf' = [buf EXCEPT ![p_w] = b]
    /\ p_w' = Advance(p_w)
    /\ rc' = 0
    /\ UNCHANGED <<p_r, c>>

RINGBUF_PutFull ==
    /\ fill_cnt >= Size
    /\ rc' = -1
    /\ UNCHANGED <<buf, p_r, p_w, fill_cnt, c>>

\* Mutant of RINGBUF_Get: the read pointer never wraps back to p_o but stays
\* at the last byte.
GetNoWrap ==
    /\ fill_cnt > 0
    /\ fill_cnt' = fill_cnt - 1
    /\ c' = buf[p_r]
    /\ p_r' = IF p_r + 1 >= Size THEN p_r ELSE p_r + 1
    /\ rc' = 0
    /\ UNCHANGED <<buf, p_w>>

RINGBUF_Get ==
    /\ fill_cnt > 0
    /\ fill_cnt' = fill_cnt - 1
    /\ c' = buf[p_r]
    /\ p_r' = Advance(p_r)
    /\ rc' = 0
    /\ UNCHANGED <<buf, p_w>>

RINGBUF_GetEmpty ==
    /\ fill_cnt <= 0
    /\ rc' = -1
    /\ UNCHANGED <<buf, p_r, p_w, fill_cnt, c>>

Next ==
    \/ \E b \in Byte : RINGBUF_Put(b)
    \/ RINGBUF_PutFull
    \/ RINGBUF_Get
    \/ RINGBUF_GetEmpty

Spec == RINGBUF_Init /\ [][Next]_vars

-----------------------------------------------------------------------------
(* Where the bytes are *)

\* The offset k bytes after the read pointer, for k at most Size.
At(k) == IF p_r + k < Size THEN p_r + k ELSE p_r + k - Size

\* The bytes put and not yet got, oldest first.
Contents == [k \in 1 .. fill_cnt |-> buf[At(k - 1)]]

\* Types of the ring of ringbuf_mqtt.h: both pointers stay inside the array
\* that QUEUE_Init allocated and the count stays within it.
TypeOK ==
    /\ buf \in [Offset -> Byte]
    /\ p_r \in Offset
    /\ p_w \in Offset
    /\ fill_cnt \in 0 .. Size
    /\ rc \in {0, -1}
    /\ c \in Byte

\* The three counters agree: the write pointer is fill_cnt bytes ahead of the
\* read pointer, around the end of the array when need be.  RINGBUF_Put and
\* RINGBUF_Get each move one pointer and the count, and nothing compares the
\* pointers with each other.
PointersAgree == p_w = At(fill_cnt)

\* The ring behaves as the byte queue of ByteFifo: nothing is lost, invented,
\* reordered or overwritten, whatever the calls and wherever the pointers wrap.
Fifo == INSTANCE ByteFifo WITH fifo <- Contents
FifoSpec == Fifo!Spec
=============================================================================
