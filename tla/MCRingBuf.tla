----------------------------- MODULE MCRingBuf -----------------------------
(***************************************************************************)
(* The memory below the broker, in three parts that share nothing: the     *)
(* ring, the frames in it with messages of mixed lengths, and the list of  *)
(* retained topics.  A behaviour is one of part's alone.                   *)
(*                                                                         *)
(* The ring has four bytes and three byte values, so that both pointers    *)
(* wrap in every relative position.  The messages hold frame bytes, what   *)
(* these become when escaped, and plain bytes; one is empty.  In the       *)
(* retained list a byte has three values, so that three is a length that   *)
(* needs both of its bytes.                                                *)
(***************************************************************************)
EXTENDS RingBuf, MsgQueue, RetainedList

VARIABLE part

MCByte == 0 .. 2
MCMessage == {<<>>, <<1>>, <<126>>, <<127, 125>>, <<95, 1, 126>>}
MCTopic == {<<1>>, <<2, 1>>, <<2>>}
MCData == {<<>>, <<2>>, <<1, 0, 2>>}

all == <<vars, queue, retained, part>>

\* The parts that do not run have one initial state.
PartsInit ==
    /\ part \in {"ring", "queue", "retained"}
    /\ RINGBUF_Init /\ QueueInit /\ RetainedInit
    /\ part # "ring" => c = 0 /\ \A i \in Offset : buf[i] = 0

PartsNext ==
    \/ part = "ring" /\ Next /\ UNCHANGED <<queue, retained, part>>
    \/ part = "queue" /\ QueueNext /\ UNCHANGED <<vars, retained, part>>
    \/ part = "retained" /\ RetainedNext /\ UNCHANGED <<vars, queue, part>>

PartsSpec == PartsInit /\ [][PartsNext]_all
=============================================================================
