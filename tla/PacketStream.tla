---------------------------- MODULE PacketStream ----------------------------
(***************************************************************************)
(* MQTT_ClientCon_recv_cb as a reader of a byte stream: what it makes of   *)
(* the segments in which TCP hands over the packets that a client sent:    *)
(* cut anywhere.  Each packet is one that the broker goes on with; those   *)
(* that make it drop the client end the stream (Broker).                   *)
(***************************************************************************)
EXTENDS PacketFormat

CONSTANTS
    Packets,      \* the packets that a client sends
    MaxPackets    \* how many of them

\* The length of a packet, which says how long it is, ends in the fixed header.
ASSUME PacketsAssumption ==
    /\ MaxPackets \in Nat
    /\ \A p \in Packets :
          /\ p \in Seq(Nat) /\ Len(p) \in 2 .. BufSize /\ mqtt_get_total_length(p, Len(p)) = Len(p)
          /\ \E i \in 2 .. MaxFixedHeader : i <= Len(p) /\ p[i] < Base

VARIABLES
    stream,     \* the packets sent
    wire,       \* their bytes that have not arrived
    buffered,   \* the first message_length_read bytes of the buffer
    handled,    \* the packets that were taken from it
    closed,     \* the connection was given up
    ragged,     \* the last segment had a shape that the reader is not right for
    sure        \* how many of those handled are to be the client's packets

streamVars == <<stream, wire, buffered, handled, closed, ragged, sure>>

-----------------------------------------------------------------------------
\* Mutant of Copied: pdata stays at the beginning of the segment.
CopiedAgain(segment, p, behind) ==
    IF p = 0 THEN buffered \o segment ELSE SubSeq(segment, 1, Len(segment) - p)

\* The bytes that READPACKET copies when pdata has come to position p of the end bytes that it
\* counts: at first the segment behind what the buffer holds.  Later pdata points p bytes into
\* the segment itself, so that with a buffer that was not empty it reads behind its end.
Copied(segment, p, behind) ==
    IF p = 0 THEN buffered \o segment
    ELSE [i \in 1 .. Len(buffered) + Len(segment) - p |->
             IF p + i <= Len(segment) THEN segment[p + i] ELSE behind]

\* Mutant of Unpacked: only the first packet of a segment is handled.
UnpackedOnce(segment, behind) ==
    LET b == Copied(segment, 0, behind)
        total == mqtt_get_total_length(b, Len(b))
    IN  IF total > Len(b) THEN [packets |-> <<>>, kept |-> b]
        ELSE [packets |-> <<SubSeq(b, 1, total)>>, kept |-> <<>>]

\* The packets of a segment, one after the other, and the bytes kept of one that is not whole.
Unpacked(segment, behind) ==
    LET end == Len(buffered) + Len(segment)
        From[p \in 0 .. end] ==
          LET b == Copied(segment, p, behind)
              total == mqtt_get_total_length(b, Len(b))
          IN  IF total > Len(b) THEN [packets |-> <<>>, kept |-> b]
              ELSE IF total = Len(b) THEN [packets |-> <<b>>, kept |-> <<>>]
              ELSE [packets |-> <<SubSeq(b, 1, total)>> \o From[p + total].packets,
                    kept |-> From[p + total].kept]
    IN  From[0]

TooLong(n) == Len(buffered) + n > BufSize

-----------------------------------------------------------------------------
Bytewise(packets) == FlattenSeq(packets)
Arrived == Len(Bytewise(stream)) - Len(wire)

\* Where packet k ends, and how many packets end up to there.
EndOf(k) == Len(Bytewise(SubSeq(stream, 1, k)))
EndedBy(at) == Cardinality({k \in 1 .. Len(stream) : EndOf(k) <= at})

\* A segment of n bytes is ragged if it goes on behind the packet that it continues, or ends
\* where what there is of a packet passes for a whole one: behind its first byte, or behind
\* a second one that says no more than that the length goes on.
GoesOn(n) == buffered # <<>> /\ EndOf(sure + 1) < Arrived + n
PassesForWhole(p, i) == i = 1 \/ (i = 2 /\ p[2] >= Base /\ p[2] % Base = 0)
Ragged(n) ==
    \/ GoesOn(n)
    \/ \E k \in 1 .. Len(stream) :
          LET i == Arrived + n - EndOf(k - 1) IN i < Len(stream[k]) /\ PassesForWhole(stream[k], i)

ClientSends == /\ Len(stream) < MaxPackets /\ ~closed /\ ~ragged
               /\ \E p \in Packets : stream' = Append(stream, p) /\ wire' = wire \o p
               /\ UNCHANGED <<buffered, handled, closed, ragged, sure>>

\* The stream is not followed behind a ragged segment: what is read then need be no packet.
MQTT_ClientCon_recv_cb ==
    /\ ~closed /\ ~ragged
    /\ \E n \in 1 .. Len(wire), behind \in {0, Base} :
          /\ wire' = SubSeq(wire, n + 1, Len(wire))
          /\ ragged' = Ragged(n)
          /\ IF TooLong(n) \/ n < 2
             THEN closed' = TRUE /\ UNCHANGED <<buffered, handled, sure>>
             ELSE LET new == Unpacked(SubSeq(wire, 1, n), behind)
                  IN  /\ handled' = handled \o new.packets /\ buffered' = new.kept
                      /\ sure' = IF GoesOn(n) THEN sure + 1 ELSE EndedBy(Arrived + n)
                      /\ UNCHANGED closed
    /\ UNCHANGED stream

StreamInit == /\ stream = <<>> /\ wire = <<>> /\ buffered = <<>> /\ handled = <<>>
              /\ closed = FALSE /\ ragged = FALSE /\ sure = 0
StreamNext == ClientSends \/ MQTT_ClientCon_recv_cb
StreamSpec == StreamInit /\ [][StreamNext]_streamVars
\* TCP hands over in the end what was sent.
StreamFairSpec == StreamSpec /\ WF_streamVars(MQTT_ClientCon_recv_cb)

-----------------------------------------------------------------------------
\* What is handled are the packets in the order in which they were sent, up to those that
\* the first ragged segment completes, wherever TCP cuts the stream.  And until then no byte
\* is lost or made up: what was handled, what is kept, and what has not arrived are the
\* stream, and what is kept is the beginning of one packet and fits.
HandledInOrder ==
    /\ sure <= Len(handled) /\ IsPrefix(SubSeq(handled, 1, sure), stream)
    /\ ~ragged => sure = Len(handled)
    /\ ~ragged /\ ~closed =>
        /\ Bytewise(handled) \o buffered \o wire = Bytewise(stream)
        /\ buffered # <<>> => Len(buffered) < Len(stream[Len(handled) + 1])
        /\ Len(buffered) <= BufSize

\* Everything sent is handled in the end, unless the connection is given up or a segment was
\* ragged.
PacketsAreHandled ==
    \A k \in 1 .. MaxPackets : Len(stream) >= k ~> (Len(handled) >= k \/ closed \/ ragged)
=============================================================================
