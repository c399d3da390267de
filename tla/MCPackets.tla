----------------------------- MODULE MCPackets -----------------------------
(***************************************************************************)
(* The way of a packet through the broker, in four parts that share        *)
(* nothing: segments that become packets, packets that are read as they    *)
(* were written, filters that are matched with topics, and the frames of   *)
(* the outgoing queue with messages of one length.                         *)
(* A behaviour is one of part's alone.                                     *)
(*                                                                         *)
(* Packets are on both sides of the one-byte length, up to one that fills  *)
(* the buffer and one that does not fit.  The stream has PINGREQ, a        *)
(* PUBLISH with a length of one byte and two with a length of two bytes,   *)
(* of which one is the first such length.  Each message of the queue has a *)
(* byte that is escaped, and the ring holds three of their frames and      *)
(* three bytes of a fourth.                                                *)
(***************************************************************************)
EXTENDS PacketCodec, PacketStream, TopicMatch, MsgQueue

VARIABLE part

TopicSet == {<<1, 2>>, [i \in 1 .. BufSize - MaxFixedHeader - 4 |-> 1]}
BodySet == {<<>>, <<3, 0>>, [i \in 1 .. Base - 2 |-> 3]}

Info(id, clean, will, willData, qos, retain, user, pass) ==
    [id |-> id, clean |-> clean, will |-> will, willData |-> willData, willQos |-> qos,
     willRetain |-> retain, user |-> user, pass |-> pass]

InfoSet ==
    {Info(id, clean, <<>>, <<>>, 0, FALSE, user, pass) :
        id \in {<<>>, <<1>>, <<1, 2, 1, 2>>}, clean \in BOOLEAN,
        user \in {<<>>, <<2>>}, pass \in {<<>>, <<1, 1>>}}
    \cup {Info(<<1>>, TRUE, <<2>>, data, 1, retain, user, pass) :
        data \in {<<>>, <<3>>}, retain \in BOOLEAN, user \in {<<>>, <<2>>}, pass \in {<<>>, <<1>>}}

PacketSet == {mqtt_msg_pingreq, mqtt_msg_publish(<<1>>, <<0>>, 0, 0, 0),
              mqtt_msg_publish(<<1, 2>>, [i \in 1 .. Base - 4 |-> 1], 0, 1, 0),
              mqtt_msg_publish(<<1>>, [i \in 1 .. Base |-> 1], 0, 1, 0)}

MessageSet == {<<1, 125>>, <<127, 93>>}

ASSUME OneLength

all == <<vars, streamVars, matchVars, queue, part>>

PartsInit == /\ part \in {"stream", "codec", "match", "queue"}
             /\ Init /\ StreamInit /\ MatchInit /\ QueueInit

PartsNext ==
    \/ part = "stream" /\ StreamNext /\ UNCHANGED <<vars, matchVars, queue, part>>
    \/ part = "codec" /\ Next /\ UNCHANGED <<streamVars, matchVars, queue, part>>
    \/ part = "match" /\ MatchNext /\ UNCHANGED <<vars, streamVars, queue, part>>
    \/ part = "queue" /\ QueueNext /\ UNCHANGED <<vars, streamVars, matchVars, part>>

\* The fairness of PacketStream's StreamFairSpec.
PartsSpec ==
    /\ PartsInit /\ [][PartsNext]_all
    /\ WF_all(part = "stream" /\ MQTT_ClientCon_recv_cb /\ UNCHANGED <<vars, matchVars, queue, part>>)
=============================================================================
