---------------------------- MODULE PacketCodec ----------------------------
(***************************************************************************)
(* A client of this library writes packets (PacketFormat), the broker      *)
(* reads them in its in_buffer, behind which older packets have left their *)
(* bytes.                                                                  *)
(***************************************************************************)
EXTENDS PacketFormat

CONSTANTS
    MaxIdLen,    \* 80, the longest client id
    Topics, Bodies, Qualities, Infos,   \* what is sent; Infos are connect_infos
    MaxId        \* message ids are looked at up to here, and at the end of their range

ConnectInfo ==
    [id : Seq(Bytes), clean : BOOLEAN, will : Seq(Bytes), willData : Seq(Bytes), willQos : 0 .. 3,
     willRetain : BOOLEAN, user : Seq(Bytes), pass : Seq(Bytes)]

ASSUME InputsAssumption ==
    /\ Qualities \subseteq 0 .. 2
    /\ Topics \subseteq Seq(1 .. Word - 1) /\ Bodies \subseteq Seq(Bytes)
    /\ Infos \subseteq ConnectInfo
    /\ \A info \in Infos :
          info.will = <<>> => info.willData = <<>> /\ info.willQos = 0 /\ ~info.willRetain

VARIABLES
    message_id,  \* of the client's mqtt_connection
    in_buffer,   \* of the broker
    sent         \* the last packet: what was to be sent, and its bytes

vars == <<message_id, in_buffer, sent>>

-----------------------------------------------------------------------------
(***************************************************************************)
(* CONNECT as MQTT_ClientCon_recv_cb takes it apart                        *)
(***************************************************************************)
Bit(flags, weight) == (flags \div weight) % 2 = 1

\* Where the strings of a CONNECT begin, one behind the other; 0 behind a bad one.
Starts(b, length) ==
    LET At[k \in 1 .. 6] ==
          IF k = 1 THEN 4
          ELSE IF At[k - 1] # 0 /\ HasString(b, At[k - 1], length) THEN Behind(b, At[k - 1]) ELSE 0
    IN  At

\* What the broker has of it: the answer, or DROPPED, and the connect_info.
Connection(b, length) ==
    LET flags == b[4]
        at == Starts(b, length)
        will == Bit(flags, 4)
        user == Bit(flags, 128)
        pass == Bit(flags, 64)
        userNo == IF will THEN 4 ELSE 2
        last == 1 + (IF will THEN 2 ELSE 0) + (IF user THEN 1 ELSE 0) + (IF pass THEN 1 ELSE 0)
        Field(there, k) == IF there THEN String(b, at[k]) ELSE <<>>
    IN  IF b[3] # MAGIC THEN [answer |-> "REFUSE_PROTOCOL"]
        ELSE IF \/ at[2] = 0 \/ Word16(b, 4) > MaxIdLen
                \/ Word16(b, 4) = 0 /\ ~Bit(flags, 2)
             THEN [answer |-> "REFUSE_ID"]
        ELSE IF \/ ~will /\ (Bit(flags, 32) \/ (flags \div 8) % 4 # 0)
                \/ pass /\ ~user
                \/ at[last + 1] = 0
             THEN [answer |-> "DROPPED"]
        ELSE [answer |-> "ACCEPTED",
              info |-> [id |-> String(b, 4), clean |-> Bit(flags, 2),
                        will |-> Field(will, 2), willData |-> Field(will, 3),
                        willQos |-> (flags \div 8) % 4, willRetain |-> Bit(flags, 32),
                        user |-> Field(user, userNo), pass |-> Field(pass, userNo + 1)]]

-----------------------------------------------------------------------------
(***************************************************************************)
(* The client sends, the broker receives.                                  *)
(***************************************************************************)
Received(packet) == packet \o SubSeq(in_buffer, Len(packet) + 1, BufSize)

Send(what, packet) == /\ sent' = [what EXCEPT !.packet = packet]
                      /\ in_buffer' = Received(packet)

Call(type, topic, data, qos, retain, id, info) ==
    [type |-> type, topic |-> topic, data |-> data, qos |-> qos, retain |-> retain, id |-> id,
     info |-> info, packet |-> <<>>]

NotSent == Call(Type.NONE, <<>>, <<>>, 0, 0, 0, <<>>)
Zeros == [i \in 1 .. BufSize |-> 0]
Connected == sent.type # Type.NONE

Counts(id) == id <= MaxId \/ id >= Word * Word - 2

\* A topic that does not fit is refused before the counter moves, data that does not fit behind it.
Publish(topic, data, qos, retain) ==
    /\ Connected
    /\ message_id' = IF qos > 0 /\ topic # <<>> /\ BodyFits(append_string(topic))
                     THEN NextId(message_id) ELSE message_id
    /\ Counts(message_id')
    /\ LET id == IF qos > 0 THEN message_id' ELSE 0
       IN  Send(Call(Type.PUBLISH, topic, data, qos, retain, id, <<>>),
                mqtt_msg_publish(topic, data, qos, retain, id))
Subscribe(topic, qos) ==
    /\ Connected
    /\ message_id' = NextId(message_id) /\ Counts(message_id')
    /\ Send(Call(Type.SUBSCRIBE, topic, <<>>, qos, 0, message_id', <<>>),
            mqtt_msg_subscribe(topic, qos, message_id'))
Unsubscribe(topic) ==
    /\ Connected
    /\ message_id' = NextId(message_id) /\ Counts(message_id')
    /\ Send(Call(Type.UNSUBSCRIBE, topic, <<>>, 0, 0, message_id', <<>>),
            mqtt_msg_unsubscribe(topic, message_id'))
\* A new connection: the client's counter begins anew, the broker takes a buffer of zeros.
Connect(info, behind) ==
    /\ ~Connected
    /\ LET packet == mqtt_msg_connect(info, behind)
       IN  /\ sent' = [Call(Type.CONNECT, <<>>, <<>>, 0, 0, 0, info) EXCEPT !.packet = packet]
           /\ in_buffer' = Received(packet)
    /\ message_id' = 0

\* Many packets with ids later, the last of them a PINGREQ.
LongAfter == /\ Connected
             /\ message_id' = Word * Word - 2
             /\ Send(Call(Type.PINGREQ, <<>>, <<>>, 0, 0, 0, <<>>), mqtt_msg_pingreq)

\* The connection ends, and the broker frees the buffer.
Close == Connected /\ sent' = NotSent /\ in_buffer' = Zeros /\ UNCHANGED message_id

Init == message_id = 0 /\ in_buffer = Zeros /\ sent = NotSent

Next == \/ \E t \in Topics, d \in Bodies, q \in Qualities, r \in 0 .. 1 : Publish(t, d, q, r)
        \/ \E t \in Topics \ {<<>>}, q \in Qualities : Subscribe(t, q)
        \/ \E t \in Topics \ {<<>>} : Unsubscribe(t)
        \/ \E info \in Infos, behind \in {0, 1} : Connect(info, behind)
        \/ LongAfter
        \/ Close

Spec == Init /\ [][Next]_vars

-----------------------------------------------------------------------------
Is(type) == sent.type = type /\ sent.packet # <<>>

\* The buffer holds bytes, header bytes and MAGIC.
TypeOK == /\ message_id \in 0 .. Word * Word - 1
          /\ in_buffer \in [1 .. BufSize -> Bytes \cup 0 .. 255 \cup {MAGIC}]
          /\ Len(sent.packet) <= BufSize

\* A PUBLISH is read as it was written, whatever is left in the buffer behind it: the readers
\* are told of the whole buffer and find the end of the data by the packet's own length.
PublishArrives ==
    Is(Type.PUBLISH) =>
        /\ mqtt_get_type(in_buffer) = Type.PUBLISH
        /\ mqtt_get_publish_topic(in_buffer, BufSize) = sent.topic
        /\ mqtt_get_publish_data(in_buffer, BufSize) = sent.data
        /\ <<mqtt_get_qos(in_buffer), mqtt_get_retain(in_buffer)>> = <<sent.qos, sent.retain>>
        /\ mqtt_get_total_length(in_buffer, BufSize) = Len(sent.packet)

\* A SUBSCRIBE or UNSUBSCRIBE whose length takes one byte is read as it was written.
RequestArrives ==
    (Is(Type.SUBSCRIBE) \/ Is(Type.UNSUBSCRIBE)) /\ in_buffer[2] < Base =>
        /\ mqtt_get_id(in_buffer, BufSize) = sent.id
        /\ RequestedTopic(in_buffer, Len(sent.packet)) = sent.topic

\* What was published goes on to a subscriber at QoS 0, through a buffer of the same size.
RelayFits ==
    Is(Type.PUBLISH) =>
        mqtt_msg_publish(mqtt_get_publish_topic(in_buffer, BufSize),
                         mqtt_get_publish_data(in_buffer, BufSize), 0, 0, 0) # <<>>

\* A packet that asks for an answer never carries the id that stands for none, and the client
\* finds the id it has to wait for in the packet; a PUBLISH without a body is the exception.
IdIsKnown ==
    /\ Is(Type.SUBSCRIBE) \/ Is(Type.UNSUBSCRIBE) \/ (Is(Type.PUBLISH) /\ sent.qos > 0) => sent.id # 0
    /\ Is(Type.PUBLISH) /\ sent.data # <<>> =>
          mqtt_get_id(sent.packet, Len(sent.packet)) = sent.id

\* A CONNECT that fits into a one-byte length and whose last string is not empty is accepted
\* with what the client gave.
Last4(info) == IF info.pass # <<>> THEN info.pass ELSE IF info.user # <<>> THEN info.user
               ELSE IF info.will # <<>> THEN info.willData ELSE info.id
ConnectArrives ==
    Is(Type.CONNECT) /\ in_buffer[2] < Base /\ sent.info.id # <<>> /\ Last4(sent.info) # <<>> =>
        Connection(in_buffer, Len(sent.packet)) =
            IF Len(sent.info.id) > MaxIdLen THEN [answer |-> "REFUSE_ID"]
            ELSE IF sent.info.pass # <<>> /\ sent.info.user = <<>> THEN [answer |-> "DROPPED"]
            ELSE [answer |-> "ACCEPTED", info |-> sent.info]

\* The broker reads every packet as the library wrote it, and passes it on.
ReadAsWritten == PublishArrives /\ RequestArrives /\ RelayFits /\ IdIsKnown /\ ConnectArrives
=============================================================================
