---------------------------- MODULE PacketFormat ----------------------------
(***************************************************************************)
(* How mqtt_msg.c writes packets and reads them.  A length takes one byte  *)
(* below Base and two from there on.  The variable header of CONNECT is    *)
(* two elements here, MAGIC (name, version) and the flags; a header byte   *)
(* is a number of its own, and not kept below Word.                        *)
(***************************************************************************)
EXTENDS Integers, SequencesExt

CONSTANTS
    Base,        \* 128
    BufSize      \* MQTT_BUF_SIZE

Word == 2 * Base     \* 256, the values of a byte
Bytes == 0 .. Word - 1
MaxFixedHeader == 3  \* MQTT_MAX_FIXED_HEADER_SIZE
MAGIC == Word

ASSUME SizesAssumption ==
    /\ Base \in Nat /\ Base > 8
    /\ BufSize \in Nat /\ BufSize > Base + MaxFixedHeader /\ BufSize <= Base * Base

-----------------------------------------------------------------------------
(***************************************************************************)
(* Writing                                                                 *)
(***************************************************************************)
Type == [CONNECT |-> 1, PUBLISH |-> 3, SUBSCRIBE |-> 8, UNSUBSCRIBE |-> 10, PINGREQ |-> 12,
         NONE |-> 0]

\* The first byte of fini_message; dup is 0 in every packet.
HeaderByte(type, qos, retain) == 16 * type + 2 * qos + retain

TwoBytes(n) == <<n \div Word, n % Word>>
append_string(string) == TwoBytes(Len(string)) \o string

RemainingLength(n) == IF n > Base - 1 THEN <<Base + (n % Base), n \div Base>> ELSE <<n>>

fini_message(body, type, qos, retain) ==
    <<HeaderByte(type, qos, retain)>> \o RemainingLength(Len(body)) \o body

\* Mutant of BodyFits: the room for the fixed header is forgotten.
BodyFitsAlone(body) == Len(body) <= BufSize

\* The tests before each piece come to one for the whole; fail_message is the empty packet.
BodyFits(body) == MaxFixedHeader + Len(body) <= BufSize
Finished(body, type, qos, retain) ==
    IF BodyFits(body) THEN fini_message(body, type, qos, retain) ELSE <<>>

\* append_message_id with no id given: the counter skips zero when it wraps.
NextId(id) == IF id + 1 = Word * Word THEN 1 ELSE id + 1

PublishBody(topic, data, qos, id) ==
    append_string(topic) \o (IF qos > 0 THEN TwoBytes(id) ELSE <<>>) \o data
mqtt_msg_publish(topic, data, qos, retain, id) ==
    IF topic = <<>> THEN <<>> ELSE Finished(PublishBody(topic, data, qos, id), Type.PUBLISH, qos, retain)
mqtt_msg_subscribe(topic, qos, id) ==
    Finished(TwoBytes(id) \o append_string(topic) \o <<qos>>, Type.SUBSCRIBE, 1, 0)
mqtt_msg_unsubscribe(topic, id) ==
    Finished(TwoBytes(id) \o append_string(topic), Type.UNSUBSCRIBE, 1, 0)

mqtt_msg_pingreq == Finished(<<>>, Type.PINGREQ, 0, 0)

Optional(string) == IF string = <<>> THEN <<>> ELSE append_string(string)
Flag(condition, weight) == IF condition THEN weight ELSE 0
ConnectFlags(info) ==
    Flag(info.clean, 2)
    + (IF info.will = <<>> THEN 0 ELSE 4 + 8 * info.willQos + Flag(info.willRetain, 32))
    + Flag(info.pass # <<>>, 64) + Flag(info.user # <<>>, 128)

\* An empty id is appended with length 2: its final zero and the byte behind that.
mqtt_msg_connect(info, behind) ==
    Finished(<<MAGIC, ConnectFlags(info)>>
               \o append_string(IF info.id = <<>> THEN <<0, behind>> ELSE info.id)
               \o (IF info.will = <<>> THEN <<>>
                   ELSE append_string(info.will) \o append_string(info.willData))
               \o Optional(info.user) \o Optional(info.pass),
             Type.CONNECT, 0, 0)

-----------------------------------------------------------------------------
(***************************************************************************)
(* Reading; b[i + 1] is buffer[i] of the code, lengths are the number of   *)
(* bytes it is told that it may look at.                                   *)
(***************************************************************************)
mqtt_get_type(b) == b[1] \div 16
mqtt_get_qos(b) == (b[1] \div 2) % 4
mqtt_get_retain(b) == b[1] % 2

\* Where the length ends: behind the first byte without the continuation bit.
LengthEnd(b, length) ==
    LET ends == {i \in 2 .. length : b[i] < Base} IN IF ends = {} THEN length ELSE Min(ends)
mqtt_get_total_length(b, length) ==
    LET end == LengthEnd(b, length)
        Value[i \in 2 .. length + 2] == IF i > end THEN 0 ELSE (b[i] % Base) + Base * Value[i + 1]
    IN  end + Value[2]

Word16(b, at) == b[at + 1] * Word + b[at + 2]
Slice(b, at, length) == SubSeq(b, at + 1, at + length)

\* mqtt_get_str and mqtt_get_publish_topic: is there a string at this place?  One byte at
\* least must follow the length, so that an empty string is not found at the end.
HasString(b, at, length) == at + 2 < length /\ at + 2 + Word16(b, at) <= length
Behind(b, at) == at + 2 + Word16(b, at)
String(b, at) == Slice(b, at + 2, Word16(b, at))

mqtt_get_publish_topic(b, length) ==
    LET at == LengthEnd(b, length) IN IF HasString(b, at, length) THEN String(b, at) ELSE <<>>

\* Mutant of DataAt: the id of a QoS 1 packet is left in front of the data.
DataAtId(b, length) == Behind(b, LengthEnd(b, length))

DataAt(b, length) ==
    Behind(b, LengthEnd(b, length)) + (IF mqtt_get_qos(b) > 0 THEN 2 ELSE 0)

mqtt_get_publish_data(b, length) ==
    LET at == LengthEnd(b, length)
        total == mqtt_get_total_length(b, length)
    IN  IF /\ at + 2 < length /\ Behind(b, at) < length
           /\ mqtt_get_qos(b) > 0 => Behind(b, at) + 2 < length
           /\ total >= DataAt(b, length)
        THEN Slice(b, DataAt(b, length), (IF total <= length THEN total ELSE length) - DataAt(b, length))
        ELSE <<>>

mqtt_get_id(b, length) ==
    IF mqtt_get_type(b) = Type.PUBLISH
    THEN LET at == LengthEnd(b, length)
         IN  IF /\ at + 2 < length /\ Behind(b, at) < length
                /\ mqtt_get_qos(b) > 0 /\ Behind(b, at) + 2 < length
             THEN Word16(b, Behind(b, at)) ELSE 0
    ELSE IF mqtt_get_type(b) \in {Type.SUBSCRIBE, Type.UNSUBSCRIBE} /\ length >= 4 /\ b[2] < Base
         THEN Word16(b, 2) ELSE 0

\* The topic of SUBSCRIBE and UNSUBSCRIBE, from the fifth byte (MQTT_ClientCon_recv_cb).
RequestedTopic(b, length) == IF HasString(b, 4, length) THEN String(b, 4) ELSE <<>>
=============================================================================
