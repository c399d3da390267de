------------------------------- MODULE Broker -------------------------------
(***************************************************************************)
(* The MQTT broker of the indoor station: mqtt_server.c with its topic     *)
(* list (mqtt_topiclist.c) and its list of retained topics                 *)
(* (mqtt_retainedlist.c).                                                  *)
(*                                                                         *)
(* The firmware is single threaded: every callback of the network stack,   *)
(* every timer and the server task run to completion, and so does what the *)
(* sketch calls.  An action is one such call; what is open is their order. *)
(* A connection c of Conn stands for its espconn (tcp, reverse, inflight)  *)
(* and for the MQTT_ClientCon allocated for it (client[c]).                *)
(***************************************************************************)
EXTENDS OutQueue, SequencesExt

CONSTANTS
    Conn,            \* the connections the network stack can hold at a time
    ClientId,        \* the non-empty client ids
    Topic,           \* topic names
    Filter,          \* topic filters
    BadFilter,       \* those that Topics_isValidName refuses
    Match,           \* the pairs <<filter, topic>> that Topics_matches accepts
    Payload,         \* message bodies
    Empty,           \* the body of length zero
    FilterList,      \* the filter lists that SUBSCRIBE packets carry
    LocalFilters,    \* the filters the sketch subscribes to
    Wills,           \* the last wills that CONNECT packets carry
    BadTopic,        \* topics refused for a will: with wildcards, or from '$' on
    Publications,    \* what is published
    Pipelining,      \* BOOLEAN: may one segment hold several packets?
    MaxSubs,         \* max_subscriptions of MQTT_server_start
    MaxRetained,     \* max_retained_topics of MQTT_server_start
    ConnectTicks,    \* seconds a connection may take to send CONNECT
    KeepAliveTicks,  \* 2 * keepalive + 10, one keepalive for all clients
    SendTicks,       \* MQTT_SEND_TIMOUT
    LOCAL_MQTT_CLIENT,  \* owner of the sketch's own subscriptions
    dummy_clientcon,    \* the stand-in record of connections being closed
    NULL

ASSUME BoundsAssumption ==
    /\ MaxSubs \in Nat /\ MaxRetained \in Nat
    /\ ConnectTicks \in Nat /\ KeepAliveTicks \in Nat /\ SendTicks \in Nat
ASSUME InputsAssumption ==
    /\ Empty \in Payload
    /\ BadFilter \subseteq Filter /\ LocalFilters \subseteq Filter
    /\ Match \subseteq Filter \X Topic /\ BadTopic \subseteq Topic
    /\ FilterList \subseteq Seq(Filter) \ {<<>>}
    /\ Wills \subseteq [topic : Topic, data : Payload, retain : BOOLEAN]
    /\ Publications \subseteq [topic : Topic, data : Payload, retain : BOOLEAN]
    /\ Pipelining \in BOOLEAN
ASSUME NamesAssumption ==
    /\ {LOCAL_MQTT_CLIENT, dummy_clientcon, NULL} \cap Conn = {}
    /\ NULL \notin {LOCAL_MQTT_CLIENT, dummy_clientcon}
    /\ NULL \notin ClientId \cup Filter \cup Topic \cup Payload
    /\ "" \notin ClientId

VARIABLES
    client,          \* the MQTT_ClientCon of each connection, Freed if it has none
    clientcon_list,  \* the list of clients, the newest first
    topic_list,      \* subscriptions, in slots
    retained_list,   \* retained messages, in slots
    task,            \* the one slot of mqtt_procServerTaskQueue
    dummy_pCon,      \* dummy_clientcon.pCon
    reverse,         \* espconn: what pCon->reverse points to
    tcp,             \* espconn: the state of the connection
    inflight,        \* espconn: are bytes handed to espconn_send unacknowledged?
    busy,            \* whose loop is running: the connection whose receive callback
                     \* is at READPACKET, LOCAL_MQTT_CLIENT in the clean-up, else NULL
    up               \* FALSE from a fault, or a record freed twice, to the reset

memory == <<client, clientcon_list, topic_list, retained_list, task, dummy_pCon, reverse>>
stack == <<tcp, inflight>>
vars == <<memory, stack, busy, up>>

-----------------------------------------------------------------------------
(* Data *)

Slots == 1 .. MaxSubs
FreeEntry == [owner |-> NULL, filter |-> NULL]
TopicEntry == [owner : Conn \cup {LOCAL_MQTT_CLIENT}, filter : Filter] \cup {FreeEntry}

RetainedSlots == 1 .. MaxRetained
FreeRetained == [topic |-> NULL, data |-> Empty]
RetainedEntry == [topic : Topic, data : Payload \ {Empty}] \cup {FreeRetained}

\* What can be stored of a will.  The topic comes first: it stays alone, with
\* will_data NULL and will_data_len 0, or with a length and will_data NULL.
NoWill == [topic |-> NULL]
WholeWill == {w \in Wills : w.topic \notin BadTopic}
TopicOnly == {[w EXCEPT !.data = Empty] : w \in Wills}
NoBody == {[w EXCEPT !.data = IF @ = Empty THEN Empty ELSE NULL] : w \in WholeWill}
StoredWill == WholeWill \cup TopicOnly \cup NoBody

\* Those that can be sent to somebody.
SentWill == WholeWill \cup TopicOnly

PublishMsg(t, d, r) == [type |-> "PUBLISH", topic |-> t, data |-> d, retain |-> r]
Connack(ok) == [type |-> "CONNACK", accepted |-> ok]
\* SUBACK, UNSUBACK and PINGRESP: nothing below tells them apart.
Reply == [type |-> "REPLY"]
Message ==
    [type : {"PUBLISH"}, topic : Topic, data : Payload, retain : BOOLEAN]
        \cup [type : {"CONNACK"}, accepted : BOOLEAN]
        \cup [type : {"REPLY", "TORN"}]

ConnState == {"FREED", "TCP_DISCONNECT", "TCP_CONNECTED", "TCP_DISCONNECTING", "MQTT_DATA"}

\* "" is zero_len_id.
ClientCon ==
    [connState : ConnState, client_id : ClientId \cup {""}, will : StoredWill \cup {NoWill},
     msgQueue : Seq(Message), sendTimeout : Nat, connectionTimeout : Nat]

Freed ==
    [connState |-> "FREED", client_id |-> "", will |-> NoWill,
     msgQueue |-> <<>>, sendTimeout |-> 0, connectionTimeout |-> 0]

\* What the broker's functions read and write, as one value, so that a handler
\* can be written as the composition of the functions it calls.  fault tells
\* that one of them went through a NULL pointer, which resets the processor.
mem == [client |-> client, list |-> clientcon_list, topics |-> topic_list,
        retained |-> retained_list, task |-> task, dummy |-> dummy_pCon,
        reverse |-> reverse, fault |-> FALSE]

\* The broker as MQTT_server_start leaves it.
Started ==
    [client |-> [c \in Conn |-> Freed], list |-> <<>>, topics |-> [i \in Slots |-> FreeEntry],
     retained |-> [i \in RetainedSlots |-> FreeRetained], task |-> NULL, dummy |-> NULL,
     reverse |-> [c \in Conn |-> "NULL"], fault |-> FALSE]
NoConnection == [c \in Conn |-> "NONE"]
NothingSent == [c \in Conn |-> FALSE]

Load(m, t, f, b) ==
    /\ client' = m.client
    /\ clientcon_list' = m.list
    /\ topic_list' = m.topics
    /\ retained_list' = m.retained
    /\ task' = m.task
    /\ dummy_pCon' = m.dummy
    /\ reverse' = m.reverse
    /\ tcp' = t /\ inflight' = f
    /\ busy' = b

\* A call ends with memory m, the connections in states t, those of f waiting for
\* an acknowledgement, and loop b running.  A fault loses all of it.
Become(m, t, f, b) ==
    IF m.fault THEN Load(Started, NoConnection, NothingSent, NULL) /\ up' = FALSE
    ELSE Load(m, t, f, b) /\ UNCHANGED up

-----------------------------------------------------------------------------
(* The topic list: mqtt_topiclist.c *)

FreeSlots(topics) == {i \in Slots : topics[i].owner = NULL}

\* The place of i in S, and what has place k: the walks go in order of the index.
Rank(S, i) == Cardinality({j \in S : j <= i})
Nth(S, k) == CHOOSE i \in S : Rank(S, i) = k

\* The filters add_topic accepts.  One for whose copy there is no memory fares
\* like an invalid one.
Valid(fs) == {j \in DOMAIN fs : fs[j] \notin BadFilter}

\* add_topic for each filter of fs in turn: it always takes the first free slot.
add_topics(topics, owner, fs) ==
    LET free == FreeSlots(topics)
    IN  [i \in Slots |-> IF i \in free /\ Rank(free, i) <= Cardinality(Valid(fs))
                         THEN [owner |-> owner, filter |-> fs[Nth(Valid(fs), Rank(free, i))]]
                         ELSE topics[i]]

\* Mutant of delete_topics: the walk ends with the first entry that is deleted.
DeleteFirstTopic(topics, owner, F) ==
    LET Gone(i) == topics[i].owner = owner /\ topics[i].filter \in F
    IN  [i \in Slots |-> IF Gone(i) /\ \A j \in 1 .. i - 1 : ~Gone(j)
                         THEN FreeEntry ELSE topics[i]]

\* delete_topic for each filter of F.
delete_topics(topics, owner, F) ==
    [i \in Slots |-> IF topics[i].owner = owner /\ topics[i].filter \in F
                     THEN FreeEntry ELSE topics[i]]

\* The entries find_topic calls back for.
Matching(topics, t) == {i \in Slots : topics[i].owner # NULL /\ <<topics[i].filter, t>> \in Match}

\* The copies of msg that find_topic makes publish_topic queue for d.
Copies(topics, d, msg) ==
    [i \in 1 .. Cardinality({j \in Matching(topics, msg.topic) : topics[j].owner = d}) |-> msg]

Queue(m, c, msgs) == [m EXCEPT !.client[c].msgQueue = Puts(@, msgs)]

\* find_topic with publish_topic as its callback.
find_topic(m, msg) ==
    [m EXCEPT !.client = [d \in Conn |-> [m.client[d] EXCEPT
                              !.msgQueue = Puts(@, Copies(m.topics, d, msg))]]]

-----------------------------------------------------------------------------
(* The retained messages: mqtt_retainedlist.c *)

RetainedAt(retained, t) == {i \in RetainedSlots : retained[i].topic = t}
FirstOf(S) == CHOOSE i \in S : \A j \in S : i <= j

\* Mutant of update_retainedtopic: takes a free entry without a look at the old one.
UpdateAlwaysNew(m, t, d) ==
    LET free == RetainedAt(m.retained, NULL)
    IN  IF d # Empty /\ free # {}
        THEN [m EXCEPT !.retained[FirstOf(free)] = [topic |-> t, data |-> d]] ELSE m

update_retainedtopic(m, t, d) ==
    LET found == RetainedAt(m.retained, t)
        free == RetainedAt(m.retained, NULL)
        entry == [topic |-> t, data |-> d]
    IN  IF found # {}
        THEN [m EXCEPT !.retained[FirstOf(found)] = IF d = Empty THEN FreeRetained ELSE entry]
        ELSE IF d # Empty /\ free # {}
        THEN [m EXCEPT !.retained[FirstOf(free)] = entry]
        ELSE m

\* A publication goes to the subscribers, then to the list if it is to be retained.
Distribute(m, p) ==
    LET sent == find_topic(m, PublishMsg(p.topic, p.data, FALSE))
    IN  IF p.retain THEN update_retainedtopic(sent, p.topic, p.data) ELSE sent

\* The entries find_retainedtopic calls back for.
RetainedMatching(retained, f) == {i \in RetainedSlots : <<f, retained[i].topic>> \in Match}
RetainedMsg(e) == PublishMsg(e.topic, e.data, TRUE)

\* Mutant of RetainedFor: the walk ends at the first free entry.
RetainedUpToGap(retained, f) ==
    LET found == {i \in RetainedMatching(retained, f) :
                     \A j \in RetainedAt(retained, NULL) : i < j}
    IN  [k \in 1 .. Cardinality(found) |-> RetainedMsg(retained[Nth(found, k)])]

\* What find_retainedtopic makes publish_retainedtopic queue, in list order.
RetainedFor(retained, f) ==
    LET found == RetainedMatching(retained, f)
    IN  [k \in 1 .. Cardinality(found) |-> RetainedMsg(retained[Nth(found, k)])]

-----------------------------------------------------------------------------
(* Functions of mqtt_server.c *)

\* system_os_post: a task queue of one slot refuses what finds it taken, and
\* none of the callers looks.
system_os_post(m, x) == IF m.task = NULL THEN [m EXCEPT !.task = x] ELSE m

\* The clients with something to send that are not known to be broken; of
\* these the one nearest the head of the list.
HasWork(m, d) == ~IsEmpty(m.client[d].msgQueue) /\ tcp[d] # "CLOSE"
NextClient(m) ==
    {d \in Conn : \E i \in DOMAIN m.list :
        /\ m.list[i] = d /\ HasWork(m, d)
        /\ \A j \in 1 .. i - 1 : ~HasWork(m, m.list[j])}

activate_next_client(m) ==
    IF NextClient(m) = {} THEN m
    ELSE system_os_post(m, CHOOSE d \in NextClient(m) : TRUE)

\* Mutant of Unlink: a walk that stops before the last client.
UnlinkAllButLast(list, c) ==
    IF \E i \in DOMAIN list : list[i] = c /\ i # Len(list)
    THEN RemoveAt(list, CHOOSE i \in DOMAIN list : list[i] = c)
    ELSE list

Unlink(list, c) ==
    IF \E i \in DOMAIN list : list[i] = c
    THEN RemoveAt(list, CHOOSE i \in DOMAIN list : list[i] = c)
    ELSE list

HasWill(m, c) == m.client[c].will # NoWill
WillMsg(w) == PublishMsg(w.topic, w.data, FALSE)

\* The last will goes through the subscription list while the dying client is
\* still in it, and mqtt_connection.buffer of that client is NULL by then.
WillMeetsOwner(m, c) ==
    \E i \in Matching(m.topics, m.client[c].will.topic) : m.topics[i].owner = c

\* A body that is NULL but has a length is read when it is copied, for a
\* subscriber or into the list.
WillIsCopied(m, w) ==
    \/ Matching(m.topics, w.topic) # {}
    \/ w.retain /\ RetainedAt(m.retained, w.topic) \cup RetainedAt(m.retained, NULL) # {}

WillFaults(m, c) ==
    LET w == m.client[c].will
    IN  WillMeetsOwner(m, c) \/ (w.data = NULL /\ WillIsCopied(m, w))

\* Mutant of PublishWill: the will goes to the retained list only.
KeepWill(m, c) ==
    LET w == m.client[c].will
    IN  IF w # NoWill /\ w.retain THEN update_retainedtopic(m, w.topic, w.data) ELSE m

PublishWill(m, c) ==
    LET w == m.client[c].will
        sent == activate_next_client(find_topic(m, WillMsg(w)))
    IN  IF ~HasWill(m, c) THEN m
        ELSE IF WillFaults(m, c) THEN [m EXCEPT !.fault = TRUE]
        ELSE IF w.data = NULL THEN activate_next_client(m)
        ELSE IF w.retain THEN update_retainedtopic(sent, w.topic, w.data)
        ELSE sent

\* Mutant of deleteClientCon: no delete_topic.
DeleteKeepingTopics(m, c) ==
    [PublishWill([m EXCEPT !.list = Unlink(@, c)], c) EXCEPT !.client[c] = Freed]

deleteClientCon(m, c) ==
    LET unlinked == [m EXCEPT !.list = Unlink(@, c)]
        willed == PublishWill(unlinked, c)
    IN  [willed EXCEPT !.client[c] = Freed,
                       !.topics = delete_topics(@, c, Filter)]

\* reverse points to the dummy from here on; the record is freed at once, and
\* the task is left to close the connection of the dummy.
disconnectClientCon(m, c) ==
    LET handed == [m EXCEPT !.dummy = c, !.reverse[c] = "dummy"]
    IN  system_os_post(deleteClientCon(handed, c), dummy_clientcon)

\* The client that delete_client_by_id finds.  The id is compared where it
\* stands in the packet, with whatever byte follows it: when the segment holds
\* another packet behind a CONNECT that ends with the id, nothing is found.
SameId(m, id) ==
    {d \in Conn : \E i \in DOMAIN m.list :
        /\ m.list[i] = d /\ m.client[d].client_id = id
        /\ \A j \in 1 .. i - 1 : m.client[m.list[j]].client_id # id}

\* Mutant of delete_client_by_id: only a client at the head of the list is found.
DeleteHeadById(m, id, terminated) ==
    IF terminated /\ m.list # <<>> /\ m.client[Head(m.list)].client_id = id
    THEN disconnectClientCon(m, Head(m.list)) ELSE m

delete_client_by_id(m, id, terminated) ==
    IF SameId(m, id) = {} \/ ~terminated THEN m
    ELSE disconnectClientCon(m, CHOOSE d \in SameId(m, id) : TRUE)

-----------------------------------------------------------------------------
(* MQTT_ClientCon_recv_cb *)

\* The callback runs for a packet of c: a new segment, or the next packet of
\* the segment it is working on.
Receives(c) == up /\ (busy = c \/ (busy = NULL /\ tcp[c] = "CONNECT"))
In(c, s) == Receives(c) /\ reverse[c] = "own" /\ client[c].connState = s

\* The end of a packet: the timeout starts anew, then either the next packet of
\* the segment is read or the task is woken, for c or after a PUBLISH for the
\* next client in the list.
EndOfPacket(m, c, isPublish, more) ==
    LET alive == [m EXCEPT !.client[c].connectionTimeout = KeepAliveTicks]
    IN  IF more THEN Become(alive, tcp, inflight, c)
        ELSE IF isPublish THEN Become(activate_next_client(alive), tcp, inflight, NULL)
        ELSE Become(system_os_post(alive, c), tcp, inflight, NULL)

\* Is there another packet behind this one in the segment?
More == IF Pipelining THEN BOOLEAN ELSE {FALSE}

\* Every path that ends with MQTT_server_disconnectClientCon and return; the
\* rest of the segment is not looked at.
DropClient(m, c) == Become(disconnectClientCon(m, c), tcp, inflight, NULL)

\* A packet too short, too long or out of place.
RecvInvalid(c) ==
    /\ Receives(c) /\ reverse[c] = "own"
    /\ client[c].connState \in {"TCP_CONNECTED", "TCP_DISCONNECTING", "MQTT_DATA"}
    /\ DropClient(mem, c)

\* A SUBSCRIBE or UNSUBSCRIBE with a malformed filter: those before it are done.
RecvMalformedList(c) ==
    /\ In(c, "MQTT_DATA")
    /\ \/ \E fs \in FilterList : DropClient([mem EXCEPT !.topics = add_topics(@, c, fs)], c)
       \/ \E F \in SUBSET Filter : DropClient([mem EXCEPT !.topics = delete_topics(@, c, F)], c)

\* A record that was never initialised or the static dummy: in_buffer is NULL.
RecvWithoutBuffer(c) ==
    /\ Receives(c)
    /\ \/ reverse[c] = "dummy"
       \/ reverse[c] = "own" /\ client[c].connState = "TCP_DISCONNECT"
    /\ Become([mem EXCEPT !.fault = TRUE], tcp, inflight, busy)

\* ... unless the length check comes first.
RecvTooShortWhenRefused(c) ==
    /\ In(c, "TCP_DISCONNECT")
    /\ DropClient(mem, c)

\* The dummy itself is disconnected then, which frees a static record; if that
\* does no harm (RecvWithoutBuffer has the other outcome) it is posted again.
RecvTooShortByDummy(c) ==
    /\ Receives(c) /\ reverse[c] = "dummy" /\ dummy_pCon # NULL
    /\ Become(system_os_post([mem EXCEPT !.reverse[dummy_pCon] = "dummy"], dummy_clientcon),
              tcp, inflight, NULL)

\* The segment ends in the middle of a packet: nobody is woken for the packets
\* that came before it.
RecvPartial(c) ==
    /\ up /\ busy = c
    /\ busy' = NULL
    /\ UNCHANGED <<memory, stack, up>>

-----------------------------------------------------------------------------
(* CONNECT *)

\* Refused before the id is looked up: protocol, id, out of memory.
ConnectRefused(c, more) ==
    /\ In(c, "TCP_CONNECTED")
    /\ LET refused == [mem EXCEPT !.client[c].connState = "TCP_DISCONNECTING"]
       IN  EndOfPacket(Queue(refused, c, <<Connack(FALSE)>>), c, FALSE, more)

\* What is known of the client once its id and will are read; an older session
\* of the same id has been disconnected by then.
Identified(c, id, w, terminated) ==
    LET alone == IF id = "" THEN mem ELSE delete_client_by_id(mem, id, terminated)
    IN  [alone EXCEPT !.client[c].client_id = id, !.client[c].will = w]

\* The byte behind the id is zero unless the CONNECT ends with the id and a
\* further packet follows.
Terminated(w, more) == IF more /\ w = NoWill THEN BOOLEAN ELSE {TRUE}

\* The end of a CONNECT that passed the checks on protocol and id.
Answer(m, c, state, accepted, more) ==
    LET answered == [m EXCEPT !.client[c].connState = state]
    IN  EndOfPacket(Queue(answered, c, <<Connack(accepted)>>), c, FALSE, more)

ConnectAccepted(c, id, w, more) ==
    /\ In(c, "TCP_CONNECTED")
    /\ \E t \in Terminated(w, more) :
          Answer(Identified(c, id, w, t), c, "MQTT_DATA", TRUE, more)

\* local_auth_cb says no: the will is forgotten.
ConnectNotAuthorized(c, id, more) ==
    /\ In(c, "TCP_CONNECTED")
    /\ \E t \in Terminated(NoWill, more) :
          Answer(Identified(c, id, NoWill, t), c, "TCP_DISCONNECTING", FALSE, more)

\* No memory for the will's topic (nothing is stored of the will), for its body
\* (its length is stored) or for user name or password (all of it is).  All of
\* these stand behind the id.
ConnectNoMemory(c, id, w, more) ==
    /\ In(c, "TCP_CONNECTED")
    /\ Answer(Identified(c, id, w, TRUE), c, "TCP_DISCONNECTING", FALSE, more)

\* Dropped at once, with what is stored of the will by then: nothing (its flags or
\* its topic string are malformed), its topic (that is not allowed, or the body is
\* malformed) or all of it (user name or password are malformed).
ConnectMalformed(c, id, w) ==
    /\ In(c, "TCP_CONNECTED")
    /\ \E more \in More : \E t \in Terminated(w, more) :
          DropClient(Identified(c, id, w, t), c)

-----------------------------------------------------------------------------
(* Packets of an accepted client *)

\* SUBSCRIBE: one entry per valid filter as long as there are slots, a SUBACK,
\* and the retained messages for what topic_buffer holds then, the last filter.
Subscribe(c, fs, more) ==
    /\ In(c, "MQTT_DATA")
    /\ LET added == [mem EXCEPT !.topics = add_topics(@, c, fs)]
           msgs == <<Reply>> \o RetainedFor(retained_list, fs[Len(fs)])
       IN  EndOfPacket(Queue(added, c, msgs), c, FALSE, more)

Unsubscribe(c, F, more) ==
    /\ In(c, "MQTT_DATA")
    /\ LET deleted == [mem EXCEPT !.topics = delete_topics(@, c, F)]
       IN  EndOfPacket(Queue(deleted, c, <<Reply>>), c, FALSE, more)

Publish(c, p, more) ==
    /\ In(c, "MQTT_DATA")
    /\ EndOfPacket(Distribute(mem, p), c, TRUE, more)

\* Mutant of PingReq: a refused client is answered too.
PingAnyState(c, more) ==
    /\ In(c, "MQTT_DATA") \/ In(c, "TCP_DISCONNECTING")
    /\ EndOfPacket(Queue(mem, c, <<Reply>>), c, FALSE, more)

PingReq(c, more) ==
    /\ In(c, "MQTT_DATA")
    /\ EndOfPacket(Queue(mem, c, <<Reply>>), c, FALSE, more)

\* Mutant of Disconnect: the will is not freed first.
DisconnectWithWill(c) == In(c, "MQTT_DATA") /\ DropClient(mem, c)

\* Clean session close: no LWT.
Disconnect(c) ==
    /\ In(c, "MQTT_DATA")
    /\ DropClient([mem EXCEPT !.client[c].will = NoWill], c)

\* A packet the broker does not act upon: an unknown type or a topic that
\* begins with '$' (a PUBLISH), anything once the client has been refused.
Ignored(c, isPublish, more) ==
    /\ In(c, "MQTT_DATA") \/ In(c, "TCP_DISCONNECTING")
    /\ EndOfPacket(mem, c, isPublish, more)

Receive(c) ==
    \/ RecvInvalid(c) \/ RecvMalformedList(c) \/ RecvPartial(c)
    \/ RecvWithoutBuffer(c) \/ RecvTooShortWhenRefused(c) \/ RecvTooShortByDummy(c)
    \/ \E more \in More :
          \/ ConnectRefused(c, more)
          \/ \E id \in ClientId \cup {""} :
                \/ ConnectNotAuthorized(c, id, more)
                \/ \E w \in WholeWill \cup {NoWill} : ConnectAccepted(c, id, w, more)
                \/ \E w \in WholeWill \cup NoBody \cup {NoWill} : ConnectNoMemory(c, id, w, more)
                \/ \E w \in SentWill \cup {NoWill} : ConnectMalformed(c, id, w)
          \/ \E fs \in FilterList : Subscribe(c, fs, more)
          \/ \E F \in SUBSET Filter \ {{}} : Unsubscribe(c, F, more)
          \/ \E p \in Publications : Publish(c, p, more)
          \/ PingReq(c, more)
          \/ \E p \in BOOLEAN : Ignored(c, p, more)
    \/ Disconnect(c)

-----------------------------------------------------------------------------
(* The other callbacks of the network stack *)

Idle == up /\ busy = NULL

\* MQTT_ClientCon_connected_cb.
Accept(c) ==
    /\ Idle /\ tcp[c] = "NONE"
    /\ Become([mem EXCEPT !.reverse[c] = "own",
                          !.list = <<c>> \o @,
                          !.client[c] = [Freed EXCEPT !.connState = "TCP_CONNECTED",
                                                      !.connectionTimeout = ConnectTicks]],
              [tcp EXCEPT ![c] = "CONNECT"], inflight, NULL)

\* No memory for a session, or local_connect_cb says no.
AcceptRefused(c) ==
    /\ Idle /\ tcp[c] = "NONE"
    /\ Become(system_os_post([mem EXCEPT !.reverse[c] = "own",
                                         !.client[c].connState = "TCP_DISCONNECT"], c),
              [tcp EXCEPT ![c] = "CONNECT"], inflight, NULL)

\* Not even memory for the record: nobody closes this connection.
AcceptNoMemory(c) ==
    /\ Idle /\ tcp[c] = "NONE"
    /\ Become(mem, [tcp EXCEPT ![c] = "CONNECT"], inflight, NULL)

\* MQTT_ClientCon_sent_cb.
Sent(c) ==
    /\ Idle /\ inflight[c]
    /\ LET acked == CASE reverse[c] = "own" -> [mem EXCEPT !.client[c].sendTimeout = 0]
                      [] reverse[c] = "dummy" -> mem
                      [] reverse[c] = "NULL" -> [mem EXCEPT !.fault = TRUE]
           left == IF client[c].connState = "TCP_DISCONNECTING"
                   THEN disconnectClientCon(acked, c) ELSE acked
       IN  Become(activate_next_client(left), tcp, [inflight EXCEPT ![c] = FALSE], NULL)

\* Mutant of Discon: the dummy keeps pointing to the connection that has gone.
DisconKeepingDummy(c) ==
    /\ Idle /\ tcp[c] \in {"CONNECT", "DISCONNECTING"}
    /\ LET gone == IF reverse[c] = "own" THEN deleteClientCon(mem, c) ELSE mem
       IN  Become([gone EXCEPT !.reverse[c] = "NULL"],
                  [tcp EXCEPT ![c] = "NONE"], [inflight EXCEPT ![c] = FALSE], NULL)

\* MQTT_ClientCon_discon_cb: the peer has closed, the stack's own idle timer
\* has expired, or an espconn_disconnect is complete.  The espconn is gone.
Discon(c) ==
    /\ Idle /\ tcp[c] \in {"CONNECT", "DISCONNECTING"}
    /\ LET gone == CASE reverse[c] = "own" -> deleteClientCon(mem, c)
                     [] reverse[c] = "dummy" -> [mem EXCEPT !.dummy = NULL]
                     [] reverse[c] = "NULL" -> mem
       IN  Become([gone EXCEPT !.reverse[c] = "NULL"],
                  [tcp EXCEPT ![c] = "NONE"], [inflight EXCEPT ![c] = FALSE], NULL)

\* The link breaks: no callback is registered for that (espconn_regist_reconcb)
\* and the espconn stays, in state ESPCONN_CLOSE.
Break(c) ==
    /\ Idle /\ tcp[c] \in {"CONNECT", "DISCONNECTING"}
    /\ Become(mem, [tcp EXCEPT ![c] = "CLOSE"], [inflight EXCEPT ![c] = FALSE], NULL)

-----------------------------------------------------------------------------
(* Timers and the task *)

Initialised(c) == client[c].connState \notin {"FREED", "TCP_DISCONNECT"}

\* Mutant of Timer: connectionTimeout is decremented without a test.
TimerUnderflow(c) ==
    /\ Idle /\ Initialised(c)
    /\ Become([mem EXCEPT !.client[c].sendTimeout = IF @ > 0 THEN @ - 1 ELSE 0,
                          !.client[c].connectionTimeout = @ - 1], tcp, inflight, NULL)

\* Mutant of Timer: only accepted clients time out.
TimerAcceptedOnly(c) ==
    /\ Idle /\ client[c].connState = "MQTT_DATA"
    /\ LET ticked == [mem EXCEPT !.client[c].sendTimeout = IF @ > 0 THEN @ - 1 ELSE 0]
       IN  Become(IF client[c].connectionTimeout > 0
                  THEN [ticked EXCEPT !.client[c].connectionTimeout = @ - 1]
                  ELSE disconnectClientCon(ticked, c), tcp, inflight, NULL)

\* mqtt_server_timer, once a second for every initialised client.
Timer(c) ==
    /\ Idle /\ Initialised(c)
    /\ LET ticked == [mem EXCEPT !.client[c].sendTimeout = IF @ > 0 THEN @ - 1 ELSE 0]
           timed == IF client[c].connectionTimeout > 0
                    THEN [ticked EXCEPT !.client[c].connectionTimeout = @ - 1]
                    ELSE disconnectClientCon(ticked, c)
       IN  Become(timed, tcp, inflight, NULL)

\* MQTT_ServerTask takes what was posted.
Taken == [mem EXCEPT !.task = NULL]

\* espconn_disconnect.
Closing(d) == IF d # NULL /\ tcp[d] = "CONNECT" THEN [tcp EXCEPT ![d] = "DISCONNECTING"] ELSE tcp

\* espconn_send fails on a broken connection and while bytes are in flight; the
\* result is not looked at.
Sending(c) == [inflight EXCEPT ![c] = @ \/ tcp[c] = "CONNECT"]

\* The pCon of the record that was posted is closed.
TaskDisconnect ==
    /\ Idle
    /\ \/ task = dummy_clientcon /\ Become(Taken, Closing(dummy_pCon), inflight, NULL)
       \/ /\ task \in Conn /\ client[task].connState = "TCP_DISCONNECT"
          /\ Become(Taken, Closing(task), inflight, NULL)

WokenFor(c, states) == Idle /\ task = c /\ client[c].connState \in states

\* QUEUE_Gets returns a message: it is sent.
TaskSend(c) ==
    LET readable == Readable(client[c].msgQueue)
    IN  /\ WokenFor(c, {"TCP_DISCONNECTING", "MQTT_DATA"})
        /\ client[c].sendTimeout = 0 /\ readable # <<>>
        /\ Become([Taken EXCEPT !.client[c].msgQueue = Tail(readable),
                                !.client[c].sendTimeout = SendTicks],
                  tcp, Sending(c), NULL)

\* Nothing to send, or not yet.  When only the torn beginning of a message is
\* left, QUEUE_Gets has eaten it.
TaskNothingToSend(c) ==
    LET readable == Readable(client[c].msgQueue)
        waiting == client[c].sendTimeout > 0
        read == [Taken EXCEPT !.client[c].msgQueue = IF waiting THEN @ ELSE <<>>]
        left == IF client[c].connState = "TCP_DISCONNECTING"
                THEN disconnectClientCon(read, c) ELSE read
    IN  /\ WokenFor(c, {"TCP_DISCONNECTING", "MQTT_DATA"})
        /\ waiting \/ readable = <<>>
        /\ Become(left, tcp, inflight, NULL)

\* Woken for a client that has not sent CONNECT yet: no case for that.
TaskTooEarly(c) ==
    /\ WokenFor(c, {"TCP_CONNECTED"})
    /\ Become(Taken, tcp, inflight, NULL)

\* The pCon of a freed record that reads as it was: its connection, if the dummy
\* still has that to close, else an espconn that has gone or is another's by now.
StalePCon(c) == IF reverse[c] = "dummy" THEN {c} ELSE Conn

\* A record that reads as it was, in state TCP_DISCONNECTING with nothing to send,
\* is disconnected again: the dummy and its pCon are tied to each other, and the
\* record is freed a second time.  That corrupts the heap: the memory is shown as
\* the call leaves it, but what the program does with it before the processor is
\* reset is not followed.
DisconnectFreed(p) ==
    LET tied == [Taken EXCEPT !.dummy = p, !.reverse[p] = "dummy"]
    IN  /\ Load(system_os_post(tied, dummy_clientcon), tcp, inflight, NULL)
        /\ up' = FALSE

\* Woken for a record that has been freed since: what the task reads there is
\* undefined.  It does nothing or faults; the memory is the record of another
\* connection by now, and the task works for that one; or the record reads as it
\* was, and its connection is closed, sent bytes, or disconnected once more.
TaskFreed(c) ==
    /\ WokenFor(c, {"FREED"})
    /\ \/ Become(Taken, tcp, inflight, NULL)
       \/ Become([Taken EXCEPT !.fault = TRUE], tcp, inflight, NULL)
       \/ \E d \in Conn : /\ client[d].connState # "FREED"
                         /\ Become([mem EXCEPT !.task = d], tcp, inflight, NULL)
       \/ \E p \in StalePCon(c) : \/ Become(Taken, Closing(p), inflight, NULL)
                                \/ Become(Taken, tcp, Sending(p), NULL)
                                \/ DisconnectFreed(p)

ServerTask ==
    \/ TaskDisconnect
    \/ \E c \in Conn : TaskSend(c) \/ TaskNothingToSend(c) \/ TaskTooEarly(c) \/ TaskFreed(c)

-----------------------------------------------------------------------------
(* What the sketch calls *)

\* Mutant of LocalPublish: nobody is woken.
LocalPublishOnly(p) == Idle /\ Become(Distribute(mem, p), tcp, inflight, NULL)

\* MQTT_local_publish.
LocalPublish(p) ==
    /\ Idle
    /\ Become(activate_next_client(Distribute(mem, p)), tcp, inflight, NULL)

\* MQTT_local_subscribe.
LocalSubscribe(f) ==
    /\ Idle
    /\ Become([mem EXCEPT !.topics = add_topics(@, LOCAL_MQTT_CLIENT, <<f>>)],
              tcp, inflight, NULL)

\* MQTT_local_unsubscribe.
LocalUnsubscribe(f) ==
    /\ Idle
    /\ Become([mem EXCEPT !.topics = delete_topics(@, LOCAL_MQTT_CLIENT, {f})],
              tcp, inflight, NULL)

\* One turn of MQTT_server_cleanupClientCons: the broken client nearest the head
\* of the list goes, with its espconn.  Only the client of the turn leaves the
\* list, so that the walk goes on with the next broken one.
Broken(list) == {i \in DOMAIN list : tcp[list[i]] = "CLOSE"}
Cleanup ==
    /\ up /\ busy \in {NULL, LOCAL_MQTT_CLIENT} /\ Broken(clientcon_list) # {}
    /\ LET c == clientcon_list[FirstOf(Broken(clientcon_list))]
           left == deleteClientCon(mem, c)
       IN  Become([left EXCEPT !.reverse[c] = "NULL"],
                  [tcp EXCEPT ![c] = "NONE"], inflight,
                  IF Broken(left.list) = {} THEN NULL ELSE LOCAL_MQTT_CLIENT)

-----------------------------------------------------------------------------
(* The whole *)

Init ==
    /\ client = Started.client
    /\ clientcon_list = <<>>
    /\ topic_list = Started.topics
    /\ retained_list = Started.retained
    /\ task = NULL
    /\ dummy_pCon = NULL
    /\ reverse = Started.reverse
    /\ tcp = NoConnection /\ inflight = NothingSent
    /\ busy = NULL
    /\ up = TRUE

\* The processor comes out of the reset, and MQTT_server_start has been called.
Reset ==
    /\ ~up
    /\ up' = TRUE
    /\ Load(Started, NoConnection, NothingSent, NULL)

Sketch ==
    \/ \E p \in Publications : LocalPublish(p)
    \/ \E f \in LocalFilters : LocalSubscribe(f) \/ LocalUnsubscribe(f)
    \/ Cleanup

Next ==
    \/ \E c \in Conn :
          \/ Receive(c) \/ Accept(c) \/ AcceptRefused(c) \/ AcceptNoMemory(c)
          \/ Sent(c) \/ Discon(c) \/ Break(c) \/ Timer(c)
    \/ ServerTask \/ Sketch \/ Reset

Spec == Init /\ [][Next]_vars

-----------------------------------------------------------------------------
(* Properties *)

\* Types of the state of mqtt_server.c, mqtt_topiclist.c and mqtt_retainedlist.c.
TypeOK ==
    /\ client \in [Conn -> ClientCon]
    /\ clientcon_list \in Seq(Conn)
    /\ topic_list \in [Slots -> TopicEntry]
    /\ retained_list \in [RetainedSlots -> RetainedEntry]
    /\ task \in Conn \cup {dummy_clientcon, NULL}
    /\ dummy_pCon \in Conn \cup {NULL}
    /\ reverse \in [Conn -> {"own", "dummy", "NULL"}]
    /\ tcp \in [Conn -> {"NONE", "CONNECT", "DISCONNECTING", "CLOSE"}]
    /\ inflight \in [Conn -> BOOLEAN]
    /\ busy \in Conn \cup {LOCAL_MQTT_CLIENT, NULL}
    /\ up \in BOOLEAN

Listed == {clientcon_list[i] : i \in DOMAIN clientcon_list}

\* The client list holds every initialised client once and no freed record, and
\* each listed client is the one its connection points back to
\* (MQTT_server_initClientCon, MQTT_server_deleteClientCon).  The list survives even
\* a record freed twice; the connections' pointers do not.
ListIsExact ==
    /\ \A i, j \in DOMAIN clientcon_list :
          clientcon_list[i] = clientcon_list[j] => i = j
    /\ Listed = {c \in Conn : Initialised(c)}
    /\ up => \A c \in Conn : /\ reverse[c] = "own" <=> client[c].connState # "FREED"
                            /\ tcp[c] = "NONE" => reverse[c] = "NULL"

\* No subscription outlives its session: publish_topic never queues into a
\* freed record, nor into one that was not accepted (delete_topic in
\* MQTT_server_deleteClientCon, add_topic only in state MQTT_DATA).
SubscriptionsOwned ==
    \A i \in Slots :
        topic_list[i].owner \in Conn => client[topic_list[i].owner].connState = "MQTT_DATA"

\* The task, woken for the dummy, never closes a connection that the stack has freed
\* or that has a session of its own again: dummy_clientcon.pCon is the last
\* connection given to the dummy, or NULL once a dummy connection has gone, whatever
\* callbacks, timers and stale posts came between.  This ends where the task
\* disconnects a record that has been freed (DisconnectFreed): that one stale post
\* leaves the dummy with any pCon, and a heap that nothing can be said of.
DummyPointsToDummy ==
    up /\ dummy_pCon # NULL => reverse[dummy_pCon] = "dummy" /\ tcp[dummy_pCon] # "NONE"

\* A client hears nothing before its CONNACK and a refused one nothing else:
\* until CONNECT the queue is empty, a refused client's queue holds at most the
\* refusal, and an accepted client's acceptance is nowhere but at the head.
ConnackFirst ==
    \A c \in Conn : LET q == client[c].msgQueue IN
        /\ client[c].connState = "TCP_CONNECTED" => q = <<>>
        /\ client[c].connState = "TCP_DISCONNECTING" => q \in {<<>>, <<Connack(FALSE)>>}
        /\ client[c].connState = "MQTT_DATA" =>
              \A i \in DOMAIN q : q[i].type = "CONNACK" => i = 1 /\ q[i].accepted

\* At most one session per client id: the older one is deleted before the new
\* one takes the id (delete_client_by_id).
OneSessionPerId ==
    \A c, d \in Conn :
        c # d /\ client[c].client_id # "" => client[c].client_id # client[d].client_id

Copied(q, msg) == Cardinality({i \in DOMAIN q : q[i] = msg})
Queued(c, msg) == Copied(client'[c].msgQueue, msg) > Copied(client[c].msgQueue, msg)

\* v is stored and goes out as w would.
SameWill(v, w) == v # NoWill /\ WillMsg(v) = WillMsg(w)

\* What is stored of a will, be it all or its topic alone, enters a queue only in
\* the step that frees the client which left it, and never because of a DISCONNECT
\* ("Clean session close: no LWT").  The one exception is a CONNECT that is malformed
\* in its will or behind it: that client was never accepted, and what was stored by
\* then goes out all the same (MQTT_ClientCon_recv_cb).
\* Meant for messages that only wills send.
WillsOnlyFromTheDead ==
    [][\A d \in Conn, w \in SentWill : Queued(d, WillMsg(w)) =>
          \E c \in Conn :
            /\ client'[c].connState = "FREED"
            /\ \/ SameWill(client[c].will, w) /\ ~Disconnect(c)
               \/ \E id \in ClientId \cup {""}, v \in SentWill :
                     SameWill(v, w) /\ ConnectMalformed(c, id, v)]_vars

Subscribed(d, t) == \E i \in Matching(topic_list, t) : topic_list[i].owner = d

\* The end of an accepted client reaches everybody who subscribed to its will:
\* whichever callback ends it other than a DISCONNECT, the will is queued for each
\* other subscriber in that same step unless its queue is full (or the broker
\* falls over the will of a client that subscribed to it itself).
WillReachesSubscribers ==
    [][\A c, d \in Conn :
          LET w == client[c].will IN
          /\ c # d /\ w # NoWill /\ Subscribed(d, w.topic)
          /\ client[c].connState = "MQTT_DATA" /\ client'[c].connState = "FREED"
          /\ client'[d].connState = "MQTT_DATA"
          /\ ~Disconnect(c)
          => Queued(d, WillMsg(w)) \/ Room(client[d].msgQueue) = 0]_vars

\* An UNSUBSCRIBE leaves nothing of its filters behind, although a client that
\* subscribed twice has two entries (add_topic does not look for an old one).
UnsubscribeIsComplete ==
    [][\A c \in Conn, F \in SUBSET Filter, more \in More : Unsubscribe(c, F, more) =>
          \A i \in Slots : topic_list'[i].owner = c => topic_list'[i].filter \notin F]_vars

\* No topic is retained twice: a new value replaces the old one or, without
\* room, is dropped (update_retainedtopic).
RetainedOnce ==
    \A i, j \in RetainedSlots :
        retained_list[i].topic = retained_list[j].topic /\ retained_list[i].topic # NULL => i = j

\* For each filter of a SUBSCRIBE, the retained messages it matches.
RetainedQueued(c, f) ==
    \A i \in RetainedSlots :
        LET e == retained_list[i] IN
        <<f, e.topic>> \in Match => Queued(c, RetainedMsg(e))

\* A SUBACK and one message per retained entry would not fit.
ShortOfRoom(c) ==
    Room(client[c].msgQueue) <= Cardinality({i \in RetainedSlots : retained_list[i].topic # NULL})

\* A SUBSCRIBE is answered with the retained messages of its last filter, all of
\* them unless the queue overflows (find_retainedtopic).
RetainedForLastFilter ==
    [][\A c \in Conn, fs \in FilterList, more \in More : Subscribe(c, fs, more) =>
          RetainedQueued(c, fs[Len(fs)]) \/ ShortOfRoom(c)]_vars

\* The same for every filter of the packet, as a reader of "The broker does
\* support: retained messages" (README of uMQTTBroker) would expect.
RetainedForEveryFilter ==
    [][\A c \in Conn, fs \in FilterList, more \in More : Subscribe(c, fs, more) =>
          (\A i \in DOMAIN fs : RetainedQueued(c, fs[i])) \/ ShortOfRoom(c)]_vars

\* The end of a client with a will does not stop the broker, as a reader of "The
\* broker does support: LWT" (README of uMQTTBroker) would expect.
WillIsHarmless ==
    [][\A c \in Conn : Discon(c) /\ client[c].will # NoWill => up']_vars

-----------------------------------------------------------------------------
(* Liveness *)

\* A call in progress ends.
Running == busy # NULL /\ (Cleanup \/ \E c \in Conn : Receive(c))

\* The stack runs the task and the timers it was asked to run, what is in flight
\* on a working connection is acknowledged in the end, a reset ends, and the
\* sketch, which publishes every 30 seconds, does not for ever do so in the very
\* moment between a post and the run of the task.
Fairness ==
    /\ WF_vars(ServerTask)
    /\ \A c \in Conn : WF_vars(Timer(c)) /\ WF_vars(Sent(c))
    /\ SF_vars(task = NULL /\ \E p \in Publications : LocalPublish(p))
    /\ WF_vars(Running) /\ WF_vars(Reset)

FairSpec == Spec /\ Fairness

\* A client that says nothing any more is removed, whatever its state and the
\* state of its connection, and however often others come and go: the second
\* timer needs no post and no callback (mqtt_server_timer).
SilentClientsLeave ==
    \A c \in Conn : <>[][~Receive(c)]_vars => []<>~Initialised(c)

\* The broker does not seize up: while clients stay connected and there is always
\* something to send on a working connection, the task sends for ever, although
\* posts get lost in the one-slot queue, other clients' packets take the slot and
\* the expiry of sendTimeout posts nothing.
Pending == up /\ \E c \in Conn : tcp[c] = "CONNECT" /\ client[c].msgQueue # <<>>
NoWedge ==
    /\ <>[][UNCHANGED <<clientcon_list, reverse>>]_vars
    /\ <>[]Pending
    => []<><<\E c \in Conn : tcp[c] = "CONNECT" /\ TaskSend(c)>>_vars
=============================================================================
