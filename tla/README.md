# Verification of the weather station

TLA+ models of the two-station weather system of this repository (an outdoor
ESP8266 that measures and publishes, an indoor ESP8266 that runs the MQTT broker
and a display), the TLC runs that check them, and theorems proved with TLAPS.

Paths below are relative to the repository; `lib/` stands for
`arduino-weather-indoor/lib/uMQTTBroker/src/`.

## The system

### Execution model

Both stations run on the non-OS SDK of the ESP8266. There is one thread. The
network stack calls back (`espconn_*` callbacks), timers fire, a posted task
runs, or the sketch's `loop` runs; each of these runs to completion before the
next begins, and `loop` gives the others their turn in `delay`. So one callback,
one timer tick, one run of the task or one call from the sketch is one atomic
action of the models, and what is open is the order in which they come. That is
also where the difficulty lies: state is kept between callbacks in the client
record, in the `reverse` pointer of the connection, in one static stand-in
record and in a task queue of a single slot, and any callback may come between
any two others.

### Components

| component | code | state | operations | interacts with |
|---|---|---|---|---|
| broker core | `lib/mqtt_server.c` | list of clients, a record per client (state, id, will, queue, two timeouts), the static `dummy_clientcon`, the task queue | callbacks connected, receive, sent, disconnected; second timer; server task; local publish/subscribe/unsubscribe; clean-up | network stack (callbacks, `espconn_send`, `espconn_disconnect`), both lists, the queues, the sketch (callbacks) |
| topic list | `lib/mqtt_topiclist.c` | array of subscriptions | `add_topic`, `delete_topic`, `find_topic` | broker core, topic matching |
| retained list | `lib/mqtt_retainedlist.c` | array of retained messages | `update_retainedtopic`, `find_retainedtopic`, clear, serialize, deserialize | broker core, topic matching |
| outgoing queue | `lib/queue.c`, `lib/proto.c` | framed bytes in a ring | `QUEUE_Puts`, `QUEUE_Gets`, `QUEUE_IsEmpty` | broker core, MQTT client |
| ring buffer | `lib/ringbuf_mqtt.c` | cells, two pointers, fill count | put, get | outgoing queue |
| packet assembly and codec | `lib/mqtt_msg.c`, head and tail of `recv_cb` | receive buffer, lengths | cut segments into packets, read and build packets | broker core, MQTT client |
| topic matching | `lib/mqtt_topics.c` | none | `Topics_matches`, `Topics_isValidName` | both lists |
| MQTT client library | `lib/mqtt.c`, `lib/MQTT.cpp` | one record per client, task queue | connect, reconnect, publish, keepalive | not used by the sketches |
| C++ wrapper | `lib/uMQTTBroker.cpp` | pointer to the one broker object | forwards | broker core, indoor sketch |
| indoor sketch | `arduino-weather-indoor/src/main.cpp` | last values of the outdoor station | `onData`, `loop` every 30 s | C++ wrapper, display |
| outdoor sketch | `arduino-weather-outdoor/src/main.cpp` | RTC memory with checksum | boot, connect, measure, publish, deep sleep | broker over WiFi (PubSubClient) |

### What makes each component correct

* Broker core: lists and records agree whatever ends a client and whenever; no
  subscription, will or task outlives its session in a way that is acted upon; a
  client hears its CONNACK first and a refused client nothing else; one session
  per id; a will goes out exactly when the client ends without DISCONNECT;
  silent clients leave; queued messages keep being sent.
* Topic list and retained list: complete deletion in spite of duplicate entries,
  one entry per topic in spite of freed slots, every matching retained message
  on SUBSCRIBE.
* Ring buffer and queue: FIFO through wrap-around, full and empty; a message is
  delivered whole or not at all.
* Packet assembly: a packet is read the same however it is cut into segments.
* Topic matching: agreement with the MQTT rules on the levels of a topic.
* Sketches: the display never claims more than was received; counters survive
  deep sleep and nothing else.

`PROJECT.json` lists under `hazards` where each of these can go wrong, line by
line, and which property would notice.

## The modules at a glance

| module | models | shown to implement | proved in |
|---|---|---|---|
| `ByteFifo`, `RingBuf` | `ringbuf_mqtt.c` | `RingBuf` implements `ByteFifo` | `BufferProofs` |
| `MessageFifo`, `MsgQueue` | `queue.c`, `proto.c` | `MsgQueue` implements `MessageFifo`; `OutQueue`'s operators describe it | `BufferProofs` |
| `OutQueue` | the same queue at the level of whole messages | (used by `Broker` and `MqttClient`) | |
| `RetainedStore`, `RetainedList` | `mqtt_retainedlist.c` | `RetainedList` implements `RetainedStore` | `RetainedProofs` |
| `Broker` | `mqtt_server.c`, `mqtt_topiclist.c`, whole entries of the retained list | | `BrokerProofs` |
| `PacketFormat`, `PacketCodec` | `mqtt_msg.c`, CONNECT as `recv_cb` reads it | writer against reader | `PacketProofs` |
| `PacketStream` | head and tail of `recv_cb` | against the sequence of packets sent | `PacketProofs` |
| `TopicMatch` | `mqtt_topics.c` | against the definition by levels | `PacketProofs` |
| `MqttClient` | `mqtt.c`, `MQTT.cpp` | | `MqttClientProofs` |
| `OutdoorStation` | outdoor `main.cpp` | | `WeatherProofs` |
| `IndoorStation` | indoor `main.cpp` | | `IndoorProofs` |
| `WeatherStation` | both stations and the messages between them | `WeatherStation` implements each station | `WeatherProofs` |
| `SequenceLemmas` | (lemmas on sequences and recursive functions) | | itself |
| `Ascent` | the numbers of a set in their order, for `MsgQueue` and `TopicMatch` | | `SequenceLemmas` |
| `MCRingBuf`, `MCBroker`, `MCPackets`, `MCMqttClient`, `MCStations` | instances for TLC | | |

How they fit together. `RingBuf` is the ring that `MsgQueue` takes to be a FIFO of
bytes; `MsgQueue` is the queue that `Broker` and `MqttClient` take to be `OutQueue`; the
entries that `RetainedList` keeps in memory are the whole ones of `Broker`; what
`PacketStream` cuts out of segments and `PacketCodec` reads are the packets that the
actions of `Broker` begin with; `TopicMatch` is the relation `Match` of `Broker`. At each
of these joints the lower module is checked to do what the upper one assumes, so that the
upper one need not carry the detail. `WeatherStation` composes the two sketches: the
variables and actions of both, joined by the wire.

An abstract publish/subscribe service that `Broker` as a whole refines is not stated.
QoS 0 over queues that overflow, retained messages that are lost when the list is full and
connections that break promise so little about what a subscriber receives that the
abstract service would allow everything; what the broker does promise is said by
`ConnackFirst`, `WillReachesSubscribers`, `RetainedForLastFilter` and
`UnsubscribeIsComplete`, each about the step where it could go wrong.

## The modules

### `ByteFifo`, `RingBuf`

`ByteFifo` says what the ring promises: a sequence of at most `Size` bytes,
bytes put at one end and taken from the other, an error when full or empty.
`RingBuf` is `ringbuf_mqtt.c`: `p_r` and `p_w` as offsets from `p_o`, `fill_cnt`,
the cells, the return code and the byte read. The refinement maps the cells from
`p_r` on, `fill_cnt` of them, to the sequence.

### `OutQueue`, `MsgQueue`, `MessageFifo`

`OutQueue` is the client's `msgQueue` as the broker core sees it. A message that does not fit
is not refused cleanly: `PROTO_AddRb` has written its beginning into the ring
when it finds the ring full. That torn beginning is the element `TORN`: it makes
`QUEUE_IsEmpty` false and the next read skips it. Messages are taken to be of one
size, which the broker's logic cannot tell from the truth except in how many fit.

`MsgQueue` is the same queue byte by byte: frames with escapes, the put that stops where
the ring is full, the parser that reads to the first END and whose flag `isBegin` comes
from the stack (`garbage`). Whatever the lengths of the messages, it implements
`MessageFifo`, a queue of whole messages (`FifoOfMessages`); and with messages of one length
each of its steps is the operator of `OutQueue` (`AsOutQueue`, where `Frames` reads the ring
as `OutQueue` writes it); both are checked and proved. Its ring has `QueueSize` bytes; that
`RingBuf` is such a FIFO of bytes is proved.

### `RetainedList`, `RetainedStore`

The entries with the memory they own. Every allocation may fail (`fail`), the image that
`serialize_retainedtopics` writes may be cut by a power failure at every byte, and may be
read back into a list that is not empty. `heap` counts blocks: a block lost or freed twice
breaks `HeapIsOwned`. The lengths have two bytes of `Radix` values, little end first.
`RetainedStore` is the promise: a value per topic, kept as it was put or dropped.

### `Broker`

| model | code |
|---|---|
| `client[c]` | the `MQTT_ClientCon` allocated for connection `c`, `Freed` before and after |
| `clientcon_list`, `topic_list`, `retained_list` | the variables of those names; arrays keep their slots, because free slots are reused in order |
| `task` | the one entry of `mqtt_procServerTaskQueue` |
| `dummy_pCon`, `reverse[c]` | `dummy_clientcon.pCon`, `pCon->reverse`: own record, the dummy, or NULL |
| `tcp[c]`, `inflight[c]` | the `espconn`: its state, and whether sent bytes wait for their acknowledgement |
| `busy` | the connection whose receive callback is between two packets of one segment, or the clean-up between two clients |
| `up` | FALSE from a processor fault to the reset, which loses everything |

A function of the code that others call (`find_topic`, `deleteClientCon`,
`disconnectClientCon`, `activate_next_client`, ...) is an operator from memory to
memory, where the memory is the record `mem`; a handler is the composition of
the functions it calls and one action. Using a NULL pointer sets
`fault`, and `Become` turns a fault into the loss of all memory.

A packet of any type at any moment is one of the actions of `Receive`: the CONNECT
outcomes (`ConnectRefused`, `ConnectAccepted`, `ConnectNotAuthorized`,
`ConnectNoMemory`, `ConnectMalformed`), the packets of an accepted client, and
what is dropped or ignored. The two actions with undefined behaviour in the code
enumerate what a build can do: `TaskFreed`, where the task runs with a pointer to
freed memory, and `RecvTooShortByDummy`, where the static dummy is freed. In `TaskFreed`
the memory may read as anything that makes the task do nothing or fault, be another
client's record by now, or read as it was. In the last case the task uses the freed
`connState` and `pCon`: it closes that connection, sends on it, or disconnects the record
once more (`DisconnectFreed`). The `pCon` is the client's own connection as long as the
dummy has that to close, else any (`StalePCon`). The second disconnect frees the record a
second time; the heap is corrupt then and what the allocator hands out afterwards cannot
be modelled. So the model shows the memory as that step leaves it, sets `up` to FALSE and
goes on with a reset.

A will is stored piece by piece: its topic, then its length, then its body, and a CONNECT
may be refused after each. `StoredWill` has what the record may hold: a whole will
(`WholeWill`), its topic alone because the topic is not allowed (`BadTopic`) or the body is
malformed (`TopicOnly`), or a length with a NULL body because memory ran out (`NoBody`).
`deleteClientCon` publishes each of them: the topic alone as an empty body, which deletes
a retained message, and the NULL body through the pointer, a fault as soon as somebody
is to get a copy (`WillIsCopied`).

Abstractions: message bodies, topics, filters and ids are model values; whether a
filter matches is the relation `Match`; user name and password only decide which
CONNECT outcome comes; QoS is always 0, as in the code; one keepalive value
serves for all clients of a run.

External code is modelled from its use: a connection is accepted, receives,
acknowledges, is closed by the peer or the stack (`Discon`) or breaks without a
callback (`Break`, state `ESPCONN_CLOSE`, which the code tests for);
`espconn_send` fails silently on a broken connection.

### `PacketFormat`, `PacketCodec`

`PacketFormat` is how `mqtt_msg.c` writes packets and reads them, with a length of two
bytes from `Base` on (128 in the code); a buffer of `Base * Base` bytes at most needs no third
(16384 in the code, whose buffers have 1024). `PacketCodec` has the library's writer on one side
and the readers, with the strings of a CONNECT as `recv_cb` takes them apart, on the other,
over the broker's buffer with the bytes of older packets in it. The variable header of
CONNECT is one element, `MAGIC`, and the flags. The acknowledgements (two fixed bytes
and an id) are left out.

### `PacketStream`

`recv_cb` as a loop over a segment: `READPACKET`, one packet after the other, what is kept
of one that is not whole. A segment may be any piece of the stream. For two shapes the
loop is not right, and a segment of such a shape is `Ragged`: one that continues a packet
and goes on behind it (`GoesOn`; `pdata` is then advanced by too much, `Copied`), and one
that ends where the beginning of a packet passes for a whole one (`PassesForWhole`: behind
its first byte, or behind a second byte that is 128 and says only that the length goes
on). The first ragged segment is read as the code reads it, with any bytes behind the end of
the segment (`behind`), and the stream is not followed any further: what is taken for a
packet behind it need be none. `sure` counts how many of the packets handled are to be the client's:
all of them before, and of the ragged segment those that it completes.

### `TopicMatch`

Strings typed a character at a time; each state is a call of `Topics_matches`. `Tokens` is
`strtok_r`, with the places where a token begins (`TokenStarts`) and ends (`TokenEnd`), `Walk` the comparison of tokens, from the end for filters that begin with `#`.
The definitions by levels are an independent reading of the same rules.

### `MqttClient`

| model | code |
|---|---|
| `client[c]` | the `MQTT_Client` and its `espconn`: `connState`, ticks, `sendTimeout`, `pending_msg_type`, `msgQueue` |
| `net`, `inflight` | the state of the TCP connection; bytes not yet acknowledged |
| `ip` | whether `client->ip` has been filled in |
| `lookup`, `stale` | the DNS is to call back (`due`) or has told nobody (`unheard`), for the present `espconn`; an answer is due for one freed meanwhile |
| `session` | what the broker at the other end was sent and answered |
| `task` | the one slot of `mqtt_procTaskQueue` |
| `Do(r, dns, u)` | a call of the sketch, from outside or from inside a callback (`u`), with what `espconn_gethostbyname` makes of the host if the call connects (`Dns`) |

A callback is one action with what the sketch does inside it. The queue's "oldest message
makes room" loop is `Enqueue`. The answer of a look-up for a freed `espconn` either still
finds the old bytes (`DnsFoundStale`) or resets the processor (`DnsFoundFault`). A look-up
calls back later, or never: if the address is cached, it is written to `client->ip` at
once, and like a refusal that shows in the returned value only, which `MQTT_Connect` does
not look at (`lib/mqtt.c:902`). And once the ip is filled in, `mqtt_dns_found` connects nothing
(`Connects`, `lib/mqtt.c:83`).

### `OutdoorStation`, `IndoorStation`, `WeatherStation`

`OutdoorStation`: `ram` is what one boot has (`at` is the place in `setup` or `loop`), `rtc`
the record with its checksum, valid or not. `Wrap` is the number of values of an unsigned
long; times add up modulo it and are published as `itoa` takes them (`Signed`). Resets and
loss of power may come at every step, the connection may break at every step.
`IndoorStation`: the globals that `onData` sets and the text that `loop` draws, with
`outdoorLastSeenMillis` as the signed number it is. Values are abstracted to the number
of the wake-up they were measured in, which is what the display's claim is about.
`WeatherStation` joins the two by the messages on the wire, oldest first.

## The runs

| run | expectation | question |
|---|---|---|
| `ring` | pass | the memory below the broker: ring, frames, retained list and image |
| `sessions` | pass | two connections, one id, a will, a subscription slot, queues of one message: everything that begins, ends or replaces a session |
| `wills` | pass | two connections, retained wills to two topics of which one is refused, publications with another body: when wills, and what is stored of one, go out and to whom |
| `lists` | pass | one client, two topics, overlapping filters, duplicate subscriptions, full lists |
| `pipelined` | pass | several packets per segment: the receive loop as a sequence of steps nobody can interrupt, but that can stop; the CONNACK comes first |
| `live` | pass | silent clients leave, queued messages keep being sent |
| `client` | pass | the client library: sessions, wake-ups, reconnection, a queue that drains |
| `stations` | pass | the uptime over deep sleeps, the end of each wake-up, and the display |
| `packets` | pass | packets read as written, any segments cut in order up to the first ragged one, filters matched by levels, the ring as `OutQueue` has it |
| `takeover_pipelined` | violation | see findings |
| `retained_several` | violation | see findings |
| `own_will` | violation | see findings |

`MCRingBuf` and `MCPackets` hold several modules that share nothing: the variable `part`
says at the start which of them the behaviour is of, and the others keep their initial
state. So one run asks the questions of a layer, and its states are the sum of the modules',
not the product. `MCStations` does the same with each station by itself and with both
together. `StationsTypeOK` includes the types of each.

### Bounds

* `MCBroker`: timeouts of zero or one tick, so that a timer may expire at any moment; that
  covers every keepalive, since nothing depends on the length of a timeout but the order in
  which it expires. Two connections suffice for the hazards of the broker core: each
  involves the connection that ends and one other (the other client in the list, the older
  session, the other holder of the dummy or of the task slot). Queues of one message
  overflow at once; queues of two and three are used where the contents of one reply
  matter. Symmetry of the connections is used in the safety runs only.
* `ring`: 4 cells and 3 byte values wrap every way. A ring of 11 bytes takes two or three
  of the mixed messages and tears the next at every byte of its frame; messages hold every
  frame byte and what an escape makes of it. In the retained list a byte has 3 values,
  so that a body of three bytes needs both bytes of its length; two entries, three topics;
  buffers that take nothing, one entry, both.
* `client`: one client, which is what `NoLostWakeup` and `Reconnects` are true of (see
  below); ticks of one, a queue of one, three calls of the sketch, which is enough to
  disconnect, connect again and publish between any two callbacks, and every pair of packets
  in a segment of which the second is read. Two packet types whose handling is that of
  another in everything but the reply's type are left out (`SomePackets`). The client has its broker by
  name, so that each connection begins with a look-up and all its outcomes.
* `stations`: the counter has 32 values and the initial sleep is 4 of them, so that the
  sleeps of a full and of a nearly full battery differ; a wake-up lasts one unit, and four
  units of time suffice for three wake-ups at a full battery. The indoor clock has 8 values
  and runs through them again and again.
  With both stations together there are three wake-ups: an old value, a newer one, and one
  that is under way. There no time passes and the battery is full (`NoTime`, `Full`), and nothing follows the third (`LastWakeUp`), since
  the property is about the order of the values alone.
* `packets`: `Base` 16 and a buffer of 24 put packets on both sides of the one-byte length,
  up to one that fills the buffer and one that does not fit; three packets in a stream, in
  every cut, one of them with the smallest length of two bytes, whose first byte says
  nothing but that the length goes on; filters of five characters and topics of four, over `a`, `/`, `+`, `#`, `$`. In the queue
  both messages have one byte of two to escape, and 18 bytes hold three of their frames and
  three bytes of a fourth.

### Fairness

`live` assumes weak fairness of the server task, of each client's timer, of the
acknowledgement of each connection's bytes, of the calls in progress and of the
reset: the SDK runs a posted task and an armed timer, and TCP acknowledges or
breaks. The sketch publishes every 30 seconds for ever; strong fairness says that
it does not always hit the moment between a post and the run of the task, which
`delay` guarantees, since the task has a priority above the loop and runs during
it. Nothing is assumed of the clients.

`client` (`FairSpec` of `MqttClient`) assumes that an armed timer ticks, that the posted
task runs, that TCP acknowledges, and that connecting, closing and looking up come to an
end. Nothing is assumed of the broker at the other end. Two assumptions are strong: the
keepalive of a minute is not every time faster than the task, and not every time faster
than an acknowledgement.

`stations` assumes that the sketch runs while the station is awake, and nothing of WiFi,
broker or resets; `packets` that TCP hands over in the end what was sent.

### Findings

* `takeover_pipelined`: `delete_client_by_id` compares the id in the receive
  buffer, which is not terminated there (`lib/mqtt_server.c:455`).
* `retained_several`: retained messages are looked up for the last filter of a
  SUBSCRIBE only (`lib/mqtt_server.c:679`).
* `own_will`: the will of a client that subscribed to it goes through the
  client's own send buffer, which is NULL by then (`lib/mqtt_server.c:243`).

### Observed while modelling

Behaviour that a reader of the code should know of. None of it contradicts a line of the
documentation as plainly as the findings do, or it lies outside the runs, so none is a run.

* Two clients of the library share the one slot of the task queue (`lib/mqtt.c:61`). With
  `Clients = {c1, c2}` in `Client.cfg`, `Reconnects` fails: the post of one client's timer
  is refused while the other's waits, and the client stays in `TCP_RECONNECT`, which its
  timer does not look at, for ever. `defaults.h:25` gives the reconnect timeout as 5 seconds.
* `MQTT_Disconnect` and `MQTT_Delete` leave a wish in `connState` that callbacks overwrite:
  a connect callback between the call and the task turns it into `MQTT_CONNECT_SENDING`
  (`lib/mqtt.c:537`), a disconnect callback turns `MQTT_DELETED` into a reconnection
  (`lib/mqtt.c:553`), although the timer is off by then.
* A broker that accepts the connection and stays silent holds the client in
  `MQTT_CONNECT_SENDING` for ever: no timeout covers that state.
* When the outdoor station reaches the broker at its third attempt, the code that switches
  to the IP address behind that attempt disconnects it again (`MqttRetry`, outdoor
  `main.cpp:184-192`).
* The sleep is between a quarter and ten times the 60 s of the source, where `README.md:11`
  has 3 minutes; the published uptime turns negative after 2^31 ms (`main.cpp:134`), and the
  display says "Not seen yet." while `outdoorLastSeenMillis` is negative, that is from 25 days
  of running on and for as long again (indoor `main.cpp:173`).
* A retained message for an empty topic ends the reading of the stored image: add `<<>>` to
  `Topic` in `MCRingBuf` and `ReadBackIsSame` fails (`lib/mqtt_retainedlist.c:173`).
* `lib/mqtt_retainedlist.c:177` has two unsequenced `buf[pos++]` in one expression;
  `DataLen` reads the first byte first, as the writer wrote it.
* An empty client id is sent with length 2 (`lib/mqtt_msg.c:298`); the broker refuses a
  CONNECT whose remaining length takes two bytes (`lib/mqtt_server.c:380`) and drops one
  whose last string is empty.
* The order of packets is lost behind a segment that completes a packet and goes on
  (`lib/mqtt_server.c:822`), and behind one that leaves the first byte of a packet, or two of
  which the second is 128, in the buffer: these pass for a whole packet
  (`lib/mqtt_msg.c:105-120`, `lib/mqtt_server.c:356-359`). A segment of one byte ends the
  connection. TCP may cut so; `HandledInOrder` with `sure` replaced by `Len(handled)` fails.
* A will's topic is stored before the code looks for wildcards and `$` in it and before it
  reads the body (`lib/mqtt_server.c:483-516`). When one of these refuses the CONNECT,
  `MQTT_server_deleteClientCon` publishes an empty body to that topic (243), and with the
  retain flag it deletes the topic's retained message (246-250), all for a client
  that was never accepted.
* When there is no memory for the will's body, its length stays and the pointer is NULL
  (`lib/mqtt_server.c:518-527`): the will is later copied from address 0.
* A client that is freed while a post for it waits is read by the task from freed memory
  (`lib/mqtt_server.c:907-915`). If that still reads `TCP_DISCONNECTING`, it is disconnected and freed a second
  time (942), and the dummy gets a stale `pCon`. Nothing in the code excludes it, so
  `DummyPointsToDummy` and the half of `ListIsExact` about pointers hold up to that step only.
* `MQTT_Connect` ignores what `espconn_gethostbyname` returns (`lib/mqtt.c:902`). For a name
  whose address is cached, and for a look-up that is refused, no callback comes, and the
  client stays in `TCP_CONNECTING`, which no timeout covers (`Hung`). The same happens when
  the answer comes with the ip filled in already (`lib/mqtt.c:83`).
* The client library reads each segment as one packet or several whole ones; nothing puts a
  packet together from two.
* In the broker, the early returns of `recv_cb` leave `message_length_read` as it is.

## What is proved

`PROJECT.json` lists the theorems with the properties of the runs that they state. The
theorems have no other hypotheses than the `ASSUME`s of the modules, except where one is
named below.

`BufferProofs` proves of the ring, for every `Size` of at least 2 and every set of bytes,
that it keeps its types, that pointers and count agree, and that every
behaviour of `RingBuf` is one of `ByteFifo`. The inductive invariant adds to the
types that the write pointer is the read pointer advanced by the fill count
modulo the size: without it a full and an empty ring look alike and the step of
the write pointer cannot be shown to append.

Of the queue above it, `BufferProofs` proves for every size and any messages of bytes that
`MsgQueue` implements `MessageFifo` (`QueueIsFifo`). The inductive invariant, `QueueInv`, says
what the bytes in the ring are: there are places `e[0] <= e[1] <= ...` such that the frame of
the i-th message that was put whole ends at `e[i]`, and no other END is in the ring
(`IsLayout`). What lies between two frames is what was left of one torn by a full ring, and it
begins with BEGIN. So the parser, which starts with an unknown flag, finds a BEGIN first,
goes past the torn piece because the BEGIN of the next frame starts the message anew, and
stops at the first END with the oldest whole message (`ParseFrame`, `GetFirst`); without an END
it empties the ring and yields none (`GetNone`).

`RingIsOutQueue` closes the gap between these bytes and the queue over which the broker and
the client library are modelled: each put and get has on the ring the effect that `OutQueue`
gives it. It has the hypotheses `OneLength` (all frames are of one length and the ring does
not hold a whole number of them; if it did, a message that meets the full ring would leave no
byte of it, and `OutQueue`'s torn message would have none to stand for) and that the name
`"TORN"` is no message. The invariant, `PiecesInv`, says that the ring is a row of whole frames
with at most one piece among them (`IsPieces`): the beginning of a frame that met a full ring,
which then has the `QueueSize % FrameLength` bytes that are left over, wherever it has moved to since.
So the number of pieces tells whether the next frame fits (`RoomIs`), which is what
`OutQueue` counts; `BeginsAre` and `FrameAtIs` read each piece off its BEGIN, and `ConsumedPieces`
says that a get takes the first whole frame and the torn one in front of it.

Of the receive loop, `PacketProofs` proves `HandledInOrder` (`StreamInOrder`), for any packets
that satisfy `PacketsAssumption`, any number of them and any cut into segments. The
invariant, `StreamInv`, adds, as long as the stream is followed (`Followed`), the types and
that what is kept is of a packet that was sent (`KeptIsBegun`). `FlattenAppend` and `Where`
give every byte of the stream its packet. `PrefixTotal`, `TotalHere` and `KeptHere` show what
the length read off a part of a packet is: the packet's, or at least more than there is,
unless the part passes for a whole. `ReadAll` follows the loop over one segment from its last
packet back to its first, with one lemma for the last round (`LastRound`) and one for any
before it (`EarlierRound`). `SegmentEnds` says where a segment stops, `TakenKeeps` that what was
taken, what is kept and what is still to come are again the stream. For the ragged segment
`RoundType` and `ReadTyped` say that whatever the loop reads there is a sequence of packets,
`WholeRound` and `ReadFirst` that the packets which are whole before its end come first among
them, also where the segment goes on behind a packet that it continues, and `HandledFirst`
that they are then handled in their order.

Of the codec, `PacketProofs` proves `TypeOK` and `ReadAsWritten` (`CodecTypes`, `CodecCorrect`),
for any strings and for any `Base` and `BufSize` that `SizesAssumption` allows. The invariant,
`CodecInv`, adds to the types that the buffer begins with the packet that was sent last
(`Begins`), that what was sent is one that the writer can be asked for (`CallIs`) and its packet
what the writer made of it. What is behind the packet may be anything: the readers must
find their way by the packet's own lengths. A writer puts pieces one behind the other; `Place`
says of a piece that it is at an offset of the buffer, and `PlaceSplit` that the parts of a
piece are at theirs. From these follow what the readers find: the length in one byte or two,
a string behind its own length, and of a CONNECT each bit of the flags (`FlagsAre`) and each
string at the place that the ones before it leave (`StringsFound`).

Of `TopicMatch` it proves `MatchesByLevels` and `SlashesMerge` (`MatchedByLevels`,
`SlashesMerged`), for strings of any length over any letters that are no special characters.
The invariant is only `MatchTypeOK`: the two properties are statements about
functions, and all the work is in these. Each is defined in its own way, by characters and
neighbours, by tokens or by levels, and the lemmas are the bridges. `Cut` says where the levels
of a string begin and end, `TokensAt` where its tokens do. A character has no neighbours but
`/` iff it is alone in its level (`AloneInLevel`), so validity can be read off the levels
(`ValidIs`); where no level is empty the tokens are the levels (`TokensAreLevels`); reversing
a string reverses its levels and their order (`LevelsTurn`), so that the walk from the end is
one from the beginning; and the recursion of `Steps` is solved by an explicit function
(`FoundStep`), which the walk follows from the last level to the first (`StepsFit`).
`TokensMerge` moves the tokens of a string to where they are when a `/` beside another is
taken out.

`RetainedProofs` proves of `RetainedList`, for any number of entries and bytes, the types,
`HeapIsOwned`, the refinement of `RetainedStore` (`AsStore`) and `ReadBackIsSame`. The
lists of the entries are mapped to the store by `MapOf`; `UpdateEffect` says what the three ways
of `update_retainedtopic` (delete, overwrite, fill) and their failed allocations do to the map
and to the heap. `IInv` adds that the image is the serialization of some list, or the
beginning of one; `ReadAll` shows that the reader comes to the offsets at which the
writer began. `ReadBackAlways` has the hypothesis `<<>> \notin Topic`: an entry with an empty
topic is read as the end of the image. MQTT forbids such topics, the broker takes them.

The frames and the image are recursive over data. Where a proof needs induction it is over
a set of numbers, which the well-foundedness of `<` gives without an operator parameter
(`InductionTo` of `SequenceLemmas`), and `Recursion` shows that a recursive function
has the values its equation says; `FlattenIs` and `Flattened` do the same for `FlattenSeq`.
For this the parser of the queue and the reader of the image are recursive functions.

`BrokerProofs` proves four of the broker's invariants for any number of
connections, slots, topics, filters, wills and messages and for any timeouts:
`TypeOK`, `ListIsExact`, `SubscriptionsOwned` and `DummyPointsToDummy`. It uses
the assumptions of `Broker` and `OutQueue` (sizes and timeouts are naturals, a
queue holds at least one message, the packets' contents are topics, filters and
bodies, the names `NULL`, `dummy_clientcon` and `LOCAL_MQTT_CLIENT` are no
connections, the empty string is no id) and nothing about fairness.

While the broker is up the invariant is `IInv`, the types and `Sound(mem, tcp)`, which is the
three properties put together and one fact more: a client that has not sent CONNECT
has no id (`Unnamed`). Without it the proof, like the code, could not rule out
that a takeover finds and frees the very client that asks for it, whose record
would then be put to use after it has left the list. The three properties need
each other: deleting a client keeps subscriptions owned only because the list and
the record agree, and closing the dummy's connection is harmless only because
records that connections call their own are not freed.

The argument follows the structure of the model. Handlers are compositions of
functions from memory to memory, so there is a lemma per function: those that only
touch queues, retained messages or the task leave the sessions as they are
(`SameSessions`: `QueueKeeps`, `FindKeeps`, `UpdateKeeps`, `ActivateKeeps`,
`PostKeeps`, `WillKeeps`); `UnlinkEffect`, `AddEffect`, `DeleteEffect`,
`DeleteClientEffect`, `DisconnectEffect` and `TakeoverEffect` say what the others
change. `BecomeSound` ends every step, with and without a fault. Above them is
one step per action (`ReceiveSound`, ..., `SketchSound`), and `StepSound` joins
them. In the middle of a handler the memory need not be sound (a client that is
disconnected is handed to the dummy before it is freed), which is why the
invariant is split into `Sessions`, `Pointers` and `Unnamed`. A record freed twice breaks
`Pointers`, and of what follows only the reset is modelled; so what is inductive is `SInv`:
the types and `Sessions` in every state, and `Sound` while the broker is up.

`BrokerProofs` goes on from there and proves `ConnackFirst`, `RetainedOnce` and, under the
hypothesis `~Pipelining`, `OneSessionPerId`. Its invariant `GInv` holds next to `SInv`: the
three properties and one fact more, `Nameless`, that a client with an id is one that the list
holds. Without it a takeover, which looks through the list, could miss a session that has the
id. Why each record is `Polite` also in the middle of a handler rests on `SubscriptionsOwned`:
`find_topic` queues for accepted clients only, so that nothing gets in front of a CONNACK. The
hypothesis `~Pipelining` cannot be dropped: `takeover_pipelined` is the counterexample.

The same module proves four action properties from `SInv`. `WillReachesSubscribers` is about
every step at once, so the argument is over memories again: `Final(n)` says of a memory that a
step may end with that whomever it ended, compared with the state before, the will of that
client is behind what the subscribers had queued. `EndedFinal` is the core: `Near` says what a
handler may have changed before it ends a client (its own subscriptions and timeouts),
`PutsBehind` and `CopiedMore` that `QUEUE_Puts` adds and takes nothing away. Then a takeover
followed by a malformed CONNECT, which sends two wills in one step, is `LaterFinal`; steps that
end nobody who was accepted are `Quiet`; and `StepReached` goes through the actions. What the
theorem does not promise is in the property: a full queue, and the fault of `own_will`, which
ends everybody. `UnsubscribeIsComplete` follows from what `delete_topic` leaves.

`WillsOnlyFromTheDead` is the converse: which wills may come into a queue at all. `Owed(n)`
says of a memory that a will of which a queue has more copies than before the step is that of
a client `n` has freed, `Borne` says it of the step, and `Announced` adds that the step
was no DISCONNECT or names the malformed CONNECT. Copies are counted because the same body
may be queued already; `CopiedFewer` and `PutsParts` say where what stands in a queue came
from. A takeover and a malformed CONNECT in one step free two clients, and either
may owe its will (`SecondWill`). The wills are all that can be sent of what is stored
(`SentWill`): whole ones, and topics alone, which go out with an empty body; a NULL body is
copied into no queue. `WillsOfTheDead` has the hypothesis `OwnBodies`: no publication has the
topic and body of one of these. Without it a queue does not show whether a will or a publication is in it;
`BrokerWills.cfg` satisfies it.

`RetainedForLastFilter` rests on `NthRank` and `RetainedForAll`: `find_retainedtopic` takes the
matching slots in order and skips none, so that each of them has a rank among the messages
queued; `EndQueues` carries the queue to the end of the step.

`MqttClientProofs` proves `TypeOK` and `SessionIsReal` of the client library for any number of
clients, timeouts, packets and calls, and `NoLostWakeup` for a single client. The
invariant adds to `SessionIsReal` that a look-up is only due for an `espconn` that exists:
otherwise the answer could open a connection for none. `DoGood` covers the calls that
the sketch makes from inside callbacks once and for all, so that each handler has only its
own assignments to account for. `EnqueueType` is where the assumption that a queue holds
at least one message is used: without it the loop that makes room would take from an empty
queue.

`WeatherProofs` proves `TypeOK` and `UptimeIsTime` of the outdoor station for every width of
the counter, every length of sleep and every set of battery levels. The inductive invariant
(`Counts`) adds what each stage has: before `setup` has read the record the uptime is still
in the RTC memory, if it is valid. Arithmetic modulo the width is done by `ModCancels`,
`ModSum` and `ModShift`, which the steps instantiate with quotients picked beforehand.

`UptimeRises` is `UptimeGrows` under the hypothesis `LongCounter`: half the counter is longer
than two wake-ups and a sleep. In the code that is 2^31 ms against minutes; with a shorter
counter "not below" means nothing modulo its width. The invariant (`Grows`) follows the last
published uptime through the stages of the next wake-up, with at most one sleep and
parts of two wake-ups added since (`Follows`).

Of both stations together `WeatherProofs` proves `SeenIsNewest` (`DisplayCorrect`) for any
number of wake-ups. What is on the wire is of the present wake-up, and the rssi is the first
of it unless it has been received (`Ordered`); without the second half a value could
arrive before the rssi of its wake-up. It needs in turn that a wake-up publishes from the
first topic on (`Underway`). `StationsAreStations` shows that the composition implements
`OutdoorStation` and `IndoorStation`, so that what is proved of one station alone holds
of it beside the other; `StationsTypeCorrect` follows from it.

`IndoorProofs` proves the types and `SeenAgoIsRight` for every even width of `millis`: the
invariant relates `lastSeen`, the clock and the age since then through the change of sign.

Only model-checked: liveness (`SilentClientsLeave`, `NoWedge`, `Reconnects`, `Draining`,
`BatteryIsSaved`, `PacketsAreHandled`), which is out of the prover's reach. Every invariant and
every action property that a passing run checks is stated by a theorem.

## What is not modelled

* The C++ wrapper of the broker (`uMQTTBroker.cpp`): it converts strings and forwards.
* The string helpers (`utils.c`), used by no code of the stations; the examples.
* The display, the sensors' drivers, WiFi association, formatting and logging.
* TLS, which is compiled out; acknowledgements as bytes; lengths of three and four bytes,
  which exceed the buffers; QoS above 0 in the broker, which it does not have.
* In the broker, what the heap is after a record has been freed twice (`DisconnectFreed`), up
  to the reset; the stream behind the first ragged segment (`PacketStream`).
* In the client library: setters and getters; the destructor of `MQTT` (`MQTT.cpp:129`), which frees the record before the task that is
  to delete it has run; the publish callback's argument (`mqtt.c:452`).
* In the outdoor station: the write of the RTC memory is one step that a reset may tear
  (`Reset`), not word by word.
