----------------------------- MODULE MqttClient -----------------------------
(***************************************************************************)
(* The MQTT client library: mqtt.c and its C++ wrapper MQTT.cpp.  Each     *)
(* MQTT_Client is a state machine that is driven by the callbacks of its   *)
(* connection, a timer of one second and the task all clients share, whose *)
(* queue has one slot.  A callback, a tick, a run of the task and a call   *)
(* of the sketch each run to completion; the order is open.  From within   *)
(* the client's callbacks the sketch may call the client again: u is what  *)
(* it does there.                                                          *)
(***************************************************************************)
EXTENDS OutQueue

CONSTANTS
    Clients,         \* the MQTT_Client records of the sketch
    ByName,          \* those whose host is a name, to be looked up
    Packets,         \* the packets the broker sends, of PacketType
    SendTicks,       \* MQTT_SEND_TIMOUT
    ReconnectTicks,  \* MQTT_RECONNECT_TIMEOUT
    KeepAliveTicks,  \* keepalive / 2
    MaxCalls,        \* how many calls the sketch makes
    NULL

PacketType == {"ACCEPTED", "REFUSED", "PUBLISH", "PUBLISH1", "PUBLISH2", "PUBREC",
               "PUBREL", "PINGREQ", "OTHER"}

ASSUME BoundsAssumption == SendTicks \in Nat /\ ReconnectTicks \in Nat
                        /\ KeepAliveTicks \in Nat /\ MaxCalls \in Nat
ASSUME InputsAssumption == ByName \subseteq Clients /\ Packets \subseteq PacketType
ASSUME NamesAssumption == NULL \notin Clients

VARIABLES
    client,          \* the record of each client and what the network keeps for it
    task,            \* the one slot of mqtt_procTaskQueue
    calls            \* the calls the sketch has made

vars == <<client, task, calls>>

Publishes == {"PUBLISH", "PUBLISH1", "PUBLISH2"}
Requests == {"PUBLISH", "SUBSCRIBE", "UNSUBSCRIBE", "PINGREQ"}
Responses == {"PUBACK", "PUBREC", "PUBREL", "PUBCOMP", "PINGRESP"}
Msg(t) == [type |-> t]
QueuedMsg == [type : Requests \cup Responses]

\* What the sketch may do: outside the callbacks of the client, and inside.
Call == {"connect", "disconnect", "delete"} \cup Requests
Reaction == {"nothing", "connect", "disconnect", "PUBLISH"}

\* tConnState: the states the code assigns.
ConnState == {"WIFI_INIT", "TCP_DISCONNECTING", "TCP_DISCONNECTED",
              "TCP_RECONNECT_DISCONNECTING", "TCP_RECONNECT_REQ", "TCP_RECONNECT",
              "TCP_CONNECTING", "MQTT_CONNECT_SENDING", "MQTT_DATA",
              "MQTT_KEEPALIVE_SEND", "MQTT_DELETED"}
InSession == {"MQTT_DATA", "MQTT_KEEPALIVE_SEND"}

MQTT_Client ==
    [connState : ConnState,
     pCon : BOOLEAN,                            \* the espconn is allocated
     timer : BOOLEAN,                           \* mqttTimer is armed
     keepAliveTick : Nat,
     reconnectTick : 0..ReconnectTicks,
     sendTimeout : 0..SendTicks,
     pending : {NULL, "CONNECT"} \cup Requests \cup Responses,    \* pending_msg_type
     msgQueue : Seq(QueuedMsg \cup {TORN}),
     net : {"none", "connecting", "open", "closing"},     \* the TCP connection
     inflight : BOOLEAN,                        \* bytes wait for their acknowledgement
     ip : BOOLEAN,                              \* the ip is filled in
     lookup : {"none", "due", "unheard"},       \* the DNS is to call back for pCon; it told nobody
     stale : BOOLEAN,                           \* one for an espconn freed meanwhile is due
     session : {"none", "asked", "accepted"},   \* what pCon's broker was sent and answered
     wanted : {"off", "on", "deleted", "gone"}] \* the sketch's last wish, and its fulfilment

\* MQTT_InitConnection and MQTT_InitClient.
Initialised ==
    [connState |-> "WIFI_INIT", pCon |-> FALSE, timer |-> FALSE, keepAliveTick |-> 0,
     reconnectTick |-> 0, sendTimeout |-> 0, pending |-> NULL, msgQueue |-> <<>>,
     net |-> "none", inflight |-> FALSE, ip |-> FALSE, lookup |-> "none",
     stale |-> FALSE, session |-> "none", wanted |-> "off"]

\* The post of MQTT_InitClient may have been served, or refused behind another client's.
Init == /\ client = [c \in Clients |-> Initialised]
        /\ task \in Clients \cup {NULL}
        /\ calls = 0

(***************************************************************************)
(* The functions, from record to record.                                   *)
(***************************************************************************)
mqtt_tcpclient_delete(r) ==
    IF r.pCon
    THEN [r EXCEPT !.pCon = FALSE, !.net = "none", !.inflight = FALSE, !.session = "none",
                   !.lookup = "none", !.stale = @ \/ r.lookup = "due"]
    ELSE r

mqtt_client_delete(r) ==
    [Initialised EXCEPT !.stale = mqtt_tcpclient_delete(r).stale, !.ip = r.ip, !.wanted = "gone"]

\* espconn_send takes bytes only when the former ones have been acknowledged.
Sendable(r) == r.net = "open" /\ ~r.inflight
espconn_send(r) == IF Sendable(r) THEN [r EXCEPT !.inflight = TRUE] ELSE r

\* espconn_disconnect of what is not connected has no effect.
espconn_disconnect(r) == IF r.net = "open" THEN [r EXCEPT !.net = "closing"] ELSE r

\* What becomes of the host of a call: it is an address, or the DNS is to call back; or the
\* address is cached and written to the ip, or the lookup refused, and all that tells is
\* what espconn_gethostbyname returns.  Calls that do not connect ask nothing.
Dns(c, u) == IF c \in ByName /\ u = "connect" THEN {"due", "cached", "refused"} ELSE {"address"}
DnsResult == {"address", "due", "cached", "refused"}

\* The result of espconn_gethostbyname is not looked at.
MQTT_Connect(r, dns) ==
    LET d == mqtt_tcpclient_delete(r)
    IN  [d EXCEPT
            !.pCon = TRUE, !.keepAliveTick = 0, !.reconnectTick = 0, !.timer = TRUE,
            !.net = IF dns = "address" THEN "connecting" ELSE "none",
            !.lookup = CASE dns = "address" -> "none"
                         [] dns = "due" -> "due"
                         [] OTHER -> "unheard",
            !.ip = @ \/ dns = "cached",
            !.connState = "TCP_CONNECTING"]

\* QUEUE_Gets: the oldest whole message leaves, with a torn one before it.
Gets(q) == Tail(Readable(q))

\* The loop of MQTT_Publish, MQTT_Subscribe, MQTT_UnSubscribe and MQTT_Ping: the oldest
\* message makes room for the new one.
Enqueue(q, m) ==
    IF Room(q) >= 1 THEN Puts(q, <<m>>) ELSE Puts(Gets(Puts(q, <<m>>)), <<m>>)

\* A call of the sketch.
Do(r, dns, u) ==
    CASE u = "connect" -> [MQTT_Connect(r, dns) EXCEPT !.wanted = "on"]
      [] u = "disconnect" ->
            [r EXCEPT !.connState = "TCP_DISCONNECTING", !.timer = FALSE, !.wanted = "off"]
      [] u = "delete" ->
            [r EXCEPT !.connState = "MQTT_DELETED", !.timer = FALSE, !.wanted = "deleted"]
      [] u \in Requests -> [r EXCEPT !.msgQueue = Enqueue(@, Msg(u))]
      [] OTHER -> r

\* The calls that post; MQTT_Connect does not.
Posts(u) == u \notin {"connect", "nothing"}

system_os_post(c) == task' = IF task = NULL THEN c ELSE task

\* The sketch's callback ran: the bound on its calls, and none for a deleted client.
Reacts(c, u) ==
    /\ u = "nothing" \/ (calls < MaxCalls /\ client[c].wanted \in {"off", "on"})
    /\ calls' = IF u = "nothing" THEN calls ELSE calls + 1

Becomes(c, r) == client' = [client EXCEPT ![c] = r]

(***************************************************************************)
(* What the sketch calls.                                                  *)
(***************************************************************************)
Sketch(c, u) ==
    /\ client[c].wanted \in {"off", "on"}
    /\ calls < MaxCalls
    /\ calls' = calls + 1
    /\ \E dns \in Dns(c, u) : Becomes(c, Do(client[c], dns, u))
    /\ IF Posts(u) THEN system_os_post(c) ELSE UNCHANGED task

(***************************************************************************)
(* mqtt_timer, every second while armed.                                   *)
(***************************************************************************)
\* Mutant of CountDown: zero is not tested for.
CountDownPastZero(r) == [r EXCEPT !.sendTimeout = @ - 1]

CountDown(r) == [r EXCEPT !.sendTimeout = IF @ > 0 THEN @ - 1 ELSE 0]

KeepAliveDue(r) == r.connState = "MQTT_DATA" /\ r.keepAliveTick >= KeepAliveTicks
ReconnectDue(r) == r.connState = "TCP_RECONNECT_REQ" /\ r.reconnectTick >= ReconnectTicks

TimerCounts(c) ==
    LET r == client[c]
    IN  /\ r.timer /\ ~KeepAliveDue(r) /\ ~ReconnectDue(r)
        /\ Becomes(c, CountDown(
              CASE r.connState = "MQTT_DATA" -> [r EXCEPT !.keepAliveTick = @ + 1]
                [] r.connState = "TCP_RECONNECT_REQ" -> [r EXCEPT !.reconnectTick = @ + 1]
                [] OTHER -> r))
        /\ UNCHANGED <<task, calls>>

\* Mutant of TimerKeepAlive: the task is not told.
TimerKeepAliveUnposted(c) ==
    LET r == client[c]
    IN  /\ r.timer /\ KeepAliveDue(r)
        /\ Becomes(c, CountDown([r EXCEPT !.keepAliveTick = @ + 1,
                                          !.connState = "MQTT_KEEPALIVE_SEND"]))
        /\ UNCHANGED <<task, calls>>

TimerKeepAlive(c) ==
    LET r == client[c]
    IN  /\ r.timer /\ KeepAliveDue(r)
        /\ Becomes(c, CountDown([r EXCEPT !.keepAliveTick = @ + 1,
                                          !.connState = "MQTT_KEEPALIVE_SEND"]))
        /\ system_os_post(c)
        /\ UNCHANGED calls

\* Mutant of TimerReconnect: the task is not told.
TimerReconnectUnposted(c, u) ==
    LET r == client[c]
    IN  /\ r.timer /\ ReconnectDue(r)
        /\ Reacts(c, u)
        /\ \E dns \in Dns(c, u) : Becomes(c,
              CountDown(Do([r EXCEPT !.reconnectTick = 0, !.connState = "TCP_RECONNECT"], dns, u)))
        /\ UNCHANGED task

\* timeoutCb comes after the post.
TimerReconnect(c, u) ==
    LET r == client[c]
    IN  /\ r.timer /\ ReconnectDue(r)
        /\ Reacts(c, u)
        /\ \E dns \in Dns(c, u) : Becomes(c,
              CountDown(Do([r EXCEPT !.reconnectTick = 0, !.connState = "TCP_RECONNECT"], dns, u)))
        /\ system_os_post(c)

Timer(c) == TimerCounts(c) \/ TimerKeepAlive(c) \/ \E u \in Reaction : TimerReconnect(c, u)

(***************************************************************************)
(* The callbacks of the connection.                                        *)
(***************************************************************************)
\* mqtt_dns_found: there is no such name, or its address is zero, or it has one.  An address
\* is used only while the ip is empty; espconn_connect of an espconn that is connected has
\* no effect.
Answers == {"none", "zero", "address"}
Connects(r, answer) == answer = "address" /\ ~r.ip

Resolved(c, r, answer) ==
    /\ Becomes(c, CASE answer = "none" -> [r EXCEPT !.connState = "TCP_RECONNECT_REQ"]
                    [] Connects(r, answer) ->
                          [r EXCEPT !.connState = "TCP_CONNECTING",
                                    !.net = IF @ = "none" THEN "connecting" ELSE @]
                    [] OTHER -> r)
    /\ IF answer = "none" THEN UNCHANGED task ELSE system_os_post(c)
    /\ UNCHANGED calls

DnsFound(c, answer) ==
    LET r == client[c]
        told == answer = "none" \/ Connects(r, answer)
    IN  /\ r.lookup = "due"
        /\ Resolved(c, [r EXCEPT !.lookup = IF told THEN "none" ELSE "unheard"], answer)

\* The answer for an espconn that has been freed since.  Its memory may still read as it
\* was: then the client is taken to connect, whatever it does by now.
DnsFoundStale(c, answer) ==
    /\ client[c].stale
    /\ Connects(client[c], answer) => client[c].pCon
    /\ Resolved(c, [client[c] EXCEPT !.stale = FALSE], answer)

\* Or the memory holds something else, or client->pCon is NULL: the processor resets.
DnsFoundFault(c) ==
    /\ client[c].stale
    /\ client' = [d \in Clients |-> Initialised]
    /\ task' \in Clients \cup {NULL}
    /\ UNCHANGED calls

\* mqtt_tcpclient_connect_cb.
ConnectCb(c) ==
    /\ client[c].net = "connecting"
    /\ Becomes(c, espconn_send([client[c] EXCEPT
                      !.net = "open", !.session = "asked", !.pending = "CONNECT",
                      !.sendTimeout = SendTicks, !.connState = "MQTT_CONNECT_SENDING"]))
    /\ system_os_post(c)
    /\ UNCHANGED calls

\* The connection is gone, and with it what was in flight.
Lost(r) == [r EXCEPT !.net = "none", !.inflight = FALSE, !.session = "none"]

\* mqtt_tcpclient_discon_cb.  disconnectedCb comes before the post.
DisconCb(c, u) ==
    /\ client[c].net \in {"open", "closing"}
    /\ Reacts(c, u)
    /\ LET r == Lost(client[c])
       IN  \E dns \in Dns(c, u) : Becomes(c, Do([r EXCEPT !.connState =
                             IF @ = "TCP_DISCONNECTING" THEN "TCP_DISCONNECTED"
                                                        ELSE "TCP_RECONNECT_REQ"], dns, u))
    /\ system_os_post(c)

\* Mutant of ReconCb: the state is left as it was.
ReconCbSilently(c) ==
    /\ client[c].net \in {"connecting", "open", "closing"}
    /\ Becomes(c, Lost(client[c]))
    /\ system_os_post(c)
    /\ UNCHANGED calls

\* mqtt_tcpclient_recon_cb: the connection could not be made, or broke.
ReconCb(c) ==
    /\ client[c].net \in {"connecting", "open", "closing"}
    /\ Becomes(c, [Lost(client[c]) EXCEPT !.connState = "TCP_RECONNECT_REQ"])
    /\ system_os_post(c)
    /\ UNCHANGED calls

\* Mutant of SentCb: the task is not told.
SentCbUnposted(c, u) ==
    LET r == [client[c] EXCEPT !.inflight = FALSE, !.sendTimeout = 0, !.keepAliveTick = 0]
    IN  /\ client[c].inflight
        /\ IF r.connState \in InSession /\ r.pending = "PUBLISH"
           THEN Reacts(c, u) /\ \E dns \in Dns(c, u) : Becomes(c, Do(r, dns, u))
           ELSE u = "nothing" /\ Becomes(c, r) /\ UNCHANGED calls
        /\ UNCHANGED task

\* mqtt_tcpclient_sent_cb.
SentCb(c, u) ==
    LET r == [client[c] EXCEPT !.inflight = FALSE, !.sendTimeout = 0, !.keepAliveTick = 0]
    IN  /\ client[c].inflight
        /\ IF r.connState \in InSession /\ r.pending = "PUBLISH"
           THEN Reacts(c, u) /\ \E dns \in Dns(c, u) : Becomes(c, Do(r, dns, u))
           ELSE u = "nothing" /\ Becomes(c, r) /\ UNCHANGED calls
        /\ system_os_post(c)

(***************************************************************************)
(* mqtt_tcpclient_recv.                                                    *)
(***************************************************************************)
Response(p) ==
    CASE p = "PUBLISH1" -> <<Msg("PUBACK")>>
      [] p = "PUBLISH2" -> <<Msg("PUBREC")>>
      [] p = "PUBREC" -> <<Msg("PUBREL")>>
      [] p = "PUBREL" -> <<Msg("PUBCOMP")>>
      [] p = "PINGREQ" -> <<Msg("PINGRESP")>>
      [] OTHER -> <<>>

\* A CONNACK answers the CONNECT that is pending.
Connack(r, dns, p, u) ==
    IF p = "ACCEPTED" /\ r.pending = "CONNECT"
    THEN Do([r EXCEPT !.connState = "MQTT_DATA", !.session = "accepted"], dns, u)
    ELSE espconn_disconnect(r)

Packet(r, dns, p, u) ==
    CASE r.connState = "MQTT_CONNECT_SENDING" /\ p \in {"ACCEPTED", "REFUSED"} ->
            Connack(r, dns, p, u)
      [] r.connState \in InSession ->
            LET replied == [r EXCEPT !.msgQueue = Puts(@, Response(p))]
            IN  IF p \in Publishes THEN Do(replied, dns, u) ELSE replied
      [] OTHER -> r

\* A segment: what stands behind a PUBLISH is read as well, behind others it is not.
Recv(c, ps, u) ==
    LET r == client[c]
        first(dns) == Packet(r, dns, ps[1], u)
        more == Len(ps) = 2 /\ ps[1] \in Publishes /\ r.connState \in InSession
    IN  /\ r.net = "open"
        /\ Reacts(c, u)
        /\ \E dns \in Dns(c, u) :
              Becomes(c, IF more THEN Packet(first(dns), dns, ps[2], u) ELSE first(dns))
        /\ system_os_post(c)

\* Pairs whose second packet would not be read are left out.
Segments == {<<p>> : p \in Packets} \cup ((Packets \cap Publishes) \X Packets)

(***************************************************************************)
(* MQTT_Task, for the client in the slot.                                  *)
(***************************************************************************)
mqtt_send_keepalive(r) ==
    LET tried == [espconn_send(r) EXCEPT !.pending = "PINGREQ", !.sendTimeout = SendTicks]
    IN  IF Sendable(r)
        THEN [tried EXCEPT !.keepAliveTick = 0, !.connState = "MQTT_DATA"]
        ELSE [tried EXCEPT !.connState = "TCP_RECONNECT_DISCONNECTING"]

\* The result of espconn_send is not looked at: what cannot be sent is lost.
Dequeue(r) ==
    LET q == Readable(r.msgQueue)
    IN  IF q = <<>>
        THEN [r EXCEPT !.msgQueue = <<>>]
        ELSE espconn_send([r EXCEPT !.msgQueue = Tail(q), !.pending = Head(q).type,
                                    !.sendTimeout = SendTicks, !.keepAliveTick = 0])

Dequeues(r) == r.connState = "MQTT_DATA" /\ ~IsEmpty(r.msgQueue) /\ r.sendTimeout = 0

Served(r, dns) ==
    CASE r.connState = "TCP_RECONNECT" -> MQTT_Connect(r, dns)
      [] r.connState \in {"TCP_DISCONNECTING", "TCP_RECONNECT_DISCONNECTING"} ->
            espconn_disconnect(r)
      [] r.connState = "TCP_DISCONNECTED" -> mqtt_tcpclient_delete(r)
      [] r.connState = "MQTT_DELETED" -> mqtt_client_delete(r)
      [] r.connState = "MQTT_KEEPALIVE_SEND" -> mqtt_send_keepalive(r)
      [] Dequeues(r) -> Dequeue(r)
      [] OTHER -> r

MQTT_Task(c) ==
    /\ task = c
    /\ \E dns \in Dns(c, "connect") : Becomes(c, Served(client[c], dns))
    /\ task' = IF client[c].connState = "MQTT_KEEPALIVE_SEND" THEN c ELSE NULL
    /\ UNCHANGED calls

-----------------------------------------------------------------------------
Network(c) ==
    \/ \E answer \in Answers : DnsFound(c, answer) \/ DnsFoundStale(c, answer)
    \/ DnsFoundFault(c)
    \/ ConnectCb(c)
    \/ ReconCb(c)
    \/ \E u \in Reaction : DisconCb(c, u) \/ SentCb(c, u)
    \/ \E u \in Reaction, ps \in Segments : Recv(c, ps, u)

Next == \E c \in Clients :
    \/ \E u \in Call : Sketch(c, u)
    \/ Timer(c)
    \/ Network(c)
    \/ MQTT_Task(c)

Spec == Init /\ [][Next]_vars

(***************************************************************************)
(* Fairness: an armed timer ticks, a posted task runs, sent bytes are      *)
(* acknowledged, and connecting, closing and looking up come to an end.    *)
(* The broker need not answer.  The keepalive, which takes a minute, is    *)
(* not each time faster than the task or than an acknowledgement.          *)
(***************************************************************************)
ConnectingEnds(c) == client[c].net = "connecting" /\ (ConnectCb(c) \/ ReconCb(c))
ClosingEnds(c) ==
    client[c].net = "closing" /\ (ReconCb(c) \/ \E u \in Reaction : DisconCb(c, u))
Acknowledged(c) == \E u \in Reaction : SentCb(c, u)
AcknowledgedInTime(c) == client[c].connState = "MQTT_DATA" /\ Acknowledged(c)
LookupEnds(c) == \E answer \in Answers : DnsFound(c, answer)
Sends(c) == MQTT_Task(c) /\ Dequeues(client[c])

FairSpec ==
    /\ Spec
    /\ \A c \in Clients :
          /\ WF_vars(MQTT_Task(c)) /\ SF_vars(Sends(c))
          /\ WF_vars(Timer(c))
          /\ WF_vars(Acknowledged(c)) /\ SF_vars(AcknowledgedInTime(c))
          /\ WF_vars(ConnectingEnds(c)) /\ WF_vars(ClosingEnds(c)) /\ WF_vars(LookupEnds(c))

-----------------------------------------------------------------------------
\* The records keep their types; the ticks keep within the timeouts they count to.
TypeOK == /\ client \in [Clients -> MQTT_Client]
          /\ task \in Clients \cup {NULL}
          /\ calls \in 0..MaxCalls

\* A client takes itself to be in a session only on the very connection whose broker has
\* accepted its CONNECT, and waits for a CONNACK only where it has sent a CONNECT and
\* nothing since: through reconnections, refusals, deletions of the connection from
\* inside its own callbacks and late answers of the DNS.
SessionIsReal == \A c \in Clients :
    LET r == client[c]
    IN  /\ r.net # "none" => r.pCon
        /\ r.connState \in InSession => r.net # "none" /\ r.session = "accepted"
        /\ r.connState = "MQTT_CONNECT_SENDING" =>
              r.net # "none" /\ r.session = "asked" /\ r.pending = "CONNECT"

\* A state that only MQTT_Task leaves never waits with the task's queue empty, although
\* posts are refused and their results ignored.  It holds for one client, whose entry in
\* the slot stands for all its posts; with two the entry may be the other's.
OnlyTheTaskHelps(r) ==
    \/ r.connState \in {"TCP_RECONNECT", "MQTT_KEEPALIVE_SEND", "MQTT_DELETED"}
    \/ r.connState = "TCP_DISCONNECTED" /\ r.pCon
    \/ r.connState \in {"TCP_DISCONNECTING", "TCP_RECONNECT_DISCONNECTING"} /\ r.net = "open"
NoLostWakeup == \A c \in Clients : OnlyTheTaskHelps(client[c]) => task # NULL

\* While its timer runs, a client that lost its connection comes to ask for another, and
\* what it has asked for comes to an end: the client connects, or goes back and tries again
\* (mqtt_timer, mqtt_dns_found).  Two ways out of this are the code's: the DNS tells
\* nobody, and the client waits in TCP_CONNECTING without a timeout; and a late answer
\* puts a client back to TCP_CONNECTING whose connection is open.
Hung(r) == r.connState = "TCP_CONNECTING" /\ r.lookup = "unheard" /\ r.net = "none"
Asked(r) == /\ r.connState \notin {"TCP_RECONNECT_REQ", "TCP_RECONNECT"}
            /\ r.net # "none" \/ r.lookup = "due"
Reconnects == \A c \in Clients :
    LET r == client[c]
    IN  /\ (r.connState = "TCP_RECONNECT_REQ" /\ r.timer) ~> (Asked(r) \/ Hung(r) \/ ~r.timer)
        /\ (r.connState = "TCP_CONNECTING" /\ r.timer) ~>
              (r.connState # "TCP_CONNECTING" \/ r.net = "open" \/ Hung(r) \/ ~r.timer)

\* A client that stays in its session with something to send goes on sending, although
\* sends fail unnoticed and the expiry of sendTimeout posts nothing: the keepalive wakes
\* the queue.
Draining == \A c \in Clients :
    <>[](client[c].connState \in InSession /\ client[c].msgQueue # <<>>)
        => []<><<Sends(c)>>_vars
=============================================================================
