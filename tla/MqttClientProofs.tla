-------------------------- MODULE MqttClientProofs --------------------------
(***************************************************************************)
(* The client library keeps its types, takes itself to be in a session     *)
(* only where it is in one, and, if it is the only client, never waits for *)
(* a task that nobody has posted: for any timeouts, packets and calls.     *)
(***************************************************************************)
EXTENDS MqttClient, FiniteSetTheorems, TLAPS

-----------------------------------------------------------------------------
(* Queues *)

\* At most one message is torn.
Queue == {q \in Seq(QueuedMsg \cup {TORN}) :
            \A i, j \in 1..Len(q) : q[i] = TORN /\ q[j] = TORN => i = j}

LEMMA WholeMessages == TORN \notin QueuedMsg
BY DEF TORN, QueuedMsg, Requests, Responses

LEMMA WholeType ==
    ASSUME NEW q \in Queue
    PROVE  /\ Whole(q) \in Nat
           /\ Whole(q) # 0 => \E i \in 1..Len(q) : q[i] # TORN
<1> DEFINE whole == {i \in DOMAIN q : q[i] # TORN}
<1>1. Len(q) \in Nat /\ DOMAIN q = 1..Len(q)
    BY DEF Queue
<1>2. IsFiniteSet(1..Len(q))
    BY <1>1, 1 \in Int, FS_Interval
<1>3. IsFiniteSet(whole)
    BY <1>1, <1>2, FS_Subset
<1>4. Cardinality(whole) \in Nat
    BY <1>3, FS_CardinalityType
<1>5. whole = {} => Cardinality(whole) = 0
    BY FS_EmptySet
<1> QED BY <1>1, <1>4, <1>5 DEF Whole

LEMMA RoomType ==
    ASSUME NEW q \in Queue
    PROVE  Room(q) \in Nat
BY WholeType, QueueCapAssumption DEF Room

\* QUEUE_Puts leaves a queue of messages, and what was in it.
LEMMA PutsType ==
    ASSUME NEW q \in Queue, NEW ms \in Seq(QueuedMsg)
    PROVE  /\ Puts(q, ms) \in Queue
           /\ Len(q) <= Len(Puts(q, ms))
           /\ \A i \in 1..Len(q) : Puts(q, ms)[i] = q[i]
<1>1. Room(q) \in Nat /\ q \in Seq(QueuedMsg \cup {TORN})
    BY RoomType DEF Queue
<1>2. ASSUME NEW es \in Seq(QueuedMsg)
      PROVE  /\ q \o es \in Queue /\ Len(q) <= Len(q \o es)
             /\ \A i \in 1..Len(q) : (q \o es)[i] = q[i]
             /\ \A i \in 1..Len(q \o es) : (q \o es)[i] = TORN => i \in 1..Len(q)
    <2> DEFINE f == q \o es
    <2>1. f \in Seq(QueuedMsg \cup {TORN}) /\ Len(f) = Len(q) + Len(es)
        BY <1>1
    <2>2. \A i \in 1..Len(q) : f[i] = q[i]
        BY <1>1
    <2>3. \A i \in 1..Len(f) : i \notin 1..Len(q) => f[i] \in QueuedMsg
        BY <1>1
    <2> HIDE DEF f
    <2>4. \A i \in 1..Len(f) : f[i] = TORN => i \in 1..Len(q)
        BY <2>3, WholeMessages
    <2>5. \A i, j \in 1..Len(f) : f[i] = TORN /\ f[j] = TORN => i = j
        BY <2>2, <2>4 DEF Queue
    <2>6. Len(q) <= Len(f)
        BY <1>1, <2>1
    <2> QED BY <2>1, <2>2, <2>4, <2>5, <2>6 DEF Queue, f
<1>3. CASE Len(ms) <= Room(q)
    BY <1>2, <1>3 DEF Puts
<1>4. CASE ~(Len(ms) <= Room(q))
    <2> DEFINE fitting == q \o SubSeq(ms, 1, Room(q))
    <2>1. SubSeq(ms, 1, Room(q)) \in Seq(QueuedMsg)
        BY <1>1, <1>4
    <2>2. /\ fitting \in Queue /\ Len(q) <= Len(fitting)
          /\ \A i \in 1..Len(q) : fitting[i] = q[i]
          /\ \A i \in 1..Len(fitting) : fitting[i] = TORN => i \in 1..Len(q)
        BY <1>2, <2>1
    <2>3. Puts(q, ms) = IF \E i \in DOMAIN q : q[i] = TORN THEN fitting ELSE Append(fitting, TORN)
        BY <1>4 DEF Puts
    <2> HIDE DEF fitting
    <2>4. CASE \E i \in DOMAIN q : q[i] = TORN
        BY <2>2, <2>3, <2>4
    <2>5. CASE ~ \E i \in DOMAIN q : q[i] = TORN
        <3> DEFINE g == Append(fitting, TORN)
        <3>1. \A i \in 1..Len(fitting) : fitting[i] # TORN
            BY <1>1, <2>2, <2>5
        <3>2. /\ g \in Seq(QueuedMsg \cup {TORN}) /\ Len(g) = Len(fitting) + 1
              /\ \A i \in 1..Len(fitting) : g[i] = fitting[i]
            BY <2>2 DEF Queue
        <3> HIDE DEF g
        <3>3. \A i, j \in 1..Len(g) : g[i] = TORN /\ g[j] = TORN => i = j
            BY SMTT(60), <2>2, <3>1, <3>2 DEF Queue
        <3>4. g \in Queue
            BY <3>2, <3>3 DEF Queue
        <3>5. Len(q) <= Len(g) /\ \A i \in 1..Len(q) : g[i] = q[i]
            BY <1>1, <2>2, <3>2 DEF Queue
        <3> QED BY <2>3, <2>5, <3>4, <3>5 DEF g
    <2> QED BY <2>4, <2>5
<1> QED BY <1>3, <1>4

LEMMA TailType ==
    ASSUME NEW q \in Queue, q # <<>>
    PROVE  Tail(q) \in Queue /\ Len(Tail(q)) = Len(q) - 1 /\ Len(q) \in Nat
<1>1. /\ Tail(q) \in Seq(QueuedMsg \cup {TORN}) /\ Len(Tail(q)) = Len(q) - 1
      /\ Len(q) \in Nat /\ \A i \in 1..Len(Tail(q)) : Tail(q)[i] = q[i + 1]
    BY DEF Queue
<1>2. ASSUME NEW i \in 1..Len(Tail(q)), NEW j \in 1..Len(Tail(q)),
             Tail(q)[i] = TORN, Tail(q)[j] = TORN
      PROVE  i = j
    <2>1. i + 1 \in 1..Len(q) /\ j + 1 \in 1..Len(q) /\ q[i + 1] = TORN /\ q[j + 1] = TORN
        BY <1>1, <1>2
    <2>2. i + 1 = j + 1
        BY <2>1 DEF Queue
    <2> QED BY <1>1, <2>2
<1> QED BY <1>1, <1>2 DEF Queue

\* Behind a torn message there is none.
LEMMA ReadableType ==
    ASSUME NEW q \in Queue
    PROVE  /\ Readable(q) \in Queue
           /\ Readable(q) # <<>> => /\ Tail(Readable(q)) \in Queue
                                    /\ Head(Readable(q)) \in QueuedMsg
<1>1. Readable(q) \in Queue
    BY TailType DEF Readable
<1>2. ASSUME Readable(q) # <<>> PROVE Head(Readable(q)) # TORN
    <2>1. CASE q # <<>> /\ Head(q) = TORN
        <3>1. Len(q) >= 2 /\ q[1] = TORN /\ Head(Tail(q)) = q[2]
            BY <1>2, <2>1 DEF Readable, Queue
        <3>2. q[2] # TORN
            BY <3>1 DEF Queue
        <3> QED BY <2>1, <3>1, <3>2 DEF Readable
    <2>2. CASE ~(q # <<>> /\ Head(q) = TORN)
        BY <1>2, <2>2 DEF Readable
    <2> QED BY <2>1, <2>2
<1>3. ASSUME NEW r \in Queue, r # <<>> PROVE Head(r) \in QueuedMsg \cup {TORN}
    BY <1>3 DEF Queue
<1> QED BY <1>1, <1>2, <1>3, TailType

\* A queue without room holds a message that can be taken, whatever is torn.
LEMMA EnqueueType ==
    ASSUME NEW q \in Queue, NEW m \in QueuedMsg
    PROVE  Enqueue(q, m) \in Queue
<1>1. <<m>> \in Seq(QueuedMsg)
    OBVIOUS
<1>2. CASE Room(q) >= 1
    BY <1>1, <1>2, PutsType DEF Enqueue
<1>3. CASE ~(Room(q) >= 1)
    <2> DEFINE full == Puts(q, <<m>>)
    <2>1. full \in Queue /\ Len(q) <= Len(full) /\ \A i \in 1..Len(q) : full[i] = q[i]
        BY <1>1, PutsType
    <2>2. Whole(q) # 0
        BY <1>3, WholeType, QueueCapAssumption DEF Room
    <2>3. PICK i \in 1..Len(q) : q[i] # TORN
        BY <2>2, WholeType
    <2> HIDE DEF full
    <2>4. full # <<>> /\ (Head(full) = TORN => Len(full) >= 2)
        BY <2>1, <2>3 DEF Queue
    <2>5. Readable(full) # <<>>
        <3>1. Len(full) >= 2 => Tail(full) # <<>>
            <4> DEFINE l == Len(full)
                       k == Len(Tail(full))
            <4>1. k = l - 1 /\ l \in Nat
                BY <2>1, <2>4, TailType
            <4>2. Tail(full) = <<>> => k = 0
                <5>1. Len(<<>>) = 0
                    OBVIOUS
                <5> QED BY <5>1, Zenon
            <4> HIDE DEF l, k
            <4>3. l >= 2 => k # 0
                BY <4>1
            <4> QED BY <4>2, <4>3, Zenon DEF l
        <3> QED BY <2>4, <3>1 DEF Readable
    <2>6. Gets(full) \in Queue
        BY <2>1, <2>5, ReadableType DEF Gets
    <2> QED BY <1>1, <1>3, <2>6, PutsType DEF Enqueue, full
<1> QED BY <1>2, <1>3

-----------------------------------------------------------------------------
(* One client's record *)

\* What SessionIsReal says of a record, and that a name is looked up for the espconn there is.
Real(r) ==
    /\ r.net # "none" \/ r.lookup = "due" => r.pCon
    /\ r.connState \in InSession => r.net # "none" /\ r.session = "accepted"
    /\ r.connState = "MQTT_CONNECT_SENDING" =>
          r.net # "none" /\ r.session = "asked" /\ r.pending = "CONNECT"

Good(r) == r \in MQTT_Client /\ r.msgQueue \in Queue /\ Real(r)

\* Two records that differ in nothing that Real and the need for the task are about.
SameSession(n, r) ==
    /\ n.net = r.net /\ n.lookup = r.lookup /\ n.pCon = r.pCon
    /\ n.connState = r.connState /\ n.session = r.session /\ n.pending = r.pending

LEMMA SameIsReal ==
    ASSUME NEW n, NEW r, SameSession(n, r)
    PROVE  /\ Real(r) => Real(n)
           /\ OnlyTheTaskHelps(n) <=> OnlyTheTaskHelps(r)
BY DEF SameSession, Real, OnlyTheTaskHelps

LEMMA InitialisedGood == Good(Initialised) /\ ~OnlyTheTaskHelps(Initialised)
<1>1. <<>> \in Queue /\ <<>> \in Seq(QueuedMsg \cup {TORN})
    BY DEF Queue
<1> QED BY <1>1, BoundsAssumption
        DEF Good, Real, Initialised, MQTT_Client, ConnState, InSession, OnlyTheTaskHelps

LEMMA TcpDeleteType ==
    ASSUME NEW r \in MQTT_Client, Real(r)
    PROVE  /\ mqtt_tcpclient_delete(r) \in MQTT_Client
           /\ mqtt_tcpclient_delete(r).pCon = FALSE
           /\ mqtt_tcpclient_delete(r).net = "none"
           /\ mqtt_tcpclient_delete(r).lookup # "due"
           /\ mqtt_tcpclient_delete(r).connState = r.connState
           /\ mqtt_tcpclient_delete(r).msgQueue = r.msgQueue
<1> DEFINE n == mqtt_tcpclient_delete(r)
<1>1. CASE ~r.pCon
    BY <1>1 DEF mqtt_tcpclient_delete, MQTT_Client, Real
<1>2. CASE r.pCon
    <2> DEFINE s == r.stale \/ r.lookup = "due"
    <2>1. s \in BOOLEAN
        BY DEF MQTT_Client
    <2>2. n = [r EXCEPT !.pCon = FALSE, !.net = "none", !.inflight = FALSE, !.session = "none",
                        !.lookup = "none", !.stale = s]
        BY <1>2 DEF mqtt_tcpclient_delete, MQTT_Client
    <2> HIDE DEF n, s
    <2>3. n \in MQTT_Client
        BY <2>1, <2>2 DEF MQTT_Client
    <2>4. /\ n.pCon = FALSE /\ n.net = "none" /\ n.lookup # "due"
          /\ n.connState = r.connState /\ n.msgQueue = r.msgQueue
        BY <2>2 DEF MQTT_Client
    <2> QED BY <2>3, <2>4 DEF n
<1> QED BY <1>1, <1>2

LEMMA ConnectGood ==
    ASSUME NEW r, Good(r), NEW dns \in DnsResult
    PROVE  Good(MQTT_Connect(r, dns)) /\ ~OnlyTheTaskHelps(MQTT_Connect(r, dns))
<1> DEFINE d == mqtt_tcpclient_delete(r)
           w == IF dns = "address" THEN "connecting" ELSE "none"
           l == CASE dns = "address" -> "none"
                  [] dns = "due" -> "due"
                  [] OTHER -> "unheard"
           i == d.ip \/ dns = "cached"
           n == MQTT_Connect(r, dns)
<1>1. d \in MQTT_Client /\ d.msgQueue \in Queue
    BY TcpDeleteType DEF Good
<1>2. n = [d EXCEPT
            !.pCon = TRUE, !.keepAliveTick = 0, !.reconnectTick = 0, !.timer = TRUE,
            !.net = w, !.lookup = l, !.ip = i, !.connState = "TCP_CONNECTING"]
    BY DEF MQTT_Connect
<1> HIDE DEF d, n
<1>3. /\ w \in {"none", "connecting"} /\ l \in {"none", "due", "unheard"} /\ i \in BOOLEAN
      /\ 0 \in Nat /\ 0 \in 0..ReconnectTicks
    BY <1>1, BoundsAssumption DEF DnsResult, MQTT_Client
<1> HIDE DEF w, l, i
<1>4. n \in MQTT_Client
    <2> DEFINE e == [d EXCEPT !.net = w, !.lookup = l, !.ip = i]
    <2>1. e \in MQTT_Client
        BY <1>1, <1>3 DEF MQTT_Client
    <2>2. n = [e EXCEPT
                  !.pCon = TRUE, !.keepAliveTick = 0, !.reconnectTick = 0, !.timer = TRUE,
                  !.connState = "TCP_CONNECTING"]
        BY <1>1, <1>2 DEF MQTT_Client
    <2> HIDE DEF e
    <2> QED BY <1>3, <2>1, <2>2 DEF MQTT_Client, ConnState
<1>5. n.pCon = TRUE /\ n.connState = "TCP_CONNECTING" /\ n.msgQueue = d.msgQueue
    BY <1>1, <1>2 DEF MQTT_Client
<1>6. Good(n) /\ ~OnlyTheTaskHelps(n)
    BY <1>1, <1>4, <1>5 DEF Good, Real, InSession, OnlyTheTaskHelps
<1> QED BY <1>6 DEF n

LEMMA ClientDeleteGood ==
    ASSUME NEW r, Good(r)
    PROVE  Good(mqtt_client_delete(r)) /\ ~OnlyTheTaskHelps(mqtt_client_delete(r))
<1> DEFINE s == mqtt_tcpclient_delete(r).stale
           n == mqtt_client_delete(r)
<1>1. s \in BOOLEAN /\ r.ip \in BOOLEAN
    BY TcpDeleteType DEF Good, MQTT_Client
<1>2. n = [Initialised EXCEPT !.stale = s, !.ip = r.ip, !.wanted = "gone"]
    BY DEF mqtt_client_delete
<1> HIDE DEF s, n
<1>3. n \in MQTT_Client
    BY ZenonT(60), <1>1, <1>2, InitialisedGood DEF Good, MQTT_Client
<1>4. n.net = "none" /\ n.lookup = "none" /\ n.connState = "WIFI_INIT" /\ n.msgQueue = <<>>
    BY <1>2 DEF Initialised
<1>5. Real(n) /\ ~OnlyTheTaskHelps(n)
    BY <1>4 DEF Real, InSession, OnlyTheTaskHelps
<1>6. <<>> \in Queue
    BY DEF Queue
<1> QED BY <1>3, <1>4, <1>5, <1>6 DEF Good, n

\* What the sketch does from anywhere; a call that posts nothing leaves nothing to the task.
LEMMA DoGood ==
    ASSUME NEW r, Good(r), NEW dns \in DnsResult, NEW u \in Call \cup Reaction
    PROVE  /\ Good(Do(r, dns, u))
           /\ ~Posts(u) => Do(r, dns, u) = r \/ ~OnlyTheTaskHelps(Do(r, dns, u))
<1>1. CASE u = "connect"
    <2> DEFINE n == MQTT_Connect(r, dns)
               d == Do(r, dns, u)
    <2>2. Good(n) /\ ~OnlyTheTaskHelps(n)
        BY ConnectGood
    <2>3. d = [n EXCEPT !.wanted = "on"]
        BY <1>1 DEF Do, Requests
    <2> HIDE DEF n, d
    <2>4. d \in MQTT_Client
        BY <2>2, <2>3 DEF Good, MQTT_Client
    <2>5. SameSession(d, n) /\ d.msgQueue = n.msgQueue
        BY <2>2, <2>3 DEF Good, MQTT_Client, SameSession
    <2>6. Real(d) /\ ~OnlyTheTaskHelps(d)
        BY <2>2, <2>5, SameIsReal DEF Good
    <2> QED BY <2>2, <2>4, <2>5, <2>6 DEF Good, d
<1>2. CASE u = "disconnect"
    <2> DEFINE d == Do(r, dns, u)
    <2>1. d = [r EXCEPT !.connState = "TCP_DISCONNECTING", !.timer = FALSE, !.wanted = "off"]
        BY <1>2 DEF Do, Requests
    <2> HIDE DEF d
    <2>2. d \in MQTT_Client
        BY ZenonT(60), <2>1 DEF Good, MQTT_Client, ConnState
    <2>3. d.net = r.net /\ d.lookup = r.lookup /\ d.pCon = r.pCon
          /\ d.connState = "TCP_DISCONNECTING" /\ d.msgQueue = r.msgQueue
        BY <2>1 DEF Good, MQTT_Client
    <2>4. Real(d)
        BY <2>3 DEF Good, Real, InSession
    <2> QED BY <1>2, <2>2, <2>3, <2>4 DEF Good, d, Posts
<1>3. CASE u = "delete"
    <2> DEFINE d == Do(r, dns, u)
    <2>1. d = [r EXCEPT !.connState = "MQTT_DELETED", !.timer = FALSE, !.wanted = "deleted"]
        BY <1>3 DEF Do, Requests
    <2> HIDE DEF d
    <2>2. d \in MQTT_Client
        BY <2>1 DEF Good, MQTT_Client, ConnState
    <2>3. d.net = r.net /\ d.lookup = r.lookup /\ d.pCon = r.pCon
          /\ d.connState = "MQTT_DELETED" /\ d.msgQueue = r.msgQueue
        BY <2>1 DEF Good, MQTT_Client
    <2>4. Real(d)
        BY <2>3 DEF Good, Real, InSession
    <2> QED BY <1>3, <2>2, <2>3, <2>4 DEF Good, d, Posts
<1>4. CASE u \in Requests
    <2>1. Msg(u) \in QueuedMsg
        BY <1>4 DEF Msg, QueuedMsg
    <2>2. r.msgQueue \in Queue
        BY DEF Good
    <2> DEFINE q == Enqueue(r.msgQueue, Msg(u))
               d == Do(r, dns, u)
    <2>3. q \in Queue
        BY <2>1, <2>2, EnqueueType
    <2>4. d = [r EXCEPT !.msgQueue = q]
        BY <1>4 DEF Do, Requests
    <2> HIDE DEF q, d
    <2>5. d \in MQTT_Client
        BY <2>3, <2>4 DEF Good, MQTT_Client, Queue
    <2>6. SameSession(d, r) /\ d.msgQueue = q
        BY <2>4 DEF Good, MQTT_Client, SameSession
    <2>7. Real(d)
        BY <2>6, SameIsReal DEF Good
    <2> QED BY <1>4, <2>3, <2>5, <2>6, <2>7 DEF Good, d, Posts, Requests
<1>5. CASE u = "nothing"
    BY <1>5 DEF Do, Requests
<1> QED BY <1>1, <1>2, <1>3, <1>4, <1>5 DEF Call, Reaction, Requests

LEMMA SendGood ==
    ASSUME NEW r, Good(r)
    PROVE  Good(espconn_send(r)) /\ SameSession(espconn_send(r), r)
<1> DEFINE n == espconn_send(r)
<1>1. n = r \/ n = [r EXCEPT !.inflight = TRUE]
    BY DEF espconn_send
<1> HIDE DEF n
<1>2. n \in MQTT_Client
    BY ZenonT(60), <1>1 DEF Good, MQTT_Client
<1>3. SameSession(n, r) /\ n.msgQueue = r.msgQueue
    BY <1>1 DEF Good, MQTT_Client, SameSession
<1>4. Real(n)
    BY <1>3, SameIsReal DEF Good
<1> QED BY <1>2, <1>3, <1>4 DEF Good, n

\* The session it closes goes on until the stack has closed it.
LEMMA DisconnectGood ==
    ASSUME NEW r, Good(r)
    PROVE  /\ Good(espconn_disconnect(r))
           /\ espconn_disconnect(r).connState = r.connState
           /\ espconn_disconnect(r).net # "open"
<1> DEFINE n == espconn_disconnect(r)
<1>1. \/ r.net # "open" /\ n = r
      \/ r.net = "open" /\ n = [r EXCEPT !.net = "closing"]
    BY DEF espconn_disconnect
<1> HIDE DEF n
<1>2. n \in MQTT_Client
    BY <1>1 DEF Good, MQTT_Client
<1>3. /\ n.lookup = r.lookup /\ n.pCon = r.pCon /\ n.connState = r.connState
      /\ n.session = r.session /\ n.pending = r.pending /\ n.msgQueue = r.msgQueue
      /\ n.net = r.net \/ (n.net # "none" /\ r.net # "none")
      /\ n.net # "open"
    BY <1>1 DEF Good, MQTT_Client
<1>4. Real(n)
    BY <1>3 DEF Good, Real
<1> QED BY <1>2, <1>3, <1>4 DEF Good, n

LEMMA CountDownGood ==
    ASSUME NEW r, Good(r)
    PROVE  /\ Good(CountDown(r))
           /\ OnlyTheTaskHelps(CountDown(r)) => OnlyTheTaskHelps(r)
<1> DEFINE n == CountDown(r)
           t == IF r.sendTimeout > 0 THEN r.sendTimeout - 1 ELSE 0
<1>1. t \in 0..SendTicks
    BY BoundsAssumption DEF Good, MQTT_Client
<1>2. n = [r EXCEPT !.sendTimeout = t]
    BY DEF CountDown, Good, MQTT_Client
<1> HIDE DEF n, t
<1>3. n \in MQTT_Client
    BY <1>1, <1>2 DEF Good, MQTT_Client
<1>4. SameSession(n, r) /\ n.msgQueue = r.msgQueue
    BY <1>2 DEF Good, MQTT_Client, SameSession
<1> QED BY <1>3, <1>4, SameIsReal DEF Good, n

-----------------------------------------------------------------------------
(* The steps *)

IInv == /\ \A c \in Clients : Good(client[c])
        /\ client \in [Clients -> MQTT_Client]
        /\ task \in Clients \cup {NULL}
        /\ calls \in 0..MaxCalls

\* What each action does to the one client that it is about; if only the task can help it
\* then, the task has been posted.
Goes(c, n) ==
    /\ Good(n) /\ Becomes(c, n)
    /\ task' \in Clients \cup {NULL}
    /\ calls' \in 0..MaxCalls
    /\ OnlyTheTaskHelps(n) =>
          task' # NULL \/ (task' = task /\ OnlyTheTaskHelps(client[c]))

LEMMA PostType ==
    ASSUME IInv, NEW c \in Clients, system_os_post(c)
    PROVE  task' \in Clients \cup {NULL} /\ task' # NULL
BY NamesAssumption DEF IInv, system_os_post

LEMMA ReactsType ==
    ASSUME IInv, NEW c \in Clients, NEW u \in Reaction, Reacts(c, u)
    PROVE  calls' \in 0..MaxCalls /\ u \in Call \cup Reaction
BY BoundsAssumption DEF IInv, Reacts

LEMMA DnsType ==
    ASSUME NEW c \in Clients, NEW u
    PROVE  Dns(c, u) \subseteq DnsResult
BY DEF Dns, DnsResult

LEMMA SketchGoes ==
    ASSUME IInv, NEW c \in Clients, NEW u \in Call, Sketch(c, u)
    PROVE  \E n : Goes(c, n)
<1> PICK dns \in Dns(c, u) : Becomes(c, Do(client[c], dns, u))
    BY DEF Sketch
<1> DEFINE n == Do(client[c], dns, u)
<1>1. Good(n) /\ (~Posts(u) => n = client[c] \/ ~OnlyTheTaskHelps(n))
    BY DnsType, DoGood DEF IInv
<1>2. calls' \in 0..MaxCalls
    BY BoundsAssumption DEF Sketch, IInv
<1>3. Becomes(c, n)
    OBVIOUS
<1>4. IF Posts(u) THEN system_os_post(c) ELSE UNCHANGED task
    BY DEF Sketch
<1> HIDE DEF n
<1>5. CASE Posts(u)
    BY <1>1, <1>2, <1>3, <1>4, <1>5, PostType DEF Goes
<1>6. CASE ~Posts(u)
    BY <1>1, <1>2, <1>3, <1>4, <1>6 DEF Goes, IInv
<1> QED BY <1>5, <1>6

LEMMA TimerCountsGoes ==
    ASSUME IInv, NEW c \in Clients, TimerCounts(c)
    PROVE  \E n : Goes(c, n)
<1> DEFINE r == client[c]
           d == CASE r.connState = "MQTT_DATA" -> [r EXCEPT !.keepAliveTick = @ + 1]
                  [] r.connState = "TCP_RECONNECT_REQ" -> [r EXCEPT !.reconnectTick = @ + 1]
                  [] OTHER -> r
<1>1. Good(r) /\ ~ReconnectDue(r) /\ Becomes(c, CountDown(d)) /\ UNCHANGED <<task, calls>>
    BY DEF IInv, TimerCounts
<1>2. \/ r.connState = "MQTT_DATA" /\ d = [r EXCEPT !.keepAliveTick = r.keepAliveTick + 1]
      \/ r.connState = "TCP_RECONNECT_REQ" /\ d = [r EXCEPT !.reconnectTick = r.reconnectTick + 1]
      \/ d = r
    OBVIOUS
<1> HIDE DEF d, r
<1>3. r.keepAliveTick + 1 \in Nat
    BY <1>1 DEF Good, MQTT_Client
<1>4. r.connState = "TCP_RECONNECT_REQ" => r.reconnectTick + 1 \in 0..ReconnectTicks
    BY <1>1, BoundsAssumption DEF Good, MQTT_Client, ReconnectDue
<1>5. d \in MQTT_Client
    BY <1>1, <1>2, <1>3, <1>4 DEF Good, MQTT_Client
<1>6. SameSession(d, r) /\ d.msgQueue = r.msgQueue
    BY <1>1, <1>2 DEF Good, MQTT_Client, SameSession
<1>7. Good(d) /\ (OnlyTheTaskHelps(d) <=> OnlyTheTaskHelps(r))
    BY <1>1, <1>5, <1>6, SameIsReal DEF Good
<1>8. Good(CountDown(d)) /\ (OnlyTheTaskHelps(CountDown(d)) => OnlyTheTaskHelps(r))
    BY <1>7, CountDownGood
<1>9. Goes(c, CountDown(d))
    BY <1>1, <1>8 DEF Goes, IInv, r
<1> QED BY <1>9

\* The state changes, and with it nothing that the state is about.
LEMMA StateGood ==
    ASSUME NEW r, Good(r), NEW s \in ConnState \ {"MQTT_CONNECT_SENDING"},
           s \in InSession => r.connState \in InSession
    PROVE  Good([r EXCEPT !.connState = s])
<1> DEFINE n == [r EXCEPT !.connState = s]
<1>1. n \in MQTT_Client
    BY DEF Good, MQTT_Client
<1>2. n.net = r.net /\ n.lookup = r.lookup /\ n.pCon = r.pCon /\ n.connState = s
      /\ n.session = r.session /\ n.pending = r.pending /\ n.msgQueue = r.msgQueue
    BY DEF Good, MQTT_Client
<1> HIDE DEF n
<1>3. Real(n)
    BY <1>2 DEF Good, Real
<1> QED BY <1>1, <1>2, <1>3 DEF Good, n

LEMMA TimerKeepAliveGoes ==
    ASSUME IInv, NEW c \in Clients, TimerKeepAlive(c)
    PROVE  \E n : Goes(c, n)
<1> DEFINE r == client[c]
           d == [r EXCEPT !.keepAliveTick = @ + 1]
           n == [d EXCEPT !.connState = "MQTT_KEEPALIVE_SEND"]
<1>1. Good(r) /\ r.connState = "MQTT_DATA"
    BY DEF IInv, TimerKeepAlive, KeepAliveDue
<1>2. r.keepAliveTick + 1 \in Nat
    BY <1>1 DEF Good, MQTT_Client
<1>3. d \in MQTT_Client /\ SameSession(d, r) /\ d.msgQueue = r.msgQueue
    BY <1>1, <1>2 DEF Good, MQTT_Client, SameSession
<1>4. n = [r EXCEPT !.keepAliveTick = @ + 1, !.connState = "MQTT_KEEPALIVE_SEND"]
    OBVIOUS
<1>5. Becomes(c, CountDown(n)) /\ system_os_post(c) /\ UNCHANGED calls
    BY <1>4 DEF TimerKeepAlive
<1> HIDE DEF r, d
<1>6. Good(d) /\ d.connState = "MQTT_DATA"
    BY <1>1, <1>3, SameIsReal DEF Good, SameSession
<1>7. Good(n)
    BY <1>6, StateGood DEF ConnState, InSession
<1>8. Good(CountDown(n))
    BY <1>7, CountDownGood
<1> HIDE DEF n
<1>9. Goes(c, CountDown(n))
    BY <1>5, <1>8, PostType DEF Goes, IInv
<1> QED BY <1>9

LEMMA TimerReconnectGoes ==
    ASSUME IInv, NEW c \in Clients, NEW u \in Reaction, TimerReconnect(c, u)
    PROVE  \E n : Goes(c, n)
<1> DEFINE r == client[c]
           d == [r EXCEPT !.reconnectTick = 0]
           e == [d EXCEPT !.connState = "TCP_RECONNECT"]
           n(dns) == CountDown(Do(e, dns, u))
<1>1. Good(r)
    BY DEF IInv
<1>2. 0 \in 0..ReconnectTicks
    BY BoundsAssumption
<1>3. d \in MQTT_Client /\ SameSession(d, r) /\ d.msgQueue = r.msgQueue
    BY <1>1, <1>2 DEF Good, MQTT_Client, SameSession
<1>4. e = [r EXCEPT !.reconnectTick = 0, !.connState = "TCP_RECONNECT"]
    OBVIOUS
<1>5. PICK dns \in Dns(c, u) : Becomes(c, n(dns)) /\ system_os_post(c) /\ Reacts(c, u)
    BY <1>4 DEF TimerReconnect
<1> HIDE DEF r, d
<1>6. Good(d)
    BY <1>1, <1>3, SameIsReal DEF Good
<1>7. Good(e)
    BY <1>6, StateGood DEF ConnState, InSession
<1> HIDE DEF e
<1>8. Good(Do(e, dns, u))
    BY <1>5, <1>7, DnsType, DoGood, ReactsType
<1>9. Good(n(dns))
    BY <1>8, CountDownGood
<1> HIDE DEF n
<1> QED BY <1>5, <1>9, PostType, ReactsType DEF Goes

\* Every answer of the DNS.
LEMMA ResolvedGoes ==
    ASSUME IInv, NEW c \in Clients, NEW r, Good(r), NEW answer \in Answers,
           Connects(r, answer) => r.pCon, Resolved(c, r, answer),
           OnlyTheTaskHelps(r) => OnlyTheTaskHelps(client[c])
    PROVE  \E n : Goes(c, n)
<1>1. CASE Connects(r, answer)
    <2> DEFINE w == IF r.net = "none" THEN "connecting" ELSE r.net
               d == [r EXCEPT !.net = w]
               n == [d EXCEPT !.connState = "TCP_CONNECTING"]
    <2>1. w \in {"none", "connecting", "open", "closing"} /\ w # "none" /\ (r.net # "none" => w = r.net)
        BY DEF Good, MQTT_Client
    <2>2. Becomes(c, [r EXCEPT !.connState = "TCP_CONNECTING", !.net = w])
          /\ system_os_post(c) /\ UNCHANGED calls
        BY <1>1 DEF Resolved, Connects
    <2> HIDE DEF w
    <2>3. n = [r EXCEPT !.connState = "TCP_CONNECTING", !.net = w]
        BY DEF Good, MQTT_Client
    <2>4. d \in MQTT_Client /\ d.msgQueue = r.msgQueue
        BY <2>1 DEF Good, MQTT_Client
    <2>5. d.net = w /\ d.lookup = r.lookup /\ d.pCon = r.pCon /\ d.connState = r.connState
          /\ d.session = r.session /\ d.pending = r.pending
        BY DEF Good, MQTT_Client
    <2> HIDE DEF d
    <2>6. Real(d)
        BY <1>1, <2>1, <2>5 DEF Good, Real
    <2>7. Good(d)
        BY <2>4, <2>6 DEF Good
    <2>8. Good(n)
        BY <2>7, StateGood DEF ConnState, InSession
    <2>9. Becomes(c, n)
        BY <2>2, <2>3
    <2> HIDE DEF n
    <2> QED BY <2>2, <2>8, <2>9, PostType DEF Goes, IInv
<1>2. CASE answer = "none"
    <2> DEFINE n == [r EXCEPT !.connState = "TCP_RECONNECT_REQ"]
    <2>1. Good(n)
        BY StateGood DEF ConnState, InSession
    <2>2. n.connState = "TCP_RECONNECT_REQ"
        BY DEF Good, MQTT_Client
    <2>3. Becomes(c, n) /\ UNCHANGED <<task, calls>>
        BY <1>2 DEF Resolved, Connects
    <2> HIDE DEF n
    <2> QED BY <2>1, <2>2, <2>3 DEF Goes, IInv, OnlyTheTaskHelps
<1>3. CASE answer # "none" /\ ~Connects(r, answer)
    <2>1. Becomes(c, r) /\ system_os_post(c) /\ UNCHANGED calls
        BY <1>3 DEF Resolved
    <2> QED BY <2>1, PostType DEF Goes, IInv
<1> QED BY <1>1, <1>2, <1>3

LEMMA DnsGoes ==
    ASSUME IInv, NEW c \in Clients, NEW answer \in Answers,
           DnsFound(c, answer) \/ DnsFoundStale(c, answer)
    PROVE  \E n : Goes(c, n)
<1>1. Good(client[c])
    BY DEF IInv
<1>2. CASE DnsFound(c, answer)
    <2> DEFINE l == IF answer = "none" \/ Connects(client[c], answer) THEN "none" ELSE "unheard"
               r == [client[c] EXCEPT !.lookup = l]
    <2>1. client[c].lookup = "due" /\ Resolved(c, r, answer)
        BY <1>2 DEF DnsFound
    <2>2. l \in {"none", "unheard"}
        OBVIOUS
    <2> HIDE DEF l
    <2>3. r \in MQTT_Client /\ r.msgQueue = client[c].msgQueue /\ r.pCon = client[c].pCon
        BY <1>1, <2>2 DEF Good, MQTT_Client
    <2>4. /\ r.lookup # "due" /\ r.net = client[c].net /\ r.connState = client[c].connState
          /\ r.session = client[c].session /\ r.pending = client[c].pending
        BY <1>1, <2>2 DEF Good, MQTT_Client
    <2> HIDE DEF r
    <2>5. Good(r) /\ r.pCon
        BY <1>1, <2>1, <2>3, <2>4 DEF Good, Real
    <2>6. OnlyTheTaskHelps(r) => OnlyTheTaskHelps(client[c])
        BY <2>3, <2>4 DEF OnlyTheTaskHelps
    <2> QED BY <2>1, <2>5, <2>6, ResolvedGoes
<1>3. CASE DnsFoundStale(c, answer)
    <2> DEFINE r == [client[c] EXCEPT !.stale = FALSE]
    <2>1. /\ r \in MQTT_Client /\ r.msgQueue = client[c].msgQueue
          /\ SameSession(r, client[c]) /\ r.ip = client[c].ip
        BY <1>1 DEF Good, MQTT_Client, SameSession
    <2>2. Resolved(c, r, answer) /\ (Connects(client[c], answer) => client[c].pCon)
        BY <1>3 DEF DnsFoundStale
    <2> HIDE DEF r
    <2>3. Good(r) /\ (Connects(r, answer) => r.pCon)
        BY <1>1, <2>1, <2>2, SameIsReal DEF Good, SameSession, Connects
    <2> QED BY <2>1, <2>2, <2>3, SameIsReal, ResolvedGoes
<1> QED BY <1>2, <1>3

LEMMA ConnectCbGoes ==
    ASSUME IInv, NEW c \in Clients, ConnectCb(c)
    PROVE  \E n : Goes(c, n)
<1> DEFINE r == client[c]
           d == [r EXCEPT !.net = "open", !.session = "asked", !.pending = "CONNECT",
                          !.sendTimeout = SendTicks, !.connState = "MQTT_CONNECT_SENDING"]
           n == espconn_send(d)
<1>1. Good(r) /\ r.net = "connecting"
    BY DEF IInv, ConnectCb
<1>2. Becomes(c, n) /\ system_os_post(c) /\ UNCHANGED calls
    BY DEF ConnectCb
<1>3. SendTicks \in 0..SendTicks
    BY BoundsAssumption
<1> HIDE DEF r
<1>4. d \in MQTT_Client /\ d.msgQueue = r.msgQueue
    BY <1>1, <1>3 DEF Good, MQTT_Client, ConnState
<1>5. d.net = "open" /\ d.session = "asked" /\ d.pending = "CONNECT"
      /\ d.connState = "MQTT_CONNECT_SENDING" /\ d.pCon = r.pCon /\ d.lookup = r.lookup
    BY <1>1 DEF Good, MQTT_Client
<1> HIDE DEF d
<1>6. Good(d)
    BY <1>1, <1>4, <1>5 DEF Good, Real, InSession
<1>7. Good(n)
    BY <1>6, SendGood
<1> HIDE DEF n
<1> QED BY <1>2, <1>7, PostType DEF Goes, IInv

\* The connection is gone, and the state says so.
LEMMA LostGood ==
    ASSUME NEW r, Good(r), NEW s \in {"TCP_DISCONNECTED", "TCP_RECONNECT_REQ"}
    PROVE  Good([Lost(r) EXCEPT !.connState = s])
<1> DEFINE n == [Lost(r) EXCEPT !.connState = s]
<1>1. n = [r EXCEPT !.net = "none", !.inflight = FALSE, !.session = "none", !.connState = s]
    BY DEF Lost, Good, MQTT_Client
<1> HIDE DEF n
<1>2. n \in MQTT_Client
    BY ZenonT(60), <1>1 DEF Good, MQTT_Client, ConnState
<1>3. n.net = "none" /\ n.lookup = r.lookup /\ n.pCon = r.pCon /\ n.connState = s
      /\ n.msgQueue = r.msgQueue
    BY <1>1 DEF Good, MQTT_Client
<1>4. Real(n)
    BY <1>3 DEF Good, Real, InSession
<1> QED BY <1>2, <1>3, <1>4 DEF Good, n

LEMMA DisconCbGoes ==
    ASSUME IInv, NEW c \in Clients, NEW u \in Reaction, DisconCb(c, u)
    PROVE  \E n : Goes(c, n)
<1> DEFINE r == client[c]
           s == IF r.connState = "TCP_DISCONNECTING" THEN "TCP_DISCONNECTED"
                                                     ELSE "TCP_RECONNECT_REQ"
           d == [Lost(r) EXCEPT !.connState = s]
           n(dns) == Do(d, dns, u)
<1>1. Good(r) /\ Lost(r).connState = r.connState
    BY DEF IInv, Good, MQTT_Client, Lost
<1>2. [Lost(r) EXCEPT !.connState = IF @ = "TCP_DISCONNECTING" THEN "TCP_DISCONNECTED"
                                                              ELSE "TCP_RECONNECT_REQ"] = d
    BY <1>1
<1>3. PICK dns \in Dns(c, u) : Becomes(c, n(dns)) /\ system_os_post(c) /\ Reacts(c, u)
    BY <1>2 DEF DisconCb
<1>4. s \in {"TCP_DISCONNECTED", "TCP_RECONNECT_REQ"}
    OBVIOUS
<1> HIDE DEF r, s
<1>5. Good(d)
    BY <1>1, <1>4, LostGood
<1> HIDE DEF d
<1>6. Good(n(dns))
    BY <1>3, <1>5, DnsType, DoGood, ReactsType
<1> HIDE DEF n
<1> QED BY <1>3, <1>6, PostType, ReactsType DEF Goes

LEMMA ReconCbGoes ==
    ASSUME IInv, NEW c \in Clients, ReconCb(c)
    PROVE  \E n : Goes(c, n)
<1> DEFINE n == [Lost(client[c]) EXCEPT !.connState = "TCP_RECONNECT_REQ"]
<1>1. Good(n)
    BY LostGood DEF IInv
<1>2. Becomes(c, n) /\ system_os_post(c) /\ UNCHANGED calls
    BY DEF ReconCb
<1> HIDE DEF n
<1> QED BY <1>1, <1>2, PostType DEF Goes, IInv

LEMMA SentCbGoes ==
    ASSUME IInv, NEW c \in Clients, NEW u \in Reaction, SentCb(c, u)
    PROVE  \E n : Goes(c, n)
<1> DEFINE r == [client[c] EXCEPT !.inflight = FALSE, !.sendTimeout = 0, !.keepAliveTick = 0]
<1>1. Good(client[c])
    BY DEF IInv
<1>2. 0 \in 0..SendTicks
    BY BoundsAssumption
<1>3. r \in MQTT_Client /\ SameSession(r, client[c]) /\ r.msgQueue = client[c].msgQueue
    BY <1>1, <1>2 DEF Good, MQTT_Client, SameSession
<1>4. \/ Reacts(c, u) /\ \E dns \in Dns(c, u) : Becomes(c, Do(r, dns, u))
      \/ Becomes(c, r) /\ UNCHANGED calls
    BY DEF SentCb
<1>5. system_os_post(c)
    BY DEF SentCb
<1> HIDE DEF r
<1>6. Good(r)
    BY <1>1, <1>3, SameIsReal DEF Good
<1>7. CASE Reacts(c, u) /\ \E dns \in Dns(c, u) : Becomes(c, Do(r, dns, u))
    <2> PICK dns \in Dns(c, u) : Becomes(c, Do(r, dns, u))
        BY <1>7
    <2> DEFINE n == Do(r, dns, u)
    <2>1. Good(n)
        BY <1>6, <1>7, DnsType, DoGood, ReactsType
    <2> HIDE DEF n
    <2>2. Becomes(c, n)
        BY DEF n
    <2> QED BY <1>5, <1>7, <2>1, <2>2, PostType, ReactsType DEF Goes
<1>8. CASE Becomes(c, r) /\ UNCHANGED calls
    BY <1>5, <1>6, <1>8, PostType DEF Goes, IInv
<1> QED BY <1>4, <1>7, <1>8
\* A packet is a CONNACK, or has an answer, or nothing happens.
LEMMA PacketGood ==
    ASSUME NEW r, Good(r), NEW dns \in DnsResult, NEW p \in PacketType, NEW u \in Reaction
    PROVE  Good(Packet(r, dns, p, u))
<1>1. u \in Call \cup Reaction
    OBVIOUS
<1>2. CASE r.connState = "MQTT_CONNECT_SENDING" /\ p \in {"ACCEPTED", "REFUSED"}
    <2>1. Packet(r, dns, p, u) = Connack(r, dns, p, u)
        BY <1>2 DEF Packet, InSession
    <2>2. CASE p = "ACCEPTED" /\ r.pending = "CONNECT"
        <3> DEFINE d == [r EXCEPT !.connState = "MQTT_DATA", !.session = "accepted"]
        <3>1. Connack(r, dns, p, u) = Do(d, dns, u)
            BY <2>2 DEF Connack
        <3>2. d \in MQTT_Client /\ d.msgQueue = r.msgQueue
            BY DEF Good, MQTT_Client, ConnState
        <3>3. d.net = r.net /\ d.lookup = r.lookup /\ d.pCon = r.pCon
              /\ d.connState = "MQTT_DATA" /\ d.session = "accepted"
            BY DEF Good, MQTT_Client
        <3> HIDE DEF d
        <3>4. Good(d)
            BY <1>2, <3>2, <3>3 DEF Good, Real, InSession
        <3> QED BY <1>1, <2>1, <3>1, <3>4, DoGood
    <2>3. CASE ~(p = "ACCEPTED" /\ r.pending = "CONNECT")
        BY <2>1, <2>3, DisconnectGood DEF Connack
    <2> QED BY <2>2, <2>3
<1>3. CASE r.connState \in InSession
    <2> DEFINE q == Puts(r.msgQueue, Response(p))
               d == [r EXCEPT !.msgQueue = q]
    <2>1. Response(p) \in Seq(QueuedMsg)
        <3>1. \A t \in Responses : <<Msg(t)>> \in Seq(QueuedMsg)
            BY DEF Msg, QueuedMsg
        <3>2. <<>> \in Seq(QueuedMsg)
            OBVIOUS
        <3>3. Response(p) = <<>> \/ \E t \in Responses : Response(p) = <<Msg(t)>>
            BY DEF Response, Responses
        <3> QED BY <3>1, <3>2, <3>3
    <2>2. q \in Queue
        BY <2>1, PutsType DEF Good
    <2>3. Packet(r, dns, p, u) = IF p \in Publishes THEN Do(d, dns, u) ELSE d
        BY <1>3 DEF Packet, InSession
    <2> HIDE DEF q
    <2>4. d \in MQTT_Client /\ d.msgQueue = q /\ SameSession(d, r)
        BY <2>2 DEF Good, MQTT_Client, Queue, SameSession
    <2> HIDE DEF d
    <2>5. Good(d)
        BY <2>2, <2>4, SameIsReal DEF Good
    <2> QED BY <1>1, <2>3, <2>5, DoGood
<1>4. CASE /\ ~(r.connState = "MQTT_CONNECT_SENDING" /\ p \in {"ACCEPTED", "REFUSED"})
           /\ r.connState \notin InSession
    BY <1>4 DEF Packet
<1> QED BY <1>2, <1>3, <1>4

LEMMA RecvGoes ==
    ASSUME IInv, NEW c \in Clients, NEW u \in Reaction, NEW ps \in Segments, Recv(c, ps, u)
    PROVE  \E n : Goes(c, n)
<1> DEFINE r == client[c]
           first(dns) == Packet(r, dns, ps[1], u)
           second(dns) == Packet(first(dns), dns, ps[2], u)
           more == Len(ps) = 2 /\ ps[1] \in Publishes /\ r.connState \in InSession
           n(dns) == IF more THEN second(dns) ELSE first(dns)
<1>1. PICK dns \in Dns(c, u) : Becomes(c, n(dns)) /\ system_os_post(c) /\ Reacts(c, u)
    BY DEF Recv
<1>2. ps[1] \in PacketType /\ (Len(ps) = 2 => ps[2] \in PacketType)
    BY InputsAssumption DEF Segments
<1>3. Good(first(dns)) /\ dns \in DnsResult
    BY <1>2, DnsType, PacketGood DEF IInv
<1> HIDE DEF first
<1>4. more => Good(second(dns))
    BY <1>2, <1>3, PacketGood
<1> HIDE DEF second
<1>5. Good(n(dns))
    BY <1>3, <1>4
<1> HIDE DEF n
<1> QED BY <1>1, <1>5, PostType, ReactsType DEF Goes

LEMMA KeepAliveGood ==
    ASSUME NEW r, Good(r), r.connState = "MQTT_KEEPALIVE_SEND"
    PROVE  Good(mqtt_send_keepalive(r))
<1> DEFINE e == espconn_send(r)
           d == [e EXCEPT !.pending = "PINGREQ", !.sendTimeout = SendTicks]
           n == mqtt_send_keepalive(r)
<1>1. Good(e) /\ SameSession(e, r)
    BY SendGood
<1>2. \/ n = [d EXCEPT !.keepAliveTick = 0, !.connState = "MQTT_DATA"]
      \/ n = [d EXCEPT !.connState = "TCP_RECONNECT_DISCONNECTING"]
    BY DEF mqtt_send_keepalive
<1> HIDE DEF e
<1>3. SendTicks \in 0..SendTicks /\ 0 \in Nat
    BY BoundsAssumption
<1>4. d \in MQTT_Client
    BY <1>1, <1>3 DEF Good, MQTT_Client, Requests
<1>5. d.net = r.net /\ d.lookup = r.lookup /\ d.pCon = r.pCon /\ d.session = r.session
      /\ d.msgQueue = e.msgQueue
    BY <1>1 DEF Good, MQTT_Client, SameSession
<1> HIDE DEF d, n
<1>6. n \in MQTT_Client
    BY ZenonT(60), <1>2, <1>3, <1>4 DEF MQTT_Client, ConnState
<1>7. n.net = r.net /\ n.lookup = r.lookup /\ n.pCon = r.pCon /\ n.session = r.session
      /\ n.msgQueue = e.msgQueue /\ n.connState \in {"MQTT_DATA", "TCP_RECONNECT_DISCONNECTING"}
    BY <1>2, <1>4, <1>5 DEF MQTT_Client
<1>8. Real(n)
    BY <1>7 DEF Good, Real, InSession
<1> QED BY <1>1, <1>6, <1>7, <1>8 DEF Good, n

\* What is sent is whole: a torn message has been skipped.
LEMMA DequeueGood ==
    ASSUME NEW r, Good(r), r.connState = "MQTT_DATA"
    PROVE  Good(Dequeue(r)) /\ Dequeue(r).connState = "MQTT_DATA"
<1> DEFINE q == Readable(r.msgQueue)
<1>1. q \in Queue /\ (q # <<>> => Tail(q) \in Queue /\ Head(q) \in QueuedMsg)
    BY ReadableType DEF Good
<1>2. CASE q = <<>>
    <2> DEFINE n == [r EXCEPT !.msgQueue = <<>>]
    <2>1. Dequeue(r) = n
        BY <1>2 DEF Dequeue
    <2>2. n \in MQTT_Client /\ n.msgQueue = <<>> /\ SameSession(n, r)
        BY <1>1, <1>2 DEF Good, MQTT_Client, Queue, SameSession
    <2> HIDE DEF n
    <2> QED BY <1>1, <1>2, <2>1, <2>2, SameIsReal DEF Good, SameSession
<1>3. CASE q # <<>>
    <2> DEFINE t == Tail(q)
               p == Head(q).type
               d == [r EXCEPT !.msgQueue = t, !.pending = p,
                              !.sendTimeout = SendTicks, !.keepAliveTick = 0]
    <2>1. Dequeue(r) = espconn_send(d)
        BY <1>3 DEF Dequeue
    <2>2. t \in Queue /\ p \in Requests \cup Responses
        BY <1>1, <1>3 DEF QueuedMsg
    <2>3. SendTicks \in 0..SendTicks /\ 0 \in Nat
        BY BoundsAssumption
    <2> HIDE DEF q, t, p
    <2>4. d \in MQTT_Client
        BY <2>2, <2>3 DEF Good, MQTT_Client, Queue
    <2>5. d.net = r.net /\ d.lookup = r.lookup /\ d.pCon = r.pCon /\ d.session = r.session
          /\ d.msgQueue = t /\ d.connState = "MQTT_DATA"
        BY DEF Good, MQTT_Client
    <2> HIDE DEF d
    <2>6. Good(d)
        BY <2>2, <2>4, <2>5 DEF Good, Real, InSession
    <2> QED BY <2>1, <2>5, <2>6, SendGood DEF SameSession
<1> QED BY <1>2, <1>3

\* What the task has served needs it no more, or has posted it anew.
LEMMA ServedGood ==
    ASSUME NEW r, Good(r), NEW dns \in DnsResult
    PROVE  /\ Good(Served(r, dns))
           /\ r.connState # "MQTT_KEEPALIVE_SEND" => ~OnlyTheTaskHelps(Served(r, dns))
<1> DEFINE n == Served(r, dns)
<1>1. CASE r.connState = "TCP_RECONNECT"
    <2>1. n = MQTT_Connect(r, dns)
        BY <1>1 DEF Served, Dequeues
    <2> QED BY <2>1, ConnectGood
<1>2. CASE r.connState \in {"TCP_DISCONNECTING", "TCP_RECONNECT_DISCONNECTING"}
    <2>1. n = espconn_disconnect(r)
        BY <1>2 DEF Served, Dequeues
    <2>2. Good(n) /\ n.connState = r.connState /\ n.net # "open"
        BY <2>1, DisconnectGood
    <2> HIDE DEF n
    <2>3. ~OnlyTheTaskHelps(n)
        BY <1>2, <2>2 DEF OnlyTheTaskHelps
    <2> QED BY <2>2, <2>3 DEF n
<1>3. CASE r.connState = "TCP_DISCONNECTED"
    <2>1. n = mqtt_tcpclient_delete(r)
        BY <1>3 DEF Served, Dequeues
    <2>2. /\ n \in MQTT_Client /\ n.pCon = FALSE /\ n.net = "none" /\ n.lookup # "due"
          /\ n.connState = "TCP_DISCONNECTED" /\ n.msgQueue = r.msgQueue
        BY <1>3, <2>1, TcpDeleteType DEF Good
    <2> HIDE DEF n
    <2>3. Good(n) /\ ~OnlyTheTaskHelps(n)
        BY <2>2 DEF Good, Real, InSession, OnlyTheTaskHelps
    <2> QED BY <2>3 DEF n
<1>4. CASE r.connState = "MQTT_DELETED"
    <2>1. n = mqtt_client_delete(r)
        BY <1>4 DEF Served, Dequeues
    <2> QED BY <2>1, ClientDeleteGood
<1>5. CASE r.connState = "MQTT_KEEPALIVE_SEND"
    <2>1. n = mqtt_send_keepalive(r)
        BY <1>5 DEF Served, Dequeues
    <2> QED BY <1>5, <2>1, KeepAliveGood
<1>6. CASE Dequeues(r)
    <2>1. r.connState = "MQTT_DATA"
        BY <1>6 DEF Dequeues
    <2>2. n = Dequeue(r)
        BY <1>6, <2>1 DEF Served
    <2>3. Good(n) /\ n.connState = "MQTT_DATA"
        BY <2>1, <2>2, DequeueGood
    <2> HIDE DEF n
    <2>4. ~OnlyTheTaskHelps(n)
        BY <2>3 DEF OnlyTheTaskHelps
    <2> QED BY <2>3, <2>4 DEF n
<1>7. CASE /\ r.connState \notin {"TCP_RECONNECT", "TCP_DISCONNECTING", "TCP_DISCONNECTED",
                    "TCP_RECONNECT_DISCONNECTING", "MQTT_DELETED", "MQTT_KEEPALIVE_SEND"}
           /\ ~Dequeues(r)
    <2>1. n = r
        BY <1>7 DEF Served
    <2> QED BY <1>7, <2>1 DEF OnlyTheTaskHelps
<1> QED BY <1>1, <1>2, <1>3, <1>4, <1>5, <1>6, <1>7

LEMMA TaskGoes ==
    ASSUME IInv, NEW c \in Clients, MQTT_Task(c)
    PROVE  \E n : Goes(c, n)
<1> PICK dns \in Dns(c, "connect") : Becomes(c, Served(client[c], dns))
    BY DEF MQTT_Task
<1> DEFINE n == Served(client[c], dns)
<1>1. Good(n) /\ (client[c].connState # "MQTT_KEEPALIVE_SEND" => ~OnlyTheTaskHelps(n))
    BY DnsType, ServedGood DEF IInv
<1>2. Becomes(c, n)
    OBVIOUS
<1>3. UNCHANGED calls
      /\ task' = IF client[c].connState = "MQTT_KEEPALIVE_SEND" THEN c ELSE NULL
    BY DEF MQTT_Task
<1> HIDE DEF n
<1> QED BY <1>1, <1>2, <1>3, NamesAssumption DEF Goes, IInv

\* A step of the network or the timer, a call or a run of the task, other than a fault.
LEMMA NextGoes ==
    ASSUME IInv, Next
    PROVE  \/ \E c \in Clients, n \in MQTT_Client : Goes(c, n)
           \/ \E c \in Clients : DnsFoundFault(c)
<1>1. PICK c \in Clients : \/ \E u \in Call : Sketch(c, u)
                          \/ Timer(c)
                          \/ Network(c)
                          \/ MQTT_Task(c)
    BY DEF Next
<1>2. (\E n : Goes(c, n)) \/ DnsFoundFault(c)
    <2>1. CASE \E u \in Call : Sketch(c, u)
        BY <2>1, SketchGoes
    <2>2. CASE Timer(c)
        BY <2>2, TimerCountsGoes, TimerKeepAliveGoes, TimerReconnectGoes DEF Timer
    <2>3. CASE Network(c)
        BY <2>3, DnsGoes, ConnectCbGoes, ReconCbGoes, DisconCbGoes, SentCbGoes, RecvGoes DEF Network
    <2>4. CASE MQTT_Task(c)
        BY <2>4, TaskGoes
    <2> QED BY <1>1, <2>1, <2>2, <2>3, <2>4
<1> QED BY <1>2 DEF Goes, Good

\* A fault of the processor starts the clients anew.
LEMMA FaultNext ==
    ASSUME IInv, NEW c \in Clients, DnsFoundFault(c)
    PROVE  IInv' /\ \A d \in Clients : ~OnlyTheTaskHelps(client'[d])
<1>1. client' = [d \in Clients |-> Initialised] /\ task' \in Clients \cup {NULL} /\ calls' = calls
    BY DEF DnsFoundFault
<1>2. \A d \in Clients : client'[d] = Initialised
    BY <1>1
<1>3. \A d \in Clients : Good(client'[d]) /\ ~OnlyTheTaskHelps(client'[d])
    BY <1>2, InitialisedGood
<1>4. client' \in [Clients -> MQTT_Client]
    BY <1>1, InitialisedGood DEF Good
<1> QED BY <1>1, <1>3, <1>4 DEF IInv, Good, Real, InSession, OnlyTheTaskHelps

LEMMA InitInv == Init => IInv
<1> SUFFICES ASSUME Init PROVE IInv
    OBVIOUS
<1>1. \A c \in Clients : client[c] = Initialised
    BY DEF Init
<1>2. client \in [Clients -> MQTT_Client]
    BY InitialisedGood DEF Init, Good
<1> QED BY <1>1, <1>2, InitialisedGood, BoundsAssumption DEF Init, IInv

LEMMA GoesInv ==
    ASSUME IInv, NEW c \in Clients, NEW n \in MQTT_Client, Goes(c, n)
    PROVE  IInv'
<1>1. client' = [client EXCEPT ![c] = n]
    BY DEF Goes, Becomes
<1>2. \A d \in Clients : client'[d] = IF d = c THEN n ELSE client[d]
    BY <1>1 DEF IInv
<1>3. \A d \in Clients : Good(client'[d])
    BY <1>2 DEF IInv, Goes
<1>4. client' \in [Clients -> MQTT_Client]
    BY <1>1 DEF IInv
<1> QED BY <1>3, <1>4 DEF IInv, Goes, Good, Real, InSession

LEMMA NextInv == IInv /\ [Next]_vars => IInv'
<1> SUFFICES ASSUME IInv, [Next]_vars PROVE IInv'
    OBVIOUS
<1>1. CASE Next
    BY <1>1, NextGoes, GoesInv, FaultNext
<1>2. CASE UNCHANGED vars
    BY <1>2 DEF vars, IInv, Good, Real, InSession
<1> QED BY <1>1, <1>2

LEMMA InvInit == Spec => []IInv
BY InitInv, NextInv, PTL DEF Spec

\* Every callback, timer, task step and call keeps the types of the clients' records: a queue
\* that overflows, a message torn in it and a fault of the processor included.
THEOREM TypeCorrect == Spec => []TypeOK
<1>1. IInv => TypeOK
    BY DEF IInv, TypeOK
<1> QED BY <1>1, InvInit, PTL

\* A client takes itself to be in a session only on the connection whose broker has accepted
\* its CONNECT, whatever callbacks, calls and late answers come, in every order.
THEOREM SessionCorrect == Spec => []SessionIsReal
<1>1. IInv => SessionIsReal
    BY DEF IInv, Good, Real, SessionIsReal
<1> QED BY <1>1, InvInit, PTL

\* A client that has the task's queue for itself never waits for a run that nobody has posted.
THEOREM WakeupCorrect ==
    (\A a, b \in Clients : a = b) => (Spec => []NoLostWakeup)
<1> SUFFICES ASSUME \A a, b \in Clients : a = b PROVE Spec => []NoLostWakeup
    OBVIOUS
<1>1. Init => NoLostWakeup
    BY InitialisedGood DEF Init, NoLostWakeup
<1>2. IInv /\ NoLostWakeup /\ [Next]_vars => NoLostWakeup'
    <2> SUFFICES ASSUME IInv, NoLostWakeup, [Next]_vars,
                        NEW d \in Clients, OnlyTheTaskHelps(client'[d])
                 PROVE  task' # NULL
        BY DEF NoLostWakeup, OnlyTheTaskHelps
    <2>1. CASE UNCHANGED vars
        BY <2>1 DEF vars, NoLostWakeup
    <2>2. CASE Next
        <3>1. ~ \E c \in Clients : DnsFoundFault(c)
            BY FaultNext
        <3>2. PICK c \in Clients, n \in MQTT_Client : Goes(c, n)
            BY <2>2, <3>1, NextGoes
        <3>3. client'[c] = n /\ c = d
            BY <3>2 DEF Goes, Becomes, IInv
        <3> QED BY <3>2, <3>3 DEF Goes, NoLostWakeup
    <2> QED BY <2>1, <2>2
<1> QED BY <1>1, <1>2, InvInit, PTL DEF Spec
=============================================================================
