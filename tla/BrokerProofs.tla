---------------------------- MODULE BrokerProofs ----------------------------
(***************************************************************************)
(* Theorems about the broker, for any number of connections, slots, topics *)
(* and messages: its types, the list of clients and the subscriptions;     *)
(* then what stands in the queues of its clients, what is retained, and    *)
(* who is called what; and about its steps, whom the last will of a client *)
(* reaches and whose will it is, what an UNSUBSCRIBE leaves and what a     *)
(* SUBSCRIBE is answered with.                                             *)
(***************************************************************************)
EXTENDS Broker, FiniteSetTheorems, WellFoundedInduction, TLAPS

-----------------------------------------------------------------------------
(* Sets of slots *)

\* Every non-empty set of natural numbers has a least element.
LEMMA LeastElement ==
    ASSUME NEW S \in SUBSET Nat, S # {}
    PROVE  \E i \in S : \A j \in S : i <= j
<1>1. PICK i \in S : \A j \in S : ~(<<j, i>> \in OpToRel(<, Nat))
  BY NatLessThanWellFounded, WFMin, Zenon
<1>2. ASSUME NEW j \in S PROVE i <= j
  <2>1. <<j, i>> \in Nat \X Nat  OBVIOUS
  <2>2. ~(<<j, i>>[1] < <<j, i>>[2])  BY <1>1, <2>1, Zenon DEF OpToRel
  <2>3. QED  BY <2>2
<1>3. QED  BY <1>2

\* The walk that takes the first entry of a kind ends at one.
LEMMA FirstOfMember ==
    ASSUME NEW n \in Nat, NEW S \in SUBSET (1 .. n), S # {}
    PROVE  FirstOf(S) \in S
<1>1. S \in SUBSET Nat  OBVIOUS
<1>2. QED  BY <1>1, LeastElement DEF FirstOf

\* A set of slots is finite, and so are its beginnings.
LEMMA SlotSetsFinite ==
    ASSUME NEW n \in Nat, NEW S \in SUBSET (1 .. n), NEW i \in Int
    PROVE  /\ IsFiniteSet(S) /\ Cardinality(S) \in Nat
           /\ IsFiniteSet({j \in S : j <= i}) /\ Rank(S, i) \in Nat
<1>1. IsFiniteSet(1 .. n)  BY FS_Interval
<1>2. IsFiniteSet(S) /\ IsFiniteSet({j \in S : j <= i})  BY <1>1, FS_Subset
<1>3. QED  BY <1>2, FS_CardinalityType DEF Rank

\* Every place up to the number of elements is somebody's place.
LEMMA NthMember ==
    ASSUME NEW n \in Nat, NEW S \in SUBSET (1 .. n), NEW k \in 1 .. Cardinality(S)
    PROVE  Nth(S, k) \in S
<1>1. \A j \in S : j \in Int /\ 1 <= j /\ j <= n  OBVIOUS
<1>2. \A i \in Int : Rank(S, i) \in Nat /\ IsFiniteSet({j \in S : j <= i})
  BY SlotSetsFinite
<1>3. Rank(S, n) = Cardinality(S)
  <2>1. \A j \in S : j <= n  BY <1>1
  <2>2. {j \in S : j <= n} = S  BY <2>1, Zenon
  <2>3. QED  BY <2>2 DEF Rank
<1>4. Rank(S, 0) = 0
  <2>1. \A j \in S : ~(j <= 0)  BY <1>1
  <2>2. {j \in S : j <= 0} = {}  BY <2>1, Zenon
  <2>3. QED  BY <2>2, FS_EmptySet DEF Rank
<1>5. PICK i \in Nat : Rank(S, i) >= k /\ \A j \in Nat : Rank(S, j) >= k => i <= j
  <2> DEFINE Reached == {i \in Nat : Rank(S, i) >= k}
  <2>1. Cardinality(S) \in Nat  BY 0 \in Int, SlotSetsFinite
  <2>2. Rank(S, n) >= k  BY <1>3, <2>1
  <2>3. n \in Reached  BY <2>2, Zenon
  <2>4. Reached \in SUBSET Nat /\ Reached # {}  BY <2>3, Zenon
  <2>5. \E i \in Reached : \A j \in Reached : i <= j  BY <2>4, LeastElement
  <2>6. QED  BY <2>5, Zenon
<1>6. i > 0 /\ i - 1 \in Nat /\ ~(Rank(S, i - 1) >= k) /\ ~(i <= i - 1)
  <2>1. i # 0  BY <1>4, <1>5
  <2>2. QED  BY <1>5, <2>1
<1>7. i \in S
  <2>1. SUFFICES ASSUME i \notin S PROVE FALSE  OBVIOUS
  <2>2. \A j \in S : j <= i <=> j <= i - 1
    <3>1. ASSUME NEW j \in S PROVE j # i  BY <2>1
    <3>2. QED  BY <1>1, <3>1
  <2>3. {j \in S : j <= i} = {j \in S : j <= i - 1}  BY <2>2, Zenon
  <2>4. Rank(S, i) = Rank(S, i - 1)  BY <2>3 DEF Rank
  <2>5. QED  BY <2>4, <1>5, <1>6
<1>8. Rank(S, i) = k
  <2>1. \A j \in S : j <= i <=> j <= i - 1 \/ j = i  BY <1>1
  <2>2. /\ {j \in S : j <= i} = {j \in S : j <= i - 1} \cup {i}
        /\ i \notin {j \in S : j <= i - 1}
    BY <1>6, <1>7, <2>1, Zenon
  <2>3. i - 1 \in Int  BY <1>6
  <2>4. IsFiniteSet({j \in S : j <= i - 1}) /\ Rank(S, i - 1) \in Nat
    BY <1>2, <2>3, Zenon
  <2>5. Cardinality({j \in S : j <= i - 1} \cup {i}) = Cardinality({j \in S : j <= i - 1}) + 1
    BY <2>2, <2>4, FS_AddElement, Zenon
  <2>6. Rank(S, i) = Rank(S, i - 1) + 1
    BY <2>2, <2>5 DEF Rank
  <2>7. QED  BY <2>4, <2>6, <1>5, <1>6
<1>9. QED  BY <1>7, <1>8, Zenon DEF Nth

-----------------------------------------------------------------------------
(* Queues *)

\* There is room for a natural number of messages.
LEMMA RoomType ==
    ASSUME NEW M, NEW q \in Seq(M)
    PROVE  Room(q) \in Nat
<1>1. Len(q) \in Nat /\ DOMAIN q = 1 .. Len(q)  OBVIOUS
<1>2. Whole(q) \in Nat
  <2> DEFINE whole == {i \in DOMAIN q : q[i] # TORN}
  <2>1. whole \in SUBSET (1 .. Len(q))  BY <1>1
  <2>2. Cardinality(whole) \in Nat  BY <1>1, <2>1, 0 \in Int, SlotSetsFinite
  <2>3. QED  BY <2>2 DEF Whole
<1>3. QED  BY <1>2, QueueCapAssumption DEF Room

LEMMA OneElement ==
    ASSUME NEW M, NEW x \in M
    PROVE  <<x>> \in Seq(M)
OBVIOUS

\* QUEUE_Puts leaves a queue of messages, torn ones included.
LEMMA PutsType ==
    ASSUME NEW q \in Seq(Message), NEW ms \in Seq(Message)
    PROVE  Puts(q, ms) \in Seq(Message)
<1>1. TORN \in Message  BY DEF TORN, Message
<1>2. Room(q) \in Nat  BY RoomType
<1>3. CASE Len(ms) <= Room(q)
  BY <1>3 DEF Puts
<1>4. CASE ~(Len(ms) <= Room(q))
  <2> DEFINE fitting == q \o SubSeq(ms, 1, Room(q))
  <2>1. SubSeq(ms, 1, Room(q)) \in Seq(Message)  BY <1>2, <1>4
  <2>2. fitting \in Seq(Message)  BY <2>1
  <2>3. Append(fitting, TORN) \in Seq(Message)  BY <2>2, <1>1
  <2>4. QED  BY <1>4, <2>2, <2>3 DEF Puts
<1>5. QED  BY <1>3, <1>4

\* So does QUEUE_Gets, with or without a torn message at the head.
LEMMA ReadableType ==
    ASSUME NEW q \in Seq(Message)
    PROVE  /\ Readable(q) \in Seq(Message)
           /\ Readable(q) # <<>> => Tail(Readable(q)) \in Seq(Message)
<1>1. Readable(q) \in Seq(Message)  BY DEF Readable
<1>2. QED  BY <1>1

-----------------------------------------------------------------------------
(* Messages *)

LEMMA PublishMsgType ==
    ASSUME NEW t \in Topic, NEW d \in Payload, NEW r \in BOOLEAN
    PROVE  PublishMsg(t, d, r) \in Message
BY DEF PublishMsg, Message

\* The parts of what is stored of a will.
LEMMA StoredWillType ==
    /\ \A w \in StoredWill : /\ w.topic \in Topic /\ w.retain \in BOOLEAN
                             /\ w.data = NULL \/ w.data \in Payload
    /\ \A w \in SentWill : w.data \in Payload /\ w.data # NULL
    /\ SentWill \subseteq StoredWill /\ NoWill \notin StoredWill
<1>1. \A w \in Wills : w.topic \in Topic /\ w.retain \in BOOLEAN /\ w.data \in Payload
  BY InputsAssumption
<1>2. NULL \notin Payload /\ NULL \notin Topic /\ Empty \in Payload
  BY NamesAssumption, InputsAssumption
<1>3. \A w \in WholeWill : w.topic \in Topic /\ w.retain \in BOOLEAN /\ w.data \in Payload
  BY <1>1 DEF WholeWill
<1>4. \A w \in TopicOnly : w.topic \in Topic /\ w.retain \in BOOLEAN /\ w.data \in Payload
  <2>1. ASSUME NEW w \in Wills
        PROVE  LET v == [w EXCEPT !.data = Empty]
               IN  v.topic \in Topic /\ v.retain \in BOOLEAN /\ v.data \in Payload
    <3>1. w \in [topic : Topic, data : Payload, retain : BOOLEAN]  BY InputsAssumption
    <3>2. QED  BY <1>2, <3>1
  <2>2. QED  BY <2>1 DEF TopicOnly
<1>5. \A w \in NoBody : w.topic \in Topic /\ w.retain \in BOOLEAN
                        /\ (w.data = NULL \/ w.data \in Payload)
  <2>1. ASSUME NEW w \in WholeWill
        PROVE  LET v == [w EXCEPT !.data = IF @ = Empty THEN Empty ELSE NULL]
               IN  /\ v.topic \in Topic /\ v.retain \in BOOLEAN
                   /\ v.data = NULL \/ v.data \in Payload
    <3>1. w \in [topic : Topic, data : Payload, retain : BOOLEAN]
      BY InputsAssumption DEF WholeWill
    <3>2. QED  BY <1>2, <3>1
  <2>2. QED  BY <2>1 DEF NoBody
<1>6. NoWill.topic \notin Topic  BY <1>2 DEF NoWill
<1>7. QED  BY <1>2, <1>3, <1>4, <1>5, <1>6 DEF StoredWill, SentWill

LEMMA WholeBody ==
    ASSUME NEW w \in StoredWill, w.data # NULL
    PROVE  w.topic \in Topic /\ w.data \in Payload
<1>1. w.topic \in Topic /\ (w.data = NULL \/ w.data \in Payload)  BY StoredWillType, Zenon
<1>2. QED  BY <1>1

\* Each kind of CONNECT carries some of what can be stored.
LEMMA CarriedWills ==
    /\ WholeWill \cup {NoWill} \subseteq StoredWill \cup {NoWill}
    /\ WholeWill \cup NoBody \cup {NoWill} \subseteq StoredWill \cup {NoWill}
    /\ SentWill \cup {NoWill} \subseteq StoredWill \cup {NoWill}
BY DEF StoredWill, SentWill

LEMMA ReplyTypes ==
    /\ Reply \in Message
    /\ \A ok \in BOOLEAN : Connack(ok) \in Message
BY DEF Reply, Connack, Message

\* What find_topic queues for one client: some number of copies.
LEMMA CopiesType ==
    ASSUME NEW topics, NEW d, NEW msg \in Message
    PROVE  Copies(topics, d, msg) \in Seq(Message)
<1> DEFINE S == {j \in Matching(topics, msg.topic) : topics[j].owner = d}
<1>1. S \in SUBSET (1 .. MaxSubs)  BY DEF Matching, Slots
<1>2. Cardinality(S) \in Nat  BY <1>1, 0 \in Int, BoundsAssumption, SlotSetsFinite
<1> HIDE DEF S
<1>3. [i \in 1 .. Cardinality(S) |-> msg] \in Seq(Message)  BY <1>2
<1>4. QED  BY <1>3 DEF Copies, S

\* An entry with a topic is not the free one.
LEMMA FullEntry ==
    ASSUME NEW e \in RetainedEntry, e.topic \in Topic
    PROVE  e.data \in Payload
<1>1. CASE e = FreeRetained
  BY <1>1, InputsAssumption DEF FreeRetained
<1>2. CASE e # FreeRetained
  BY <1>2 DEF RetainedEntry
<1>3. QED  BY <1>1, <1>2

\* What a SUBSCRIBE finds in the retained list.
LEMMA RetainedForType ==
    ASSUME NEW retained \in [RetainedSlots -> RetainedEntry], NEW f
    PROVE  RetainedFor(retained, f) \in Seq(Message)
<1> DEFINE S == RetainedMatching(retained, f)
<1>1. S \in SUBSET (1 .. MaxRetained)  BY DEF RetainedMatching, RetainedSlots
<1>2. Cardinality(S) \in Nat  BY <1>1, 0 \in Int, BoundsAssumption, SlotSetsFinite
<1>3. ASSUME NEW k \in 1 .. Cardinality(S)
      PROVE  RetainedMsg(retained[Nth(S, k)]) \in Message
  <2>1. Nth(S, k) \in S  BY <1>1, BoundsAssumption, NthMember
  <2>2. /\ retained[Nth(S, k)] \in RetainedEntry
        /\ <<f, retained[Nth(S, k)].topic>> \in Match
    BY <2>1 DEF RetainedMatching
  <2>3. retained[Nth(S, k)].topic \in Topic  BY <2>2, InputsAssumption
  <2>4. retained[Nth(S, k)].data \in Payload  BY <2>2, <2>3, FullEntry
  <2>5. QED  BY <2>3, <2>4, PublishMsgType DEF RetainedMsg
<1> DEFINE msgs == [k \in 1 .. Cardinality(S) |-> RetainedMsg(retained[Nth(S, k)])]
<1>4. RetainedFor(retained, f) = msgs  BY DEF RetainedFor
<1>5. msgs \in [1 .. Cardinality(S) -> Message]  BY <1>3, Zenon
<1> HIDE DEF S, msgs
<1>6. msgs \in Seq(Message)  BY <1>2, <1>5
<1>7. QED  BY <1>4, <1>6

-----------------------------------------------------------------------------
(* The memory of the broker, as the functions of the code pass it on *)

Mem ==
    [client : [Conn -> ClientCon], list : Seq(Conn), topics : [Slots -> TopicEntry],
     retained : [RetainedSlots -> RetainedEntry], task : Conn \cup {dummy_clientcon, NULL},
     dummy : Conn \cup {NULL}, reverse : [Conn -> {"own", "dummy", "NULL"}],
     fault : BOOLEAN]

LEMMA FreedType == Freed \in ClientCon
BY DEF Freed, ClientCon, ConnState

\* n differs from m in queues, retained messages, the task or a fault at most: the
\* sessions are what they were.
SameSessions(m, n) ==
    /\ n.list = m.list /\ n.topics = m.topics
    /\ n.dummy = m.dummy /\ n.reverse = m.reverse
    /\ \A d \in Conn : /\ n.client[d].connState = m.client[d].connState
                       /\ n.client[d].client_id = m.client[d].client_id

\* A client record with another queue.
LEMMA RequeuedType ==
    ASSUME NEW r \in ClientCon, NEW q \in Seq(Message)
    PROVE  /\ [r EXCEPT !.msgQueue = q] \in ClientCon
           /\ [r EXCEPT !.msgQueue = q].connState = r.connState
           /\ [r EXCEPT !.msgQueue = q].client_id = r.client_id
BY DEF ClientCon

\* Other records for the clients, of the same states and ids.
LEMMA ClientsKeep ==
    ASSUME NEW m \in Mem, NEW cs \in [Conn -> ClientCon],
           \A d \in Conn : /\ cs[d].connState = m.client[d].connState
                           /\ cs[d].client_id = m.client[d].client_id
    PROVE  [m EXCEPT !.client = cs] \in Mem /\ SameSessions(m, [m EXCEPT !.client = cs])
<1>1. [m EXCEPT !.client = cs] \in Mem  BY DEF Mem
<1>2. /\ [m EXCEPT !.client = cs].client = cs
      /\ [m EXCEPT !.client = cs].list = m.list
      /\ [m EXCEPT !.client = cs].topics = m.topics
      /\ [m EXCEPT !.client = cs].dummy = m.dummy
      /\ [m EXCEPT !.client = cs].reverse = m.reverse
  BY DEF Mem
<1> DEFINE n == [m EXCEPT !.client = cs]
<1> HIDE DEF n
<1>3. SameSessions(m, n)  BY <1>2 DEF SameSessions, n
<1>4. QED  BY <1>1, <1>3 DEF n

LEMMA QueueKeeps ==
    ASSUME NEW m \in Mem, NEW c \in Conn, NEW msgs \in Seq(Message)
    PROVE  Queue(m, c, msgs) \in Mem /\ SameSessions(m, Queue(m, c, msgs))
<1>1. m.client \in [Conn -> ClientCon]  BY DEF Mem
<1> DEFINE q == Puts(m.client[c].msgQueue, msgs)
           r == [m.client[c] EXCEPT !.msgQueue = q]
           cs == [m.client EXCEPT ![c] = r]
<1>2. m.client[c].msgQueue \in Seq(Message)  BY <1>1 DEF ClientCon
<1>3. q \in Seq(Message)  BY <1>2, PutsType
<1>4. /\ r \in ClientCon
      /\ r.connState = m.client[c].connState /\ r.client_id = m.client[c].client_id
  BY <1>1, <1>3, RequeuedType
<1>5. Queue(m, c, msgs) = [m EXCEPT !.client = cs]  BY <1>1 DEF Queue, Mem
<1> HIDE DEF r
<1>6. /\ cs \in [Conn -> ClientCon]
      /\ \A d \in Conn : /\ cs[d].connState = m.client[d].connState
                         /\ cs[d].client_id = m.client[d].client_id
  BY <1>1, <1>4
<1> HIDE DEF cs
<1>7. QED  BY <1>5, <1>6, ClientsKeep

LEMMA FindKeeps ==
    ASSUME NEW m \in Mem, NEW msg \in Message
    PROVE  find_topic(m, msg) \in Mem /\ SameSessions(m, find_topic(m, msg))
<1>1. m.client \in [Conn -> ClientCon]  BY DEF Mem
<1> DEFINE q(d) == Puts(m.client[d].msgQueue, Copies(m.topics, d, msg))
           cs == [d \in Conn |-> [m.client[d] EXCEPT !.msgQueue = q(d)]]
<1>2. ASSUME NEW d \in Conn
      PROVE  /\ cs[d] \in ClientCon
             /\ cs[d].connState = m.client[d].connState
             /\ cs[d].client_id = m.client[d].client_id
  <2>1. m.client[d] \in ClientCon /\ m.client[d].msgQueue \in Seq(Message)
    BY <1>1 DEF ClientCon
  <2>2. q(d) \in Seq(Message)  BY <2>1, CopiesType, PutsType
  <2>3. cs[d] = [m.client[d] EXCEPT !.msgQueue = q(d)]  OBVIOUS
  <2> HIDE DEF q, cs
  <2>4. QED  BY <2>1, <2>2, <2>3, RequeuedType
<1>3. find_topic(m, msg) = [m EXCEPT !.client = cs]  BY DEF find_topic
<1>4. cs \in [Conn -> ClientCon]
  <2>1. cs = [d \in Conn |-> cs[d]]  OBVIOUS
  <2> HIDE DEF cs
  <2>2. QED  BY <1>2, <2>1, Zenon
<1> HIDE DEF cs
<1>5. QED  BY <1>2, <1>3, <1>4, ClientsKeep

LEMMA PostKeeps ==
    ASSUME NEW m \in Mem, NEW x \in Conn \cup {dummy_clientcon}
    PROVE  system_os_post(m, x) \in Mem /\ SameSessions(m, system_os_post(m, x))
BY DEF system_os_post, Mem, SameSessions

LEMMA ActivateKeeps ==
    ASSUME NEW m \in Mem
    PROVE  activate_next_client(m) \in Mem /\ SameSessions(m, activate_next_client(m))
<1>1. CASE NextClient(m) = {}
  BY <1>1 DEF activate_next_client, SameSessions
<1>2. CASE NextClient(m) # {}
  <2>1. (CHOOSE d \in NextClient(m) : TRUE) \in Conn  BY <1>2 DEF NextClient
  <2>2. QED  BY <1>2, <2>1, PostKeeps DEF activate_next_client
<1>3. QED  BY <1>1, <1>2

LEMMA UpdateKeeps ==
    ASSUME NEW m \in Mem, NEW t \in Topic, NEW d \in Payload
    PROVE  /\ update_retainedtopic(m, t, d) \in Mem
           /\ SameSessions(m, update_retainedtopic(m, t, d))
<1> DEFINE found == RetainedAt(m.retained, t)
           free == RetainedAt(m.retained, NULL)
           entry == [topic |-> t, data |-> d]
<1>1. found \in SUBSET (1 .. MaxRetained) /\ free \in SUBSET (1 .. MaxRetained)
  BY DEF RetainedAt, RetainedSlots
<1>2. /\ found # {} => FirstOf(found) \in RetainedSlots
      /\ free # {} => FirstOf(free) \in RetainedSlots
  BY <1>1, BoundsAssumption, FirstOfMember DEF RetainedSlots
<1>3. FreeRetained \in RetainedEntry /\ (d # Empty => entry \in RetainedEntry)
  BY DEF RetainedEntry
<1>4. update_retainedtopic(m, t, d) =
        IF found # {}
        THEN [m EXCEPT !.retained[FirstOf(found)] = IF d = Empty THEN FreeRetained ELSE entry]
        ELSE IF d # Empty /\ free # {}
        THEN [m EXCEPT !.retained[FirstOf(free)] = entry]
        ELSE m
  BY DEF update_retainedtopic
<1> HIDE DEF found, free, entry
<1>5. QED  BY <1>2, <1>3, <1>4, SMTT(60) DEF Mem, SameSessions

LEMMA KeepTwice ==
    ASSUME NEW m, NEW n, NEW o, SameSessions(m, n), SameSessions(n, o)
    PROVE  SameSessions(m, o)
BY DEF SameSessions

LEMMA DistributeKeeps ==
    ASSUME NEW m \in Mem, NEW p \in [topic : Topic, data : Payload, retain : BOOLEAN]
    PROVE  Distribute(m, p) \in Mem /\ SameSessions(m, Distribute(m, p))
<1> DEFINE sent == find_topic(m, PublishMsg(p.topic, p.data, FALSE))
<1>1. sent \in Mem /\ SameSessions(m, sent)  BY PublishMsgType, FindKeeps
<1> HIDE DEF sent
<1>2. /\ update_retainedtopic(sent, p.topic, p.data) \in Mem
      /\ SameSessions(sent, update_retainedtopic(sent, p.topic, p.data))
  BY <1>1, UpdateKeeps
<1>3. SameSessions(m, update_retainedtopic(sent, p.topic, p.data))
  BY <1>1, <1>2, KeepTwice
<1>4. QED  BY <1>1, <1>2, <1>3 DEF Distribute, sent

-----------------------------------------------------------------------------
(* What makes a memory sound, next to its types *)

Begun(r) == r.connState \notin {"FREED", "TCP_DISCONNECT"}

\* The list is exact and no subscription is left without its session.
Sessions(m) ==
    /\ \A i, j \in DOMAIN m.list : m.list[i] = m.list[j] => i = j
    /\ \A i \in DOMAIN m.list : Begun(m.client[m.list[i]])
    /\ \A d \in Conn : Begun(m.client[d]) => \E i \in DOMAIN m.list : m.list[i] = d
    /\ \A i \in Slots : m.topics[i].owner \in Conn =>
                            m.client[m.topics[i].owner].connState = "MQTT_DATA"

\* Where the connections, in states t, point back to.
Pointers(m, t) ==
    /\ \A d \in Conn : m.reverse[d] = "own" <=> m.client[d].connState # "FREED"
    /\ \A d \in Conn : t[d] = "NONE" => m.reverse[d] = "NULL"
    /\ m.dummy # NULL => m.reverse[m.dummy] = "dummy" /\ t[m.dummy] # "NONE"

\* A client has no id before its CONNECT: that is why a takeover never finds the
\* client that asks for it.
Unnamed(r) == r.connState = "TCP_CONNECTED" => r.client_id = ""

Sound(m, t) == Sessions(m) /\ Pointers(m, t) /\ \A d \in Conn : Unnamed(m.client[d])

\* Memories with the same sessions are equally sound.
LEMMA SameIsSound ==
    ASSUME NEW m, NEW n, NEW t, SameSessions(m, n), Sound(m, t), m.list \in Seq(Conn),
           m.topics \in [Slots -> TopicEntry], m.dummy \in Conn \cup {NULL}
    PROVE  Sound(n, t)
<1>1. \A i \in DOMAIN m.list : m.list[i] \in Conn  OBVIOUS
<1>2. Sessions(n)
  <2>1. /\ \A i, j \in DOMAIN n.list : n.list[i] = n.list[j] => i = j
        /\ \A i \in DOMAIN n.list : Begun(n.client[n.list[i]])
        /\ \A d \in Conn : Begun(n.client[d]) => \E i \in DOMAIN n.list : n.list[i] = d
    BY <1>1 DEF SameSessions, Sound, Sessions, Begun
  <2>2. \A i \in Slots : n.topics[i].owner \in Conn =>
                            n.client[n.topics[i].owner].connState = "MQTT_DATA"
    BY DEF SameSessions, Sound, Sessions
  <2>3. QED  BY <2>1, <2>2 DEF Sessions
<1>3. Pointers(n, t)  BY DEF SameSessions, Sound, Pointers
<1>4. \A d \in Conn : Unnamed(n.client[d])  BY DEF SameSessions, Sound, Unnamed
<1>5. QED  BY <1>2, <1>3, <1>4 DEF Sound

-----------------------------------------------------------------------------
(* The lists *)

\* Unlink takes out one client and leaves the others.
LEMMA UnlinkEffect ==
    ASSUME NEW list \in Seq(Conn), NEW c \in Conn,
           \A i, j \in DOMAIN list : list[i] = list[j] => i = j
    PROVE  /\ Unlink(list, c) \in Seq(Conn)
           /\ \A i, j \in DOMAIN Unlink(list, c) : Unlink(list, c)[i] = Unlink(list, c)[j] => i = j
           /\ \A d \in Conn : (\E i \in DOMAIN Unlink(list, c) : Unlink(list, c)[i] = d)
                               <=> d # c /\ \E i \in DOMAIN list : list[i] = d
<1>1. CASE ~\E i \in DOMAIN list : list[i] = c
  BY <1>1 DEF Unlink
<1>2. CASE \E i \in DOMAIN list : list[i] = c
  <2> DEFINE k == CHOOSE i \in DOMAIN list : list[i] = c
             rest == Unlink(list, c)
             before == SubSeq(list, 1, k - 1)
             behind == SubSeq(list, k + 1, Len(list))
  <2>1. k \in 1 .. Len(list) /\ list[k] = c /\ Len(list) \in Nat  BY <1>2
  <2>2. rest = before \o behind  BY <1>2 DEF Unlink, RemoveAt
  <2> HIDE DEF k, rest
  <2>3. /\ before \in Seq(Conn) /\ Len(before) = k - 1
        /\ \A i \in 1 .. k - 1 : before[i] = list[i]
    BY <2>1
  <2>4. /\ behind \in Seq(Conn) /\ Len(behind) = Len(list) - k
        /\ \A i \in 1 .. Len(list) - k : behind[i] = list[i + k]
    BY <2>1
  <2> HIDE DEF before, behind
  <2>5. rest \in Seq(Conn) /\ Len(rest) = Len(list) - 1  BY <2>1, <2>2, <2>3, <2>4
  <2>6. \A i \in 1 .. Len(list) - 1 : rest[i] = IF i < k THEN list[i] ELSE list[i + 1]
    <3> SUFFICES ASSUME NEW i \in 1 .. Len(list) - 1
                 PROVE  rest[i] = IF i < k THEN list[i] ELSE list[i + 1]
      OBVIOUS
    <3>1. CASE i < k
      <4>1. i \in 1 .. k - 1  BY <2>1, <3>1
      <4>2. rest[i] = before[i]  BY <2>1, <2>2, <2>3, <2>4, <4>1
      <4>3. QED  BY <2>3, <3>1, <4>1, <4>2
    <3>2. CASE ~(i < k)
      <4>1. i - (k - 1) \in 1 .. Len(list) - k  BY <2>1, <3>2
      <4>2. rest[i] = behind[i - (k - 1)]  BY <2>1, <2>2, <2>3, <2>4, <3>2, <4>1
      <4>3. i - (k - 1) + k = i + 1  BY <2>1
      <4>4. QED  BY <2>4, <3>2, <4>1, <4>2, <4>3
    <3>3. QED  BY <3>1, <3>2
  <2>7. DOMAIN rest = 1 .. Len(list) - 1 /\ DOMAIN list = 1 .. Len(list)  BY <2>5
  <2>8. \A i, j \in DOMAIN rest : rest[i] = rest[j] => i = j
    <3> SUFFICES ASSUME NEW i \in DOMAIN rest, NEW j \in DOMAIN rest, rest[i] = rest[j]
                 PROVE  i = j
      OBVIOUS
    <3>1. i \in Int /\ j \in Int /\ i >= 1 /\ j >= 1 /\ i < Len(list) /\ j < Len(list)
      BY <2>1, <2>7
    <3>2. CASE i < k /\ j < k    BY <2>1, <2>6, <2>7, <3>1, <3>2
    <3>3. CASE i < k /\ ~(j < k)
      <4>1. list[i] = list[j + 1] /\ j + 1 \in DOMAIN list /\ i \in DOMAIN list
        BY <2>1, <2>6, <2>7, <3>1, <3>3
      <4>2. QED  BY <4>1, <2>1, <3>1, <3>3
    <3>4. CASE ~(i < k) /\ j < k
      <4>1. list[j] = list[i + 1] /\ i + 1 \in DOMAIN list /\ j \in DOMAIN list
        BY <2>1, <2>6, <2>7, <3>1, <3>4
      <4>2. QED  BY <4>1, <2>1, <3>1, <3>4
    <3>5. CASE ~(i < k) /\ ~(j < k)
      <4>1. list[i + 1] = list[j + 1] /\ i + 1 \in DOMAIN list /\ j + 1 \in DOMAIN list
        BY <2>1, <2>6, <2>7, <3>1, <3>5
      <4>2. i + 1 = j + 1  BY <4>1
      <4>3. QED  BY <4>2, <3>1
    <3>6. QED  BY <3>2, <3>3, <3>4, <3>5
  <2>9. ASSUME NEW d \in Conn, NEW i \in DOMAIN rest, rest[i] = d
        PROVE  d # c /\ \E j \in DOMAIN list : list[j] = d
    <3>1. i \in Int /\ i >= 1 /\ i < Len(list)  BY <2>1, <2>7
    <3>2. CASE i < k
      <4>1. i \in DOMAIN list /\ list[i] = d /\ i # k  BY <2>1, <2>6, <2>7, <2>9, <3>1, <3>2
      <4>2. QED  BY <4>1, <2>1, <2>7
    <3>3. CASE ~(i < k)
      <4>1. i + 1 \in DOMAIN list /\ list[i + 1] = d /\ i + 1 # k
        BY <2>1, <2>6, <2>7, <2>9, <3>1, <3>3
      <4>2. QED  BY <4>1, <2>1, <2>7
    <3>4. QED  BY <3>2, <3>3
  <2>10. ASSUME NEW d \in Conn, d # c, NEW j \in DOMAIN list, list[j] = d
         PROVE  \E i \in DOMAIN rest : rest[i] = d
    <3>1. j \in Int /\ j >= 1 /\ j <= Len(list) /\ j # k  BY <2>1, <2>7, <2>10
    <3>2. CASE j < k
      <4>1. j \in DOMAIN rest /\ rest[j] = d  BY <2>1, <2>6, <2>7, <2>10, <3>1, <3>2
      <4>2. QED  BY <4>1
    <3>3. CASE ~(j < k)
      <4>1. j - 1 \in DOMAIN rest /\ rest[j - 1] = d  BY <2>1, <2>6, <2>7, <2>10, <3>1, <3>3
      <4>2. QED  BY <4>1
    <3>4. QED  BY <3>2, <3>3
  <2>11. QED  BY <2>5, <2>8, <2>9, <2>10 DEF rest
<1>3. QED  BY <1>1, <1>2

\* add_topic changes nothing but free entries, and these to entries of the owner.
LEMMA AddEffect ==
    ASSUME NEW topics \in [Slots -> TopicEntry], NEW owner \in Conn \cup {LOCAL_MQTT_CLIENT},
           NEW fs \in Seq(Filter)
    PROVE  /\ add_topics(topics, owner, fs) \in [Slots -> TopicEntry]
           /\ \A i \in Slots : \/ add_topics(topics, owner, fs)[i] = topics[i]
                               \/ add_topics(topics, owner, fs)[i].owner = owner
<1> DEFINE free == FreeSlots(topics)
           added == add_topics(topics, owner, fs)
           Takes(i) == i \in free /\ Rank(free, i) <= Cardinality(Valid(fs))
           entry(i) == [owner |-> owner, filter |-> fs[Nth(Valid(fs), Rank(free, i))]]
<1>1. added = [i \in Slots |-> IF Takes(i) THEN entry(i) ELSE topics[i]]
  BY DEF add_topics
<1>2. ASSUME NEW i \in Slots, Takes(i) PROVE entry(i) \in TopicEntry
  <2>1. free \in SUBSET (1 .. MaxSubs) /\ i \in Int  BY DEF FreeSlots, Slots
  <2>2. Rank(free, i) \in Nat  BY <2>1, BoundsAssumption, SlotSetsFinite
  <2>3. Rank(free, i) # 0
    <3>1. IsFiniteSet({j \in free : j <= i})  BY <2>1, BoundsAssumption, SlotSetsFinite
    <3>2. i \in {j \in free : j <= i}  BY <1>2, <2>1
    <3>3. {j \in free : j <= i} # {}  BY <3>2
    <3>4. QED  BY <3>1, <3>3, FS_EmptySet DEF Rank
  <2>4. Valid(fs) \in SUBSET (1 .. Len(fs)) /\ Len(fs) \in Nat  BY DEF Valid
  <2>5. Cardinality(Valid(fs)) \in Nat  BY <2>4, 0 \in Int, SlotSetsFinite
  <2>6. Rank(free, i) \in 1 .. Cardinality(Valid(fs))  BY <1>2, <2>2, <2>3, <2>5
  <2>7. Nth(Valid(fs), Rank(free, i)) \in Valid(fs)  BY <2>4, <2>6, NthMember
  <2>8. fs[Nth(Valid(fs), Rank(free, i))] \in Filter  BY <2>4, <2>7
  <2>9. QED  BY <2>8 DEF TopicEntry
<1>3. \A i \in Slots : Takes(i) => entry(i).owner = owner  OBVIOUS
<1> HIDE DEF Takes, entry
<1>4. added \in [Slots -> TopicEntry]  BY <1>1, <1>2
<1>5. \A i \in Slots : added[i] = topics[i] \/ added[i].owner = owner
  BY <1>1, <1>3
<1>6. QED  BY <1>4, <1>5

\* delete_topic changes nothing but entries of the owner, and these to free ones.
LEMMA DeleteEffect ==
    ASSUME NEW topics \in [Slots -> TopicEntry], NEW owner, NEW F
    PROVE  /\ delete_topics(topics, owner, F) \in [Slots -> TopicEntry]
           /\ \A i \in Slots : \/ delete_topics(topics, owner, F)[i] = topics[i]
                               \/ delete_topics(topics, owner, F)[i] = FreeEntry
BY DEF delete_topics, TopicEntry

\* With every filter to delete, nothing of the owner stays.
LEMMA DeleteAll ==
    ASSUME NEW topics \in [Slots -> TopicEntry], NEW owner \in Conn
    PROVE  \A i \in Slots : delete_topics(topics, owner, Filter)[i].owner # owner
<1> SUFFICES ASSUME NEW i \in Slots PROVE delete_topics(topics, owner, Filter)[i].owner # owner
  OBVIOUS
<1>1. NULL # owner  BY NamesAssumption
<1>2. topics[i].owner = owner => topics[i].filter \in Filter
  BY <1>1 DEF TopicEntry, FreeEntry
<1>3. QED  BY <1>1, <1>2 DEF delete_topics, FreeEntry

-----------------------------------------------------------------------------
(* The end of a client *)

LEMMA WillKeeps ==
    ASSUME NEW m \in Mem, NEW c \in Conn
    PROVE  PublishWill(m, c) \in Mem /\ SameSessions(m, PublishWill(m, c))
<1> DEFINE w == m.client[c].will
           found == find_topic(m, WillMsg(w))
           sent == activate_next_client(found)
<1>1. CASE ~HasWill(m, c)
  BY <1>1 DEF PublishWill, SameSessions
<1>2. CASE HasWill(m, c) /\ WillFaults(m, c)
  BY <1>2 DEF PublishWill, SameSessions, Mem
<1>3. CASE HasWill(m, c) /\ ~WillFaults(m, c) /\ w.data = NULL
  <2>1. PublishWill(m, c) = activate_next_client(m)  BY <1>3 DEF PublishWill
  <2>2. QED  BY <2>1, ActivateKeeps
<1>4. CASE HasWill(m, c) /\ ~WillFaults(m, c) /\ w.data # NULL
  <2>1. w \in StoredWill  BY <1>4 DEF HasWill, Mem, ClientCon
  <2>2. PublishWill(m, c) = IF w.retain THEN update_retainedtopic(sent, w.topic, w.data)
                            ELSE sent
    BY <1>4 DEF PublishWill
  <2>3. w.data # NULL  BY <1>4
  <2> HIDE DEF w
  <2>4. /\ w.topic \in Topic /\ w.data \in Payload
        /\ WillMsg(w) \in Message
    <3>1. w.topic \in Topic /\ w.data \in Payload  BY <2>1, <2>3, WholeBody
    <3>2. QED  BY <3>1, PublishMsgType DEF WillMsg
  <2>5. found \in Mem /\ SameSessions(m, found)  BY <2>4, FindKeeps
  <2> HIDE DEF found
  <2>6. sent \in Mem /\ SameSessions(found, sent)  BY <2>5, ActivateKeeps
  <2>7. SameSessions(m, sent)  BY <2>5, <2>6, KeepTwice
  <2> HIDE DEF sent
  <2>8. /\ update_retainedtopic(sent, w.topic, w.data) \in Mem
        /\ SameSessions(sent, update_retainedtopic(sent, w.topic, w.data))
    BY <2>4, <2>6, UpdateKeeps
  <2>9. SameSessions(m, update_retainedtopic(sent, w.topic, w.data))
    BY <2>7, <2>8, KeepTwice
  <2>10. QED  BY <2>2, <2>6, <2>7, <2>8, <2>9
<1>5. QED  BY <1>1, <1>2, <1>3, <1>4

\* n is m with client c ended, but for what its connection points back to.
Ended(m, n, c) ==
    /\ n.client[c].connState = "FREED"
    /\ \A d \in Conn \ {c} : /\ n.client[d].connState = m.client[d].connState
                             /\ n.client[d].client_id = m.client[d].client_id

\* A client that is deleted goes from the list, from its subscriptions and from
\* nobody else's.
LEMMA DeleteClientEffect ==
    ASSUME NEW m \in Mem, NEW c \in Conn, Sessions(m)
    PROVE  LET n == deleteClientCon(m, c)
           IN  /\ n \in Mem /\ Sessions(n) /\ Ended(m, n, c)
               /\ n.dummy = m.dummy /\ n.reverse = m.reverse
<1> DEFINE list == Unlink(m.list, c)
           unlinked == [m EXCEPT !.list = list]
           willed == PublishWill(unlinked, c)
           topics == delete_topics(willed.topics, c, Filter)
           n == [willed EXCEPT !.client[c] = Freed, !.topics = topics]
<1>1. n = deleteClientCon(m, c)
  BY DEF deleteClientCon, Mem
<1>2. m.list \in Seq(Conn) /\ \A i, j \in DOMAIN m.list : m.list[i] = m.list[j] => i = j
  BY DEF Mem, Sessions
<1>3. /\ list \in Seq(Conn)
      /\ \A i, j \in DOMAIN list : list[i] = list[j] => i = j
      /\ \A d \in Conn : (\E i \in DOMAIN list : list[i] = d)
                          <=> d # c /\ \E i \in DOMAIN m.list : m.list[i] = d
  BY <1>2, UnlinkEffect
<1> HIDE DEF list
<1>4. /\ unlinked \in Mem /\ unlinked.list = list /\ unlinked.topics = m.topics
      /\ unlinked.dummy = m.dummy /\ unlinked.reverse = m.reverse
      /\ unlinked.client = m.client
  BY <1>3 DEF Mem
<1> HIDE DEF unlinked
<1>5. willed \in Mem /\ SameSessions(unlinked, willed)  BY <1>4, WillKeeps
<1> HIDE DEF willed
<1>6. willed.topics \in [Slots -> TopicEntry] /\ willed.topics = m.topics
  BY <1>4, <1>5 DEF Mem, SameSessions
<1>7. /\ topics \in [Slots -> TopicEntry]
      /\ \A i \in Slots : topics[i] = m.topics[i] \/ topics[i] = FreeEntry
      /\ \A i \in Slots : topics[i].owner # c
  BY <1>6, DeleteEffect, DeleteAll
<1> HIDE DEF topics
<1>8. /\ n \in Mem /\ n.list = willed.list /\ n.topics = topics
      /\ n.dummy = willed.dummy /\ n.reverse = willed.reverse
      /\ n.client = [willed.client EXCEPT ![c] = Freed]
  BY <1>5, <1>7, FreedType DEF Mem
<1>9. willed.client \in [Conn -> ClientCon]  BY <1>5 DEF Mem
<1>10. n.list = list /\ n.dummy = m.dummy /\ n.reverse = m.reverse
  BY <1>4, <1>5, <1>8 DEF SameSessions
<1> HIDE DEF n
<1>11. Ended(m, n, c)
  <2>1. n.client[c].connState = "FREED"
    <3>1. n.client[c] = Freed  BY <1>8, <1>9
    <3>2. Freed.connState = "FREED"  BY DEF Freed
    <3>3. QED  BY <3>1, <3>2, Zenon
  <2>2. \A d \in Conn \ {c} : n.client[d] = willed.client[d]  BY <1>8, <1>9
  <2>3. \A d \in Conn : /\ willed.client[d].connState = m.client[d].connState
                        /\ willed.client[d].client_id = m.client[d].client_id
    BY <1>4, <1>5 DEF SameSessions
  <2>4. QED  BY <2>1, <2>2, <2>3 DEF Ended
<1>12. Sessions(n)
  <2>1. \A i, j \in DOMAIN n.list : n.list[i] = n.list[j] => i = j  BY <1>3, <1>10
  <2>2. \A i \in DOMAIN n.list : Begun(n.client[n.list[i]])
    <3>1. \A d \in Conn : (\E i \in DOMAIN m.list : m.list[i] = d) => Begun(m.client[d])
      BY DEF Sessions
    <3>2. ASSUME NEW i \in DOMAIN n.list PROVE Begun(n.client[n.list[i]])
      <4>1. n.list[i] \in Conn  BY <1>3, <1>10
      <4>2. n.list[i] # c /\ Begun(m.client[n.list[i]])  BY <1>3, <1>10, <3>1, <4>1
      <4>3. QED  BY <1>11, <4>1, <4>2 DEF Ended, Begun
    <3>3. QED  BY <3>2
  <2>3. \A d \in Conn : Begun(n.client[d]) => \E i \in DOMAIN n.list : n.list[i] = d
    <3>1. ASSUME NEW d \in Conn, Begun(n.client[d]) PROVE \E i \in DOMAIN n.list : n.list[i] = d
      <4>1. d # c /\ Begun(m.client[d])  BY <1>11, <3>1 DEF Ended, Begun
      <4>2. \E i \in DOMAIN m.list : m.list[i] = d  BY <4>1 DEF Sessions
      <4>3. QED  BY <1>3, <1>10, <4>1, <4>2
    <3>2. QED  BY <3>1
  <2>4. \A i \in Slots : n.topics[i].owner \in Conn =>
                            n.client[n.topics[i].owner].connState = "MQTT_DATA"
    <3>1. ASSUME NEW i \in Slots, n.topics[i].owner \in Conn
          PROVE  n.client[n.topics[i].owner].connState = "MQTT_DATA"
      <4>1. FreeEntry.owner \notin Conn  BY NamesAssumption DEF FreeEntry
      <4>2. n.topics[i].owner = m.topics[i].owner /\ n.topics[i].owner # c
        BY <1>7, <1>8, <3>1, <4>1
      <4>3. m.client[n.topics[i].owner].connState = "MQTT_DATA"
        BY <3>1, <4>2 DEF Sessions
      <4>4. QED  BY <1>11, <3>1, <4>2, <4>3 DEF Ended
    <3>2. QED  BY <3>1
  <2>5. QED  BY <2>1, <2>2, <2>3, <2>4 DEF Sessions
<1>13. QED  BY <1>1, <1>8, <1>10, <1>11, <1>12

\* A client that is disconnected is ended, and its connection given to the dummy.
LEMMA DisconnectEffect ==
    ASSUME NEW m \in Mem, NEW c \in Conn, NEW t, t[c] # "NONE", Sessions(m), Pointers(m, t),
           \A d \in Conn \ {c} : Unnamed(m.client[d])
    PROVE  LET n == disconnectClientCon(m, c)
           IN  /\ n \in Mem /\ Sound(n, t) /\ Ended(m, n, c)
               /\ \A d \in Conn \ {c} : n.reverse[d] = m.reverse[d]
<1> DEFINE handed == [m EXCEPT !.dummy = c, !.reverse[c] = "dummy"]
           o == deleteClientCon(handed, c)
           n == system_os_post(o, dummy_clientcon)
<1>1. n = disconnectClientCon(m, c)  BY DEF disconnectClientCon
<1>2. /\ handed \in Mem /\ handed.list = m.list /\ handed.topics = m.topics
      /\ handed.client = m.client /\ handed.dummy = c
      /\ handed.reverse = [m.reverse EXCEPT ![c] = "dummy"]
  BY DEF Mem
<1> HIDE DEF handed
<1>3. Sessions(handed)  BY <1>2 DEF Sessions
<1>4. /\ o \in Mem /\ Sessions(o) /\ Ended(handed, o, c)
      /\ o.dummy = handed.dummy /\ o.reverse = handed.reverse
  BY <1>2, <1>3, DeleteClientEffect
<1> HIDE DEF o
<1>5. Ended(m, o, c)  BY <1>2, <1>4 DEF Ended
<1>6. m.reverse \in [Conn -> {"own", "dummy", "NULL"}]  BY DEF Mem
<1>7. Pointers(o, t)  BY <1>2, <1>4, <1>5, <1>6 DEF Pointers, Ended
<1>8. \A d \in Conn : Unnamed(o.client[d])  BY <1>5 DEF Ended, Unnamed
<1>9. Sound(o, t)  BY <1>4, <1>7, <1>8 DEF Sound
<1>10. n \in Mem /\ SameSessions(o, n)  BY <1>4, PostKeeps
<1> HIDE DEF n
<1>11. Sound(n, t)  BY <1>4, <1>9, <1>10, SameIsSound DEF Mem
<1>12. Ended(m, n, c)  BY <1>5, <1>10 DEF Ended, SameSessions
<1>13. \A d \in Conn \ {c} : n.reverse[d] = m.reverse[d]
  BY <1>2, <1>4, <1>6, <1>10 DEF SameSessions
<1>14. QED  BY <1>1, <1>10, <1>11, <1>12, <1>13

\* A takeover ends another client than the one that asks for it, and leaves that
\* one's connection alone.
LEMMA TakeoverEffect ==
    ASSUME NEW m \in Mem, NEW c \in Conn, NEW t, Sound(m, t), m.client[c].connState = "TCP_CONNECTED",
           NEW id \in ClientId, NEW terminated \in BOOLEAN
    PROVE  LET n == delete_client_by_id(m, id, terminated)
           IN  /\ n \in Mem /\ Sound(n, t)
               /\ n.client[c].connState = "TCP_CONNECTED" /\ n.reverse[c] = m.reverse[c]
<1>1. CASE SameId(m, id) = {} \/ ~terminated
  BY <1>1 DEF delete_client_by_id
<1>2. CASE ~(SameId(m, id) = {} \/ ~terminated)
  <2> DEFINE d == CHOOSE x \in SameId(m, id) : TRUE
             n == disconnectClientCon(m, d)
  <2>1. n = delete_client_by_id(m, id, terminated)  BY <1>2 DEF delete_client_by_id
  <2>2. d \in SameId(m, id)  BY <1>2
  <2> HIDE DEF d
  <2>3. /\ d \in Conn /\ m.client[d].client_id = id
        /\ \E i \in DOMAIN m.list : m.list[i] = d
    BY <2>2 DEF SameId
  <2>4. Begun(m.client[d])  BY <2>3 DEF Sound, Sessions
  <2>5. d # c  BY <2>3, NamesAssumption DEF Sound, Unnamed
  <2>6. t[d] # "NONE"  BY <2>3, <2>4 DEF Sound, Pointers, Begun
  <2>7. /\ n \in Mem /\ Sound(n, t) /\ Ended(m, n, d)
        /\ \A x \in Conn \ {d} : n.reverse[x] = m.reverse[x]
    BY <2>3, <2>6, DisconnectEffect DEF Sound
  <2> HIDE DEF n
  <2>8. QED  BY <2>1, <2>5, <2>7 DEF Ended
<1>3. QED  BY <1>1, <1>2

-----------------------------------------------------------------------------
(* Changes of one record, of the subscriptions *)

\* A client may get another record as long as it stays begun, or not, and keeps
\* being accepted.
LEMMA RecordChange ==
    ASSUME NEW m \in Mem, NEW c \in Conn, NEW t, Sound(m, t), NEW r \in ClientCon,
           r.connState = "FREED" <=> m.client[c].connState = "FREED",
           Begun(r) <=> Begun(m.client[c]),
           m.client[c].connState = "MQTT_DATA" => r.connState = "MQTT_DATA"
    PROVE  LET n == [m EXCEPT !.client[c] = r]
           IN  /\ n \in Mem /\ Sessions(n) /\ Pointers(n, t)
               /\ \A d \in Conn \ {c} : Unnamed(n.client[d])
               /\ Unnamed(r) => Sound(n, t)
<1> DEFINE n == [m EXCEPT !.client[c] = r]
<1>1. /\ n \in Mem /\ n.list = m.list /\ n.topics = m.topics
      /\ n.dummy = m.dummy /\ n.reverse = m.reverse
      /\ n.client = [m.client EXCEPT ![c] = r]
  BY DEF Mem
<1>2. m.client \in [Conn -> ClientCon] /\ m.list \in Seq(Conn)  BY DEF Mem
<1> HIDE DEF n
<1>3. n.client[c] = r /\ \A d \in Conn \ {c} : n.client[d] = m.client[d]  BY <1>1, <1>2
<1>4. /\ \A d \in Conn : Begun(n.client[d]) <=> Begun(m.client[d])
      /\ \A d \in Conn : m.client[d].connState = "MQTT_DATA" => n.client[d].connState = "MQTT_DATA"
      /\ \A d \in Conn : n.client[d].connState = "FREED" <=> m.client[d].connState = "FREED"
      /\ \A d \in Conn \ {c} : Unnamed(n.client[d])
      /\ Unnamed(r) => \A d \in Conn : Unnamed(n.client[d])
  BY <1>3 DEF Sound
<1>5. \A i \in DOMAIN m.list : m.list[i] \in Conn  BY <1>2
<1>6. Sessions(n)  BY <1>1, <1>4, <1>5 DEF Sound, Sessions
<1>7. Pointers(n, t)  BY <1>1, <1>4 DEF Sound, Pointers
<1>8. QED  BY <1>1, <1>4, <1>6, <1>7 DEF Sound, n

\* The subscriptions may change as long as the new ones have accepted owners.
LEMMA TopicsChange ==
    ASSUME NEW m \in Mem, NEW t, Sound(m, t), NEW topics \in [Slots -> TopicEntry],
           \A i \in Slots : \/ topics[i] = m.topics[i]
                            \/ topics[i].owner \notin Conn
                            \/ m.client[topics[i].owner].connState = "MQTT_DATA"
    PROVE  LET n == [m EXCEPT !.topics = topics]
           IN  n \in Mem /\ Sound(n, t) /\ n.client = m.client /\ n.reverse = m.reverse
<1> DEFINE n == [m EXCEPT !.topics = topics]
<1>1. /\ n \in Mem /\ n.list = m.list /\ n.topics = topics
      /\ n.dummy = m.dummy /\ n.reverse = m.reverse /\ n.client = m.client
  BY DEF Mem
<1> HIDE DEF n
<1>2. Sessions(n)  BY <1>1 DEF Sound, Sessions
<1>3. Pointers(n, t)  BY <1>1 DEF Sound, Pointers
<1>4. QED  BY <1>1, <1>2, <1>3 DEF Sound, n

LEMMA AddKeeps ==
    ASSUME NEW m \in Mem, NEW t, Sound(m, t), NEW owner \in Conn \cup {LOCAL_MQTT_CLIENT},
           owner \in Conn => m.client[owner].connState = "MQTT_DATA", NEW fs \in Seq(Filter)
    PROVE  LET n == [m EXCEPT !.topics = add_topics(@, owner, fs)]
           IN  n \in Mem /\ Sound(n, t) /\ n.client = m.client /\ n.reverse = m.reverse
<1> DEFINE topics == add_topics(m.topics, owner, fs)
<1>1. m.topics \in [Slots -> TopicEntry]  BY DEF Mem
<1>2. /\ topics \in [Slots -> TopicEntry]
      /\ \A i \in Slots : topics[i] = m.topics[i] \/ topics[i].owner = owner
  BY <1>1, AddEffect
<1>3. [m EXCEPT !.topics = add_topics(@, owner, fs)] = [m EXCEPT !.topics = topics]
  BY DEF Mem
<1> HIDE DEF topics
<1>4. QED  BY <1>2, <1>3, TopicsChange

LEMMA DeleteKeeps ==
    ASSUME NEW m \in Mem, NEW t, Sound(m, t), NEW owner, NEW F
    PROVE  LET n == [m EXCEPT !.topics = delete_topics(@, owner, F)]
           IN  n \in Mem /\ Sound(n, t) /\ n.client = m.client /\ n.reverse = m.reverse
<1> DEFINE topics == delete_topics(m.topics, owner, F)
<1>1. m.topics \in [Slots -> TopicEntry]  BY DEF Mem
<1>2. /\ topics \in [Slots -> TopicEntry]
      /\ \A i \in Slots : topics[i] = m.topics[i] \/ topics[i] = FreeEntry
  BY <1>1, DeleteEffect
<1>3. FreeEntry.owner \notin Conn  BY NamesAssumption DEF FreeEntry
<1>4. [m EXCEPT !.topics = delete_topics(@, owner, F)] = [m EXCEPT !.topics = topics]
  BY DEF Mem
<1> HIDE DEF topics
<1>5. QED  BY <1>2, <1>3, <1>4, TopicsChange

\* What only touches the queues, the task or the retained messages is harmless.
LEMMA KeepsSound ==
    ASSUME NEW m \in Mem, NEW n, NEW t, SameSessions(m, n), Sound(m, t)
    PROVE  Sound(n, t)
<1>1. /\ m.list \in Seq(Conn) /\ m.topics \in [Slots -> TopicEntry]
      /\ m.dummy \in Conn \cup {NULL}
  BY DEF Mem
<1>2. QED  BY <1>1, SameIsSound

-----------------------------------------------------------------------------
(* The end of a step *)

\* What holds whenever the broker is up, and what holds in every state: a record
\* that is freed twice leaves the connections' pointers as it may until the reset.
IInv == TypeOK /\ Sound(mem, tcp)
SInv == TypeOK /\ Sessions(mem) /\ (up => Sound(mem, tcp))

LEMMA UpAndDown == SInv /\ up => IInv
BY DEF IInv, SInv

LEMMA SoundNext == IInv' => SInv'
BY DEF IInv, SInv, Sound

TcpState == {"NONE", "CONNECT", "DISCONNECTING", "CLOSE"}

LEMMA MemType == TypeOK => mem \in Mem
BY DEF TypeOK, Mem, mem

LEMMA StartedSound == Started \in Mem /\ Sound(Started, NoConnection)
<1>1. FreeEntry.owner \notin Conn  BY NamesAssumption DEF FreeEntry
<1>2. Started \in Mem
  BY FreedType DEF Started, Mem, TopicEntry, RetainedEntry
<1>3. Sound(Started, NoConnection)
  <2>1. /\ Started.list = <<>> /\ Started.topics = [i \in Slots |-> FreeEntry]
        /\ Started.dummy = NULL /\ Started.reverse = [d \in Conn |-> "NULL"]
        /\ Started.client = [d \in Conn |-> Freed]
    BY DEF Started
  <2>2. /\ \A d \in Conn : Started.client[d] = Freed /\ Started.reverse[d] = "NULL"
        /\ \A i \in Slots : Started.topics[i] = FreeEntry
        /\ DOMAIN Started.list = {}
    BY <2>1
  <2>3. Freed.connState = "FREED"  BY DEF Freed
  <2>4. \A d \in Conn : Started.client[d].connState = "FREED"  BY <2>2, <2>3, Zenon
  <2>5. Sessions(Started)  BY <1>1, <2>2, <2>4 DEF Sessions, Begun
  <2>6. Pointers(Started, NoConnection)
    BY <2>1, <2>2, <2>4 DEF Pointers
  <2>7. QED  BY <2>4, <2>5, <2>6 DEF Sound, Unnamed
<1>4. QED  BY <1>2, <1>3

LEMMA LoadSound ==
    ASSUME NEW m \in Mem, NEW t \in [Conn -> TcpState], NEW f \in [Conn -> BOOLEAN],
           NEW b \in Conn \cup {LOCAL_MQTT_CLIENT, NULL}, Sound(m, t), Load(m, t, f, b),
           up' \in BOOLEAN
    PROVE  IInv'
<1>1. TypeOK'  BY DEF Mem, Load, TypeOK, TcpState
<1>2. /\ mem'.client = m.client /\ mem'.list = m.list /\ mem'.topics = m.topics
      /\ mem'.dummy = m.dummy /\ mem'.reverse = m.reverse
  BY DEF Load, mem
<1>3. tcp' = t  BY DEF Load
<1>4. SameSessions(m, mem')  BY <1>2 DEF SameSessions
<1>5. Sound(mem', tcp')  BY <1>3, <1>4, KeepsSound
<1>6. QED  BY <1>1, <1>5 DEF IInv

\* A step ends with the invariant if it ends with a sound memory.
LEMMA BecomeSound ==
    ASSUME NEW m \in Mem, NEW t \in [Conn -> TcpState], NEW f \in [Conn -> BOOLEAN],
           NEW b \in Conn \cup {LOCAL_MQTT_CLIENT, NULL}, Sound(m, t), Become(m, t, f, b),
           up \in BOOLEAN
    PROVE  IInv'
<1>1. CASE m.fault
  <2>1. NoConnection \in [Conn -> TcpState] /\ NothingSent \in [Conn -> BOOLEAN]
    BY DEF NoConnection, NothingSent, TcpState
  <2>2. Load(Started, NoConnection, NothingSent, NULL) /\ up' = FALSE
    BY <1>1 DEF Become
  <2>3. QED  BY <2>1, <2>2, StartedSound, LoadSound
<1>2. CASE ~m.fault
  <2>1. Load(m, t, f, b) /\ up' = up  BY <1>2 DEF Become
  <2>2. QED  BY <2>1, LoadSound
<1>3. QED  BY <1>1, <1>2

-----------------------------------------------------------------------------
(* Steps of the receive callback *)

\* What every step may use of the state it starts in.
LEMMA Before ==
    ASSUME IInv
    PROVE  /\ mem \in Mem /\ Sound(mem, tcp)
           /\ mem.client = client /\ mem.list = clientcon_list /\ mem.topics = topic_list
           /\ mem.retained = retained_list /\ mem.task = task /\ mem.dummy = dummy_pCon
           /\ mem.reverse = reverse
           /\ client \in [Conn -> ClientCon] /\ clientcon_list \in Seq(Conn)
           /\ reverse \in [Conn -> {"own", "dummy", "NULL"}]
           /\ dummy_pCon \in Conn \cup {NULL}
           /\ tcp \in [Conn -> TcpState] /\ inflight \in [Conn -> BOOLEAN]
           /\ busy \in Conn \cup {LOCAL_MQTT_CLIENT, NULL} /\ up \in BOOLEAN
           /\ \A c \in Conn : client[c].connState # "FREED" =>
                                  reverse[c] = "own" /\ tcp[c] # "NONE"
<1>1. TypeOK /\ Sound(mem, tcp)  BY DEF IInv
<1>2. mem \in Mem  BY <1>1, MemType
<1>3. /\ mem.client = client /\ mem.list = clientcon_list /\ mem.topics = topic_list
      /\ mem.retained = retained_list /\ mem.task = task /\ mem.dummy = dummy_pCon
      /\ mem.reverse = reverse
  BY DEF mem
<1>4. \A c \in Conn : client[c].connState # "FREED" => reverse[c] = "own" /\ tcp[c] # "NONE"
  BY <1>1, <1>3 DEF Sound, Pointers
<1>5. QED  BY <1>1, <1>2, <1>3, <1>4 DEF TypeOK, TcpState

\* A step that ends by disconnecting a client.
LEMMA DropSound ==
    ASSUME IInv, NEW m \in Mem, NEW c \in Conn, Sessions(m), Pointers(m, tcp),
           \A d \in Conn \ {c} : Unnamed(m.client[d]), tcp[c] # "NONE",
           NEW f \in [Conn -> BOOLEAN], Become(disconnectClientCon(m, c), tcp, f, NULL)
    PROVE  IInv'
<1>1. disconnectClientCon(m, c) \in Mem /\ Sound(disconnectClientCon(m, c), tcp)
  BY DisconnectEffect
<1>2. QED  BY <1>1, Before, BecomeSound

\* A step that ends like every packet that is not the client's last.
LEMMA EndSound ==
    ASSUME IInv, NEW m \in Mem, NEW c \in Conn, Sound(m, tcp), NEW isPublish, NEW more,
           EndOfPacket(m, c, isPublish, more)
    PROVE  IInv'
<1> DEFINE r == [m.client[c] EXCEPT !.connectionTimeout = KeepAliveTicks]
           alive == [m EXCEPT !.client[c] = r]
<1>1. m.client[c] \in ClientCon  BY DEF Mem
<1>2. /\ r \in ClientCon /\ r.connState = m.client[c].connState
      /\ r.client_id = m.client[c].client_id
  BY <1>1, BoundsAssumption DEF ClientCon
<1>3. Unnamed(m.client[c])  BY DEF Sound
<1> HIDE DEF r
<1>4. alive \in Mem /\ Sound(alive, tcp)
  BY <1>2, <1>3, RecordChange DEF Begun, Unnamed
<1>5. /\ system_os_post(alive, c) \in Mem /\ Sound(system_os_post(alive, c), tcp)
      /\ activate_next_client(alive) \in Mem /\ Sound(activate_next_client(alive), tcp)
  <2> HIDE DEF alive
  <2>1. /\ system_os_post(alive, c) \in Mem /\ activate_next_client(alive) \in Mem
        /\ SameSessions(alive, system_os_post(alive, c))
        /\ SameSessions(alive, activate_next_client(alive))
    BY <1>4, PostKeeps, ActivateKeeps
  <2>2. QED  BY <1>4, <2>1, KeepsSound
<1>6. alive = [m EXCEPT !.client[c].connectionTimeout = KeepAliveTicks]
  BY DEF r
<1>7. \/ Become(alive, tcp, inflight, c)
      \/ Become(activate_next_client(alive), tcp, inflight, NULL)
      \/ Become(system_os_post(alive, c), tcp, inflight, NULL)
  BY <1>6 DEF EndOfPacket
<1> HIDE DEF alive
<1>8. QED  BY <1>4, <1>5, <1>7, Before, BecomeSound

\* The packet is answered with msgs.
LEMMA ReplySound ==
    ASSUME IInv, NEW m \in Mem, NEW c \in Conn, Sound(m, tcp), NEW msgs \in Seq(Message),
           NEW isPublish, NEW more, EndOfPacket(Queue(m, c, msgs), c, isPublish, more)
    PROVE  IInv'
<1>1. Queue(m, c, msgs) \in Mem /\ Sound(Queue(m, c, msgs), tcp)
  BY QueueKeeps, KeepsSound
<1>2. QED  BY <1>1, EndSound

\* What Identified starts from: an older session of the id has gone.
Alone(id, terminated) == IF id = "" THEN mem ELSE delete_client_by_id(mem, id, terminated)

LEMMA AloneEffect ==
    ASSUME IInv, NEW c \in Conn, In(c, "TCP_CONNECTED"), NEW id \in ClientId \cup {""},
           NEW terminated \in BOOLEAN
    PROVE  /\ Alone(id, terminated) \in Mem /\ Sound(Alone(id, terminated), tcp)
           /\ Alone(id, terminated).client[c].connState = "TCP_CONNECTED"
<1>1. mem \in Mem /\ Sound(mem, tcp) /\ mem.client[c].connState = "TCP_CONNECTED"
  BY Before DEF In
<1>2. CASE id = ""
  BY <1>1, <1>2 DEF Alone
<1>3. CASE id # ""
  BY <1>1, <1>3, TakeoverEffect DEF Alone
<1>4. QED  BY <1>2, <1>3

LEMMA TerminatedType ==
    ASSUME NEW w, NEW more, NEW t \in Terminated(w, more)
    PROVE  t \in BOOLEAN
BY DEF Terminated

\* Every CONNECT that is answered once the id has been read.
LEMMA AnswerSound ==
    ASSUME IInv, NEW c \in Conn, In(c, "TCP_CONNECTED"), NEW id \in ClientId \cup {""},
           NEW w \in StoredWill \cup {NoWill}, NEW terminated \in BOOLEAN,
           NEW state \in {"MQTT_DATA", "TCP_DISCONNECTING"}, NEW accepted \in BOOLEAN, NEW more,
           Answer(Identified(c, id, w, terminated), c, state, accepted, more)
    PROVE  IInv'
<1> DEFINE m == Alone(id, terminated)
           r == [m.client[c] EXCEPT !.client_id = id, !.will = w, !.connState = state]
           answered == [m EXCEPT !.client[c] = r]
<1>1. m \in Mem /\ Sound(m, tcp) /\ m.client[c].connState = "TCP_CONNECTED"
  BY AloneEffect
<1>2. m.client \in [Conn -> ClientCon]  BY <1>1 DEF Mem
<1>3. [Identified(c, id, w, terminated) EXCEPT !.client[c].connState = state] = answered
  <2>1. Identified(c, id, w, terminated) =
          [m EXCEPT !.client[c].client_id = id, !.client[c].will = w]
    BY DEF Identified, Alone
  <2> HIDE DEF m
  <2> DEFINE named == [m.client[c] EXCEPT !.client_id = id, !.will = w]
             cs == [m.client EXCEPT ![c] = named]
             i == [m EXCEPT !.client = cs]
  <2>2. [m EXCEPT !.client[c].client_id = id, !.client[c].will = w] = i
    BY <1>1, <1>2 DEF Mem
  <2>3. r = [named EXCEPT !.connState = state]
    <3>1. m.client[c] \in ClientCon  BY <1>2
    <3>2. QED  BY <3>1 DEF ClientCon
  <2> HIDE DEF named, r
  <2>4. cs[c] = named /\ [cs EXCEPT ![c] = r] = [m.client EXCEPT ![c] = r]  BY <1>2
  <2> HIDE DEF cs
  <2>5. i.client = cs  BY <1>1 DEF Mem
  <2>6. [i EXCEPT !.client[c].connState = state]
          = [i EXCEPT !.client = [cs EXCEPT ![c] = r]]
    BY <2>3, <2>4, <2>5
  <2>7. [i EXCEPT !.client = [cs EXCEPT ![c] = r]] = [m EXCEPT !.client = [cs EXCEPT ![c] = r]]
    BY <1>1 DEF Mem
  <2>8. QED  BY <2>1, <2>2, <2>4, <2>6, <2>7
<1> HIDE DEF m
<1>4. r \in ClientCon /\ r.connState = state
  BY <1>2 DEF ClientCon, ConnState
<1> HIDE DEF r
<1>5. answered \in Mem /\ Sound(answered, tcp)
  BY <1>1, <1>4, RecordChange DEF Begun, Unnamed
<1>6. EndOfPacket(Queue(answered, c, <<Connack(accepted)>>), c, FALSE, more)
  BY <1>3 DEF Answer
<1> HIDE DEF answered
<1>7. <<Connack(accepted)>> \in Seq(Message)
  <2>1. Connack(accepted) \in Message  BY ReplyTypes, Zenon
  <2>2. QED  BY <2>1, OneElement
<1>8. QED  BY <1>5, <1>6, <1>7, ReplySound

LEMMA ReceiveSound ==
    ASSUME IInv, NEW c \in Conn, Receive(c)
    PROVE  IInv'
<1> DEFINE id0 == ClientId \cup {""}
<1>0. /\ mem \in Mem /\ Sound(mem, tcp) /\ mem.client = client
      /\ inflight \in [Conn -> BOOLEAN] /\ busy \in Conn \cup {LOCAL_MQTT_CLIENT, NULL}
      /\ tcp \in [Conn -> TcpState] /\ up \in BOOLEAN
      /\ client[c].connState # "FREED" => tcp[c] # "NONE"
  BY Before
<1>1. ASSUME NEW m \in Mem, Sound(m, tcp), client[c].connState # "FREED", DropClient(m, c)
      PROVE  IInv'
  BY <1>0, <1>1, DropSound DEF DropClient, Sound
<1>2. CASE RecvInvalid(c)
  <2>1. client[c].connState # "FREED" /\ DropClient(mem, c)  BY <1>2 DEF RecvInvalid
  <2>2. QED  BY <2>1, <1>0, <1>1
<1>3. CASE RecvMalformedList(c)
  <2>1. client[c].connState = "MQTT_DATA"  BY <1>3 DEF RecvMalformedList, In
  <2>2. ASSUME NEW fs \in FilterList,
               DropClient([mem EXCEPT !.topics = add_topics(@, c, fs)], c)
        PROVE  IInv'
    <3>1. fs \in Seq(Filter)  BY InputsAssumption
    <3>2. LET n == [mem EXCEPT !.topics = add_topics(@, c, fs)]
          IN  n \in Mem /\ Sound(n, tcp)
      BY <1>0, <2>1, <3>1, AddKeeps
    <3>3. QED  BY <1>1, <2>1, <2>2, <3>2
  <2>3. ASSUME NEW F \in SUBSET Filter,
               DropClient([mem EXCEPT !.topics = delete_topics(@, c, F)], c)
        PROVE  IInv'
    <3>1. LET n == [mem EXCEPT !.topics = delete_topics(@, c, F)]
          IN  n \in Mem /\ Sound(n, tcp)
      BY <1>0, DeleteKeeps
    <3>2. QED  BY <1>1, <2>1, <2>3, <3>1
  <2>4. QED  BY <1>3, <2>2, <2>3 DEF RecvMalformedList
<1>4. CASE RecvPartial(c)
  <2>1. Load(mem, tcp, inflight, NULL) /\ up' = up
    BY <1>4 DEF RecvPartial, Load, mem, memory, stack
  <2>2. QED  BY <2>1, <1>0, LoadSound
<1>5. CASE RecvWithoutBuffer(c)
  <2>1. /\ [mem EXCEPT !.fault = TRUE] \in Mem
        /\ SameSessions(mem, [mem EXCEPT !.fault = TRUE])
    BY <1>0 DEF Mem, SameSessions
  <2>2. Sound([mem EXCEPT !.fault = TRUE], tcp)  BY <1>0, <2>1, KeepsSound
  <2>3. Become([mem EXCEPT !.fault = TRUE], tcp, inflight, busy)
    BY <1>5 DEF RecvWithoutBuffer
  <2>4. QED  BY <1>0, <2>1, <2>2, <2>3, BecomeSound
<1>6. CASE RecvTooShortWhenRefused(c)
  <2>1. client[c].connState # "FREED" /\ DropClient(mem, c)
    BY <1>6 DEF RecvTooShortWhenRefused, In
  <2>2. QED  BY <2>1, <1>0, <1>1
<1>7. CASE RecvTooShortByDummy(c)
  <2> DEFINE same == [mem EXCEPT !.reverse[dummy_pCon] = "dummy"]
  <2>1. dummy_pCon # NULL /\ Become(system_os_post(same, dummy_clientcon), tcp, inflight, NULL)
    BY <1>7 DEF RecvTooShortByDummy
  <2>2. dummy_pCon \in Conn /\ reverse[dummy_pCon] = "dummy"
        /\ reverse \in [Conn -> {"own", "dummy", "NULL"}] /\ mem.reverse = reverse
    BY <1>0, <2>1, Before DEF Sound, Pointers
  <2>3. [reverse EXCEPT ![dummy_pCon] = "dummy"] = reverse  BY <2>2
  <2>4. same = mem
    <3>1. same = [mem EXCEPT !.reverse = reverse]  BY <2>2, <2>3
    <3>2. QED  BY <3>1, <2>2, <1>0 DEF Mem
  <2> HIDE DEF same
  <2>5. /\ system_os_post(same, dummy_clientcon) \in Mem
        /\ SameSessions(same, system_os_post(same, dummy_clientcon))
    BY <1>0, <2>4, PostKeeps
  <2>6. Sound(system_os_post(same, dummy_clientcon), tcp)
    BY <1>0, <2>4, <2>5, KeepsSound
  <2>7. QED  BY <1>0, <2>1, <2>5, <2>6, BecomeSound
<1>8. ASSUME NEW more, ConnectRefused(c, more) PROVE IInv'
  <2> DEFINE r == [mem.client[c] EXCEPT !.connState = "TCP_DISCONNECTING"]
             refused == [mem EXCEPT !.client[c] = r]
  <2>1. client[c].connState = "TCP_CONNECTED"  BY <1>8 DEF ConnectRefused, In
  <2>2. mem.client[c] \in ClientCon  BY <1>0 DEF Mem
  <2>3. r \in ClientCon /\ r.connState = "TCP_DISCONNECTING"
    BY <2>2 DEF ClientCon, ConnState
  <2>4. EndOfPacket(Queue(refused, c, <<Connack(FALSE)>>), c, FALSE, more)
    BY <1>8 DEF ConnectRefused
  <2> HIDE DEF r
  <2>5. refused \in Mem /\ Sound(refused, tcp)
    BY <1>0, <2>1, <2>3, RecordChange DEF Begun, Unnamed
  <2> HIDE DEF refused
  <2>6. Connack(FALSE) \in Message  BY ReplyTypes, Zenon
  <2>7. <<Connack(FALSE)>> \in Seq(Message)  BY <2>6, OneElement
  <2>8. QED  BY <2>4, <2>5, <2>7, ReplySound
<1>9. ASSUME NEW id \in id0, NEW more, ConnectNotAuthorized(c, id, more) PROVE IInv'
  <2>1. PICK t \in Terminated(NoWill, more) :
             Answer(Identified(c, id, NoWill, t), c, "TCP_DISCONNECTING", FALSE, more)
    BY <1>9 DEF ConnectNotAuthorized
  <2>2. In(c, "TCP_CONNECTED")  BY <1>9 DEF ConnectNotAuthorized
  <2>3. t \in BOOLEAN  BY TerminatedType
  <2>4. QED  BY <1>9, <2>1, <2>2, <2>3, AnswerSound
<1>10. ASSUME NEW id \in id0, NEW w \in StoredWill \cup {NoWill}, NEW more,
              ConnectAccepted(c, id, w, more)
       PROVE  IInv'
  <2>1. PICK t \in Terminated(w, more) :
             Answer(Identified(c, id, w, t), c, "MQTT_DATA", TRUE, more)
    BY <1>10 DEF ConnectAccepted
  <2>2. In(c, "TCP_CONNECTED")  BY <1>10 DEF ConnectAccepted
  <2>3. t \in BOOLEAN  BY TerminatedType
  <2>4. QED  BY <1>10, <2>1, <2>2, <2>3, AnswerSound
<1>11. ASSUME NEW id \in id0, NEW w \in StoredWill \cup {NoWill}, NEW more,
              ConnectNoMemory(c, id, w, more)
       PROVE  IInv'
  <2>1. /\ In(c, "TCP_CONNECTED")
        /\ Answer(Identified(c, id, w, TRUE), c, "TCP_DISCONNECTING", FALSE, more)
    BY <1>11 DEF ConnectNoMemory
  <2>2. QED  BY <1>11, <2>1, AnswerSound
<1>12. ASSUME NEW id \in id0, NEW w \in StoredWill \cup {NoWill}, ConnectMalformed(c, id, w)
       PROVE  IInv'
  <2>1. PICK more \in More : \E t \in Terminated(w, more) : DropClient(Identified(c, id, w, t), c)
    BY <1>12 DEF ConnectMalformed
  <2>2. PICK t \in Terminated(w, more) : DropClient(Identified(c, id, w, t), c)
    BY <2>1
  <2>3. t \in BOOLEAN  BY TerminatedType
  <2>4. In(c, "TCP_CONNECTED") /\ client[c].connState = "TCP_CONNECTED"
    BY <1>12 DEF ConnectMalformed, In
  <2> DEFINE m == Alone(id, t)
             r == [m.client[c] EXCEPT !.client_id = id, !.will = w]
             n == [m EXCEPT !.client[c] = r]
  <2>5. m \in Mem /\ Sound(m, tcp) /\ m.client[c].connState = "TCP_CONNECTED"
    BY <1>12, <2>3, <2>4, AloneEffect
  <2>6. m.client \in [Conn -> ClientCon]  BY <2>5 DEF Mem
  <2>7. Identified(c, id, w, t) = n
    <3>1. Identified(c, id, w, t) = [m EXCEPT !.client[c].client_id = id, !.client[c].will = w]
      BY DEF Identified, Alone
    <3> HIDE DEF m
    <3>2. QED  BY <2>5, <2>6, <3>1 DEF Mem
  <2> HIDE DEF m
  <2>8. r \in ClientCon /\ r.connState = "TCP_CONNECTED"
    BY <1>12, <2>5, <2>6 DEF ClientCon, ConnState
  <2> HIDE DEF r
  <2>9. /\ n \in Mem /\ Sessions(n) /\ Pointers(n, tcp)
        /\ \A d \in Conn \ {c} : Unnamed(n.client[d])
    BY <2>5, <2>8, RecordChange DEF Begun
  <2> HIDE DEF n
  <2>10. QED  BY <1>0, <2>2, <2>4, <2>7, <2>9, DropSound DEF DropClient
<1>13. ASSUME NEW fs \in FilterList, NEW more, Subscribe(c, fs, more) PROVE IInv'
  <2> DEFINE n == [mem EXCEPT !.topics = add_topics(@, c, fs)]
             found == RetainedFor(retained_list, fs[Len(fs)])
  <2>1. client[c].connState = "MQTT_DATA"  BY <1>13 DEF Subscribe, In
  <2>2. fs \in Seq(Filter)  BY InputsAssumption
  <2>3. n \in Mem /\ Sound(n, tcp)  BY <1>0, <2>1, <2>2, AddKeeps
  <2>4. retained_list \in [RetainedSlots -> RetainedEntry]  BY DEF IInv, TypeOK
  <2>5. found \in Seq(Message)  BY <2>4, RetainedForType
  <2>6. EndOfPacket(Queue(n, c, <<Reply>> \o found), c, FALSE, more)
    BY <1>13 DEF Subscribe
  <2> HIDE DEF n, found
  <2>7. <<Reply>> \in Seq(Message)  BY ReplyTypes, OneElement
  <2>8. <<Reply>> \o found \in Seq(Message)  BY <2>5, <2>7
  <2>9. QED  BY <2>3, <2>6, <2>8, ReplySound
<1>14. ASSUME NEW F, NEW more, Unsubscribe(c, F, more) PROVE IInv'
  <2> DEFINE n == [mem EXCEPT !.topics = delete_topics(@, c, F)]
  <2>1. n \in Mem /\ Sound(n, tcp)  BY <1>0, DeleteKeeps
  <2>2. EndOfPacket(Queue(n, c, <<Reply>>), c, FALSE, more)  BY <1>14 DEF Unsubscribe
  <2> HIDE DEF n
  <2>3. <<Reply>> \in Seq(Message)  BY ReplyTypes, OneElement
  <2>4. QED  BY <2>1, <2>2, <2>3, ReplySound
<1>15. ASSUME NEW p \in Publications, NEW more, Publish(c, p, more) PROVE IInv'
  <2>1. p \in [topic : Topic, data : Payload, retain : BOOLEAN]  BY InputsAssumption
  <2>2. Distribute(mem, p) \in Mem /\ Sound(Distribute(mem, p), tcp)
    BY <1>0, <2>1, DistributeKeeps, KeepsSound
  <2>3. EndOfPacket(Distribute(mem, p), c, TRUE, more)  BY <1>15 DEF Publish
  <2>4. QED  BY <2>2, <2>3, EndSound
<1>16. ASSUME NEW more, PingReq(c, more) PROVE IInv'
  <2>1. EndOfPacket(Queue(mem, c, <<Reply>>), c, FALSE, more)  BY <1>16 DEF PingReq
  <2>2. <<Reply>> \in Seq(Message)  BY ReplyTypes, OneElement
  <2>3. QED  BY <1>0, <2>1, <2>2, ReplySound
<1>17. ASSUME NEW p, NEW more, Ignored(c, p, more) PROVE IInv'
  <2>1. EndOfPacket(mem, c, p, more)  BY <1>17 DEF Ignored
  <2>2. QED  BY <1>0, <2>1, EndSound
<1>18. CASE Disconnect(c)
  <2> DEFINE r == [mem.client[c] EXCEPT !.will = NoWill]
             n == [mem EXCEPT !.client[c] = r]
  <2>1. client[c].connState = "MQTT_DATA" /\ DropClient(n, c)
    BY <1>18 DEF Disconnect, In
  <2>2. mem.client[c] \in ClientCon  BY <1>0 DEF Mem
  <2>3. r \in ClientCon /\ r.connState = "MQTT_DATA"
    BY <1>0, <2>1, <2>2 DEF ClientCon
  <2> HIDE DEF r
  <2>4. n \in Mem /\ Sound(n, tcp)
    BY <1>0, <2>1, <2>3, RecordChange DEF Begun, Unnamed
  <2>5. QED  BY <2>1, <2>4, <1>1
<1>19. QED
  BY <1>2, <1>3, <1>4, <1>5, <1>6, <1>7, <1>8, <1>9, <1>10, <1>11, <1>12, <1>13, <1>14,
     <1>15, <1>16, <1>17, <1>18, CarriedWills DEF Receive

-----------------------------------------------------------------------------
(* Steps of the other callbacks of the network stack *)

\* A connection that is not gone may change its state.
LEMMA OtherTcp ==
    ASSUME NEW m \in Mem, NEW s, NEW t, Sound(m, s), \A d \in Conn : t[d] = "NONE" => s[d] = "NONE"
    PROVE  Sound(m, t)
<1>1. m.dummy \in Conn \cup {NULL}  BY DEF Mem
<1>2. Pointers(m, t)  BY <1>1 DEF Sound, Pointers
<1>3. QED  BY <1>2 DEF Sound

\* A connection that no client and no dummy is behind any more may go.
LEMMA GoneSound ==
    ASSUME NEW m \in Mem, NEW c \in Conn, NEW s \in [Conn -> TcpState], Sessions(m),
           m.client[c].connState = "FREED", m.dummy # c,
           \A d \in Conn \ {c} : /\ Unnamed(m.client[d])
                                 /\ m.reverse[d] = "own" <=> m.client[d].connState # "FREED"
                                 /\ s[d] = "NONE" => m.reverse[d] = "NULL",
           m.dummy # NULL => m.reverse[m.dummy] = "dummy" /\ s[m.dummy] # "NONE"
    PROVE  /\ [m EXCEPT !.reverse[c] = "NULL"] \in Mem
           /\ Sound([m EXCEPT !.reverse[c] = "NULL"], [s EXCEPT ![c] = "NONE"])
           /\ [s EXCEPT ![c] = "NONE"] \in [Conn -> TcpState]
<1> DEFINE n == [m EXCEPT !.reverse[c] = "NULL"]
           t == [s EXCEPT ![c] = "NONE"]
<1>1. /\ n \in Mem /\ n.list = m.list /\ n.topics = m.topics
      /\ n.dummy = m.dummy /\ n.client = m.client
      /\ n.reverse = [m.reverse EXCEPT ![c] = "NULL"]
  BY DEF Mem
<1>2. m.reverse \in [Conn -> {"own", "dummy", "NULL"}] /\ m.dummy \in Conn \cup {NULL}
  BY DEF Mem
<1> HIDE DEF n
<1>3. Sessions(n)  BY <1>1 DEF Sessions
<1>4. /\ n.reverse[c] = "NULL" /\ \A d \in Conn \ {c} : n.reverse[d] = m.reverse[d]
      /\ t[c] = "NONE" /\ \A d \in Conn \ {c} : t[d] = s[d]
      /\ t \in [Conn -> TcpState]
  BY <1>1, <1>2 DEF TcpState
<1> HIDE DEF t
<1>5. Pointers(n, t)  BY <1>1, <1>2, <1>4 DEF Pointers
<1>6. \A d \in Conn : Unnamed(n.client[d])
  <2>1. Unnamed(m.client[c])  BY DEF Unnamed
  <2>2. \A d \in Conn : Unnamed(m.client[d])  BY <2>1
  <2>3. QED  BY <1>1, <2>2
<1>7. QED  BY <1>1, <1>3, <1>4, <1>5, <1>6 DEF Sound, n, t

\* A session of its own, and nothing else, may begin where there was none.
LEMMA AcceptSound ==
    ASSUME IInv, NEW c \in Conn, Accept(c)
    PROVE  IInv'
<1> DEFINE r == [Freed EXCEPT !.connState = "TCP_CONNECTED", !.connectionTimeout = ConnectTicks]
           list == <<c>> \o clientcon_list
           m == [mem EXCEPT !.reverse[c] = "own", !.list = list, !.client[c] = r]
           t == [tcp EXCEPT ![c] = "CONNECT"]
<1>1. /\ mem \in Mem /\ Sound(mem, tcp) /\ mem.client = client /\ mem.list = clientcon_list
      /\ mem.reverse = reverse /\ clientcon_list \in Seq(Conn)
      /\ client \in [Conn -> ClientCon] /\ reverse \in [Conn -> {"own", "dummy", "NULL"}]
      /\ dummy_pCon \in Conn \cup {NULL} /\ mem.dummy = dummy_pCon
      /\ inflight \in [Conn -> BOOLEAN] /\ tcp \in [Conn -> TcpState] /\ up \in BOOLEAN
      /\ mem.topics = topic_list
  BY Before
<1>2. tcp[c] = "NONE" /\ Become(m, t, inflight, NULL)
  BY <1>1 DEF Accept
<1>3. /\ r \in ClientCon /\ r.connState = "TCP_CONNECTED" /\ r.client_id = ""
  <2>1. ConnectTicks \in Nat  BY BoundsAssumption
  <2>2. /\ Freed \in ClientCon /\ Freed.client_id = ""  BY FreedType DEF Freed
  <2> HIDE DEF r
  <2>3. r = [Freed EXCEPT !.connState = "TCP_CONNECTED", !.connectionTimeout = ConnectTicks]
    BY DEF r
  <2>4. QED  BY <2>1, <2>2, <2>3 DEF ClientCon, ConnState
<1>4. list \in Seq(Conn) /\ Len(list) = Len(clientcon_list) + 1 /\ list[1] = c
      /\ \A i \in DOMAIN clientcon_list : list[i + 1] = clientcon_list[i]
  BY <1>1
<1> HIDE DEF r, list
<1>5. /\ m \in Mem /\ m.list = list /\ m.topics = topic_list /\ m.dummy = dummy_pCon
      /\ m.client = [client EXCEPT ![c] = r] /\ m.reverse = [reverse EXCEPT ![c] = "own"]
  BY <1>1, <1>3, <1>4 DEF Mem
<1> HIDE DEF m
<1>6. reverse[c] = "NULL" /\ client[c].connState = "FREED"
  BY <1>1, <1>2 DEF Sound, Pointers
<1>7. /\ m.client[c] = r /\ m.reverse[c] = "own"
      /\ \A d \in Conn \ {c} : m.client[d] = client[d] /\ m.reverse[d] = reverse[d]
  BY <1>1, <1>5
<1>8. \A i \in DOMAIN clientcon_list :
         clientcon_list[i] \in Conn \ {c} /\ Begun(client[clientcon_list[i]])
  <2>1. \A i \in DOMAIN clientcon_list :
           clientcon_list[i] \in Conn /\ Begun(client[clientcon_list[i]])
    BY <1>1 DEF Sound, Sessions
  <2>2. QED  BY <1>6, <2>1 DEF Begun
<1>9. \A i \in DOMAIN list : \/ i = 1
                             \/ /\ i - 1 \in DOMAIN clientcon_list
                                /\ list[i] = clientcon_list[i - 1]
  <2> SUFFICES ASSUME NEW i \in DOMAIN list, i # 1
               PROVE  i - 1 \in DOMAIN clientcon_list /\ list[i] = clientcon_list[i - 1]
    OBVIOUS
  <2>1. i \in 1 .. Len(clientcon_list) + 1 /\ Len(clientcon_list) \in Nat
    BY <1>1, <1>4
  <2>2. i - 1 \in DOMAIN clientcon_list /\ i - 1 + 1 = i  BY <1>1, <2>1
  <2>3. list[i - 1 + 1] = clientcon_list[i - 1]  BY <1>4, <2>2
  <2>4. QED  BY <2>2, <2>3
<1>10. Sessions(m)
  <2>1. \A i, j \in DOMAIN m.list : m.list[i] = m.list[j] => i = j
    <3> SUFFICES ASSUME NEW i \in DOMAIN list, NEW j \in DOMAIN list, list[i] = list[j]
                 PROVE  i = j
      BY <1>5
    <3>1. i \in Int /\ j \in Int  BY <1>4
    <3>2. CASE i = 1 \/ j = 1  BY <1>4, <1>8, <1>9, <3>2
    <3>3. CASE i # 1 /\ j # 1
      <4>1. i - 1 \in DOMAIN clientcon_list /\ j - 1 \in DOMAIN clientcon_list
            /\ clientcon_list[i - 1] = clientcon_list[j - 1]
        BY <1>9, <3>3
      <4>2. i - 1 = j - 1  BY <1>1, <4>1 DEF Sound, Sessions
      <4>3. QED  BY <3>1, <4>2
    <3>4. QED  BY <3>2, <3>3
  <2>2. ASSUME NEW i \in DOMAIN m.list PROVE Begun(m.client[m.list[i]])
    <3>1. CASE i = 1
      <4>1. m.client[m.list[i]] = r  BY <1>4, <1>5, <1>7, <3>1
      <4>2. QED  BY <1>3, <4>1 DEF Begun
    <3>2. CASE i # 1
      <4>1. i - 1 \in DOMAIN clientcon_list /\ m.list[i] = clientcon_list[i - 1]
        BY <1>5, <1>9, <2>2, <3>2
      <4>2. m.client[m.list[i]] = client[m.list[i]] /\ Begun(client[m.list[i]])
        BY <1>7, <1>8, <4>1
      <4>3. QED  BY <4>2
    <3>3. QED  BY <3>1, <3>2
  <2>3. ASSUME NEW d \in Conn, Begun(m.client[d]) PROVE \E i \in DOMAIN m.list : m.list[i] = d
    <3>1. CASE d = c
      <4>1. 1 \in DOMAIN list  BY <1>1, <1>4
      <4>2. QED  BY <1>4, <1>5, <3>1, <4>1
    <3>2. CASE d # c
      <4>1. PICK i \in DOMAIN clientcon_list : clientcon_list[i] = d
        BY <1>1, <1>7, <2>3, <3>2 DEF Sound, Sessions
      <4>2. i + 1 \in DOMAIN list  BY <1>1, <1>4
      <4>3. QED  BY <1>4, <1>5, <4>1, <4>2
    <3>3. QED  BY <3>1, <3>2
  <2>4. \A i \in Slots : m.topics[i].owner \in Conn =>
                            m.client[m.topics[i].owner].connState = "MQTT_DATA"
    BY <1>1, <1>5, <1>6, <1>7 DEF Sound, Sessions
  <2>5. QED  BY <2>1, <2>2, <2>3, <2>4 DEF Sessions
<1>11. t \in [Conn -> TcpState] /\ t[c] # "NONE" /\ \A d \in Conn \ {c} : t[d] = tcp[d]
  BY <1>1 DEF TcpState
<1> HIDE DEF t
<1>12. Pointers(m, t)
  <2>1. /\ \A d \in Conn : reverse[d] = "own" <=> client[d].connState # "FREED"
        /\ \A d \in Conn : tcp[d] = "NONE" => reverse[d] = "NULL"
        /\ dummy_pCon # NULL => reverse[dummy_pCon] = "dummy" /\ tcp[dummy_pCon] # "NONE"
    BY <1>1 DEF Sound, Pointers
  <2>2. \A d \in Conn : m.reverse[d] = "own" <=> m.client[d].connState # "FREED"
    <3>1. m.client[c].connState # "FREED"  BY <1>3, <1>7
    <3>2. QED  BY <1>7, <2>1, <3>1
  <2>3. \A d \in Conn : t[d] = "NONE" => m.reverse[d] = "NULL"  BY <1>7, <1>11, <2>1
  <2>4. dummy_pCon # NULL => dummy_pCon \in Conn \ {c}  BY <1>1, <1>6, <2>1
  <2>5. m.dummy # NULL => m.reverse[m.dummy] = "dummy" /\ t[m.dummy] # "NONE"
    BY <1>5, <1>7, <1>11, <2>1, <2>4
  <2>6. QED  BY <2>2, <2>3, <2>5 DEF Pointers
<1>13. \A d \in Conn : Unnamed(m.client[d])
  BY <1>1, <1>3, <1>7 DEF Sound, Unnamed
<1>14. QED  BY <1>1, <1>2, <1>5, <1>10, <1>11, <1>12, <1>13, BecomeSound DEF Sound

LEMMA AcceptRefusedSound ==
    ASSUME IInv, NEW c \in Conn, AcceptRefused(c)
    PROVE  IInv'
<1> DEFINE r == [client[c] EXCEPT !.connState = "TCP_DISCONNECT"]
           m == [mem EXCEPT !.reverse[c] = "own", !.client[c] = r]
           t == [tcp EXCEPT ![c] = "CONNECT"]
<1>1. /\ mem \in Mem /\ Sound(mem, tcp) /\ mem.client = client /\ mem.list = clientcon_list
      /\ mem.reverse = reverse /\ mem.dummy = dummy_pCon /\ mem.topics = topic_list
      /\ client \in [Conn -> ClientCon] /\ reverse \in [Conn -> {"own", "dummy", "NULL"}]
      /\ dummy_pCon \in Conn \cup {NULL} /\ clientcon_list \in Seq(Conn)
      /\ inflight \in [Conn -> BOOLEAN] /\ tcp \in [Conn -> TcpState] /\ up \in BOOLEAN
  BY Before
<1>2. tcp[c] = "NONE" /\ Become(system_os_post(m, c), t, inflight, NULL)
  BY <1>1 DEF AcceptRefused
<1>3. client[c] \in ClientCon  BY <1>1
<1>4. r \in ClientCon /\ r.connState = "TCP_DISCONNECT"  BY <1>3 DEF ClientCon, ConnState
<1> HIDE DEF r
<1>5. /\ m \in Mem /\ m.list = clientcon_list /\ m.topics = topic_list /\ m.dummy = dummy_pCon
      /\ m.client = [client EXCEPT ![c] = r] /\ m.reverse = [reverse EXCEPT ![c] = "own"]
  BY <1>1, <1>4 DEF Mem
<1> HIDE DEF m
<1>6. reverse[c] = "NULL" /\ client[c].connState = "FREED"
  BY <1>1, <1>2 DEF Sound, Pointers
<1>7. /\ m.client[c] = r /\ m.reverse[c] = "own"
      /\ \A d \in Conn \ {c} : m.client[d] = client[d] /\ m.reverse[d] = reverse[d]
  BY <1>1, <1>5
<1>8. Sessions(m)
  <2>1. \A d \in Conn : Begun(m.client[d]) <=> Begun(client[d])
    BY <1>4, <1>6, <1>7 DEF Begun
  <2>2. \A i \in DOMAIN clientcon_list : clientcon_list[i] \in Conn  BY <1>1
  <2>3. \A d \in Conn : client[d].connState = "MQTT_DATA" => m.client[d].connState = "MQTT_DATA"
    BY <1>6, <1>7
  <2>4. QED  BY <1>1, <1>5, <2>1, <2>2, <2>3 DEF Sound, Sessions
<1>9. t \in [Conn -> TcpState] /\ t[c] # "NONE" /\ \A d \in Conn \ {c} : t[d] = tcp[d]
  BY <1>1 DEF TcpState
<1> HIDE DEF t
<1>10. Pointers(m, t)
  <2>1. /\ \A d \in Conn : reverse[d] = "own" <=> client[d].connState # "FREED"
        /\ \A d \in Conn : tcp[d] = "NONE" => reverse[d] = "NULL"
        /\ dummy_pCon # NULL => reverse[dummy_pCon] = "dummy" /\ tcp[dummy_pCon] # "NONE"
    BY <1>1 DEF Sound, Pointers
  <2>2. \A d \in Conn : m.reverse[d] = "own" <=> m.client[d].connState # "FREED"
    <3>1. m.client[c].connState # "FREED"  BY <1>4, <1>7
    <3>2. QED  BY <1>7, <2>1, <3>1
  <2>3. \A d \in Conn : t[d] = "NONE" => m.reverse[d] = "NULL"  BY <1>7, <1>9, <2>1
  <2>4. dummy_pCon # NULL => dummy_pCon \in Conn \ {c}  BY <1>1, <1>6, <2>1
  <2>5. m.dummy # NULL => m.reverse[m.dummy] = "dummy" /\ t[m.dummy] # "NONE"
    BY <1>5, <1>7, <1>9, <2>1, <2>4
  <2>6. QED  BY <2>2, <2>3, <2>5 DEF Pointers
<1>11. \A d \in Conn : Unnamed(m.client[d])
  BY <1>1, <1>4, <1>7 DEF Sound, Unnamed
<1>12. Sound(m, t)  BY <1>8, <1>10, <1>11 DEF Sound
<1>13. system_os_post(m, c) \in Mem /\ Sound(system_os_post(m, c), t)
  BY <1>5, <1>12, PostKeeps, KeepsSound
<1>14. QED  BY <1>1, <1>2, <1>9, <1>13, BecomeSound

\* The steps that change the state of a connection only.
LEMMA TcpOnlySound ==
    ASSUME IInv, NEW c \in Conn, AcceptNoMemory(c) \/ Break(c)
    PROVE  IInv'
<1>1. /\ mem \in Mem /\ Sound(mem, tcp) /\ tcp \in [Conn -> TcpState]
      /\ inflight \in [Conn -> BOOLEAN] /\ up \in BOOLEAN
  BY Before
<1>2. ASSUME NEW s \in {"CONNECT", "CLOSE"}
      PROVE  [tcp EXCEPT ![c] = s] \in [Conn -> TcpState] /\ Sound(mem, [tcp EXCEPT ![c] = s])
  <2> DEFINE t == [tcp EXCEPT ![c] = s]
  <2>1. t \in [Conn -> TcpState] /\ \A d \in Conn : t[d] = "NONE" => tcp[d] = "NONE"
    BY <1>1 DEF TcpState
  <2> HIDE DEF t
  <2>2. Sound(mem, t)  BY <1>1, <2>1, OtherTcp
  <2>3. QED  BY <2>1, <2>2 DEF t
<1>3. CASE AcceptNoMemory(c)
  BY <1>1, <1>2, <1>3, BecomeSound DEF AcceptNoMemory
<1>4. CASE Break(c)
  <2>1. [inflight EXCEPT ![c] = FALSE] \in [Conn -> BOOLEAN]  BY <1>1
  <2>2. Become(mem, [tcp EXCEPT ![c] = "CLOSE"], [inflight EXCEPT ![c] = FALSE], NULL)
    BY <1>4 DEF Break
  <2>3. QED  BY <1>1, <1>2, <2>1, <2>2, BecomeSound
<1>5. QED  BY <1>3, <1>4

LEMMA SentSound ==
    ASSUME IInv, NEW c \in Conn, Sent(c)
    PROVE  IInv'
<1> DEFINE r == [client[c] EXCEPT !.sendTimeout = 0]
           acked == CASE reverse[c] = "own" -> [mem EXCEPT !.client[c].sendTimeout = 0]
                      [] reverse[c] = "dummy" -> mem
                      [] reverse[c] = "NULL" -> [mem EXCEPT !.fault = TRUE]
           left == IF client[c].connState = "TCP_DISCONNECTING"
                   THEN disconnectClientCon(acked, c) ELSE acked
           f == [inflight EXCEPT ![c] = FALSE]
<1>1. /\ mem \in Mem /\ Sound(mem, tcp) /\ mem.client = client
      /\ client \in [Conn -> ClientCon] /\ reverse \in [Conn -> {"own", "dummy", "NULL"}]
      /\ inflight \in [Conn -> BOOLEAN] /\ tcp \in [Conn -> TcpState] /\ up \in BOOLEAN
      /\ client[c].connState # "FREED" => tcp[c] # "NONE"
  BY Before
<1>2. Become(activate_next_client(left), tcp, f, NULL)  BY DEF Sent
<1>3. acked \in Mem /\ Sound(acked, tcp)
  <2>1. CASE reverse[c] = "own"
    <3>1. client[c] \in ClientCon  BY <1>1
    <3>2. r \in ClientCon /\ r.connState = client[c].connState /\ r.client_id = client[c].client_id
      BY <3>1 DEF ClientCon
    <3>3. acked = [mem EXCEPT !.client[c] = r]  BY <1>1, <2>1
    <3>4. Unnamed(r)  BY <1>1, <3>2 DEF Sound, Unnamed
    <3> HIDE DEF r, acked
    <3>5. QED  BY <1>1, <3>2, <3>3, <3>4, RecordChange DEF Begun
  <2>2. CASE reverse[c] = "dummy"
    BY <1>1, <2>2
  <2>3. CASE reverse[c] = "NULL"
    <3>1. acked = [mem EXCEPT !.fault = TRUE]  BY <2>3
    <3> HIDE DEF acked
    <3>2. acked \in Mem /\ SameSessions(mem, acked)  BY <1>1, <3>1 DEF Mem, SameSessions
    <3>3. QED  BY <1>1, <3>2, KeepsSound
  <2>4. QED  BY <1>1, <2>1, <2>2, <2>3
<1> HIDE DEF acked
<1>4. left \in Mem /\ Sound(left, tcp)
  <2>1. CASE client[c].connState = "TCP_DISCONNECTING"
    <3>1. tcp[c] # "NONE"  BY <1>1, <2>1
    <3>2. QED  BY <1>3, <2>1, <3>1, DisconnectEffect DEF Sound
  <2>2. CASE client[c].connState # "TCP_DISCONNECTING"
    BY <1>3, <2>2
  <2>3. QED  BY <2>1, <2>2
<1> HIDE DEF left
<1>5. activate_next_client(left) \in Mem /\ Sound(activate_next_client(left), tcp)
  BY <1>4, ActivateKeeps, KeepsSound
<1>6. f \in [Conn -> BOOLEAN]  BY <1>1
<1> HIDE DEF f
<1>7. QED  BY <1>1, <1>2, <1>5, <1>6, BecomeSound

\* A deleted client's connection goes, with the client's pointers.
LEMMA DeletedGone ==
    ASSUME IInv, NEW c \in Conn, client[c].connState # "FREED"
    PROVE  LET n == [deleteClientCon(mem, c) EXCEPT !.reverse[c] = "NULL"]
               t == [tcp EXCEPT ![c] = "NONE"]
           IN  n \in Mem /\ Sound(n, t) /\ t \in [Conn -> TcpState]
<1> DEFINE n == deleteClientCon(mem, c)
<1>1. /\ mem \in Mem /\ Sound(mem, tcp) /\ mem.client = client /\ mem.reverse = reverse
      /\ mem.dummy = dummy_pCon /\ tcp \in [Conn -> TcpState]
      /\ reverse[c] = "own"
  BY Before
<1>2. n \in Mem /\ Sessions(n) /\ Ended(mem, n, c) /\ n.dummy = mem.dummy /\ n.reverse = mem.reverse
  BY <1>1, DeleteClientEffect DEF Sound
<1> HIDE DEF n
<1>3. n.client[c].connState = "FREED"  BY <1>2 DEF Ended
<1>4. /\ dummy_pCon # NULL => reverse[dummy_pCon] = "dummy" /\ tcp[dummy_pCon] # "NONE"
      /\ \A d \in Conn : reverse[d] = "own" <=> client[d].connState # "FREED"
      /\ \A d \in Conn : tcp[d] = "NONE" => reverse[d] = "NULL"
  BY <1>1 DEF Sound, Pointers
<1>5. n.dummy # c
  <2>1. NULL \notin Conn  BY NamesAssumption
  <2>2. QED  BY <1>1, <1>2, <1>4, <2>1
<1>6. \A d \in Conn \ {c} : Unnamed(n.client[d])
  BY <1>1, <1>2 DEF Sound, Ended, Unnamed
<1>7. \A d \in Conn \ {c} : /\ n.reverse[d] = "own" <=> n.client[d].connState # "FREED"
                            /\ tcp[d] = "NONE" => n.reverse[d] = "NULL"
  BY <1>1, <1>2, <1>4 DEF Ended
<1>8. n.dummy # NULL => n.reverse[n.dummy] = "dummy" /\ tcp[n.dummy] # "NONE"
  BY <1>1, <1>2, <1>4
<1>9. QED  BY <1>1, <1>2, <1>3, <1>5, <1>6, <1>7, <1>8, GoneSound DEF n

LEMMA DisconSound ==
    ASSUME IInv, NEW c \in Conn, Discon(c)
    PROVE  IInv'
<1> DEFINE gone == CASE reverse[c] = "own" -> deleteClientCon(mem, c)
                     [] reverse[c] = "dummy" -> [mem EXCEPT !.dummy = NULL]
                     [] reverse[c] = "NULL" -> mem
           n == [gone EXCEPT !.reverse[c] = "NULL"]
           t == [tcp EXCEPT ![c] = "NONE"]
           f == [inflight EXCEPT ![c] = FALSE]
<1>1. /\ mem \in Mem /\ Sound(mem, tcp) /\ mem.client = client /\ mem.reverse = reverse
      /\ mem.dummy = dummy_pCon /\ reverse \in [Conn -> {"own", "dummy", "NULL"}]
      /\ inflight \in [Conn -> BOOLEAN] /\ tcp \in [Conn -> TcpState] /\ up \in BOOLEAN
      /\ dummy_pCon \in Conn \cup {NULL}
  BY Before
<1>2. /\ dummy_pCon # NULL => reverse[dummy_pCon] = "dummy" /\ tcp[dummy_pCon] # "NONE"
      /\ \A d \in Conn : reverse[d] = "own" <=> client[d].connState # "FREED"
      /\ \A d \in Conn : tcp[d] = "NONE" => reverse[d] = "NULL"
      /\ Sessions(mem) /\ \A d \in Conn : Unnamed(client[d])
  BY <1>1 DEF Sound, Pointers
<1>3. NULL \notin Conn  BY NamesAssumption
<1>4. n \in Mem /\ Sound(n, t) /\ t \in [Conn -> TcpState]
  <2>1. CASE reverse[c] = "own"
    <3>1. client[c].connState # "FREED" /\ gone = deleteClientCon(mem, c)  BY <1>2, <2>1
    <3> HIDE DEF gone
    <3>2. QED  BY <3>1, DeletedGone
  <2>2. CASE reverse[c] = "dummy"
    <3>1. gone = [mem EXCEPT !.dummy = NULL]  BY <2>2
    <3> HIDE DEF gone
    <3>2. /\ gone \in Mem /\ gone.list = mem.list /\ gone.topics = mem.topics
          /\ gone.dummy = NULL /\ gone.client = client /\ gone.reverse = reverse
      BY <1>1, <3>1 DEF Mem
    <3>3. Sessions(gone)  BY <1>1, <1>2, <3>2 DEF Sessions
    <3>4. client[c].connState = "FREED"  BY <1>2, <2>2
    <3>5. /\ gone.client[c].connState = "FREED" /\ gone.dummy # c
          /\ gone.dummy # NULL => gone.reverse[gone.dummy] = "dummy" /\ tcp[gone.dummy] # "NONE"
      BY <1>3, <3>2, <3>4
    <3>6. \A d \in Conn \ {c} : /\ Unnamed(gone.client[d])
                                /\ gone.reverse[d] = "own" <=> gone.client[d].connState # "FREED"
                                /\ tcp[d] = "NONE" => gone.reverse[d] = "NULL"
      BY <1>2, <3>2
    <3>7. gone \in Mem /\ tcp \in [Conn -> TcpState]  BY <1>1, <3>2
    <3>8. QED  BY <3>3, <3>5, <3>6, <3>7, GoneSound
  <2>3. CASE reverse[c] = "NULL"
    <3>1. gone = mem  BY <2>3
    <3> HIDE DEF gone
    <3>2. client[c].connState = "FREED" /\ dummy_pCon # c  BY <1>2, <1>3, <2>3
    <3>3. QED  BY ZenonT(60), <1>1, <1>2, <3>1, <3>2, GoneSound
  <2>4. QED  BY <1>1, <2>1, <2>2, <2>3
<1>5. f \in [Conn -> BOOLEAN]  BY <1>1
<1>6. Become(n, t, f, NULL)  BY DEF Discon
<1> HIDE DEF n, t, f
<1>7. QED  BY <1>1, <1>4, <1>5, <1>6, BecomeSound

-----------------------------------------------------------------------------
(* Steps of the timer and of the task *)

\* Queues and timeouts may change.
LEMMA RefreshSound ==
    ASSUME NEW m \in Mem, NEW c \in Conn, NEW t, Sound(m, t), NEW q \in Seq(Message),
           NEW s \in Nat, NEW k \in Nat
    PROVE  LET r == [m.client[c] EXCEPT !.msgQueue = q, !.sendTimeout = s, !.connectionTimeout = k]
               n == [m EXCEPT !.client[c] = r]
           IN  /\ n \in Mem /\ Sound(n, t) /\ n.client[c] = r
               /\ r \in ClientCon /\ r.connState = m.client[c].connState
<1> DEFINE r == [m.client[c] EXCEPT !.msgQueue = q, !.sendTimeout = s, !.connectionTimeout = k]
           n == [m EXCEPT !.client[c] = r]
<1>1. m.client \in [Conn -> ClientCon]  BY DEF Mem
<1>2. m.client[c] \in ClientCon  BY <1>1
<1>3. /\ r \in ClientCon /\ r.connState = m.client[c].connState
      /\ r.client_id = m.client[c].client_id
  BY <1>2 DEF ClientCon
<1> HIDE DEF r
<1>4. Unnamed(r)  BY <1>3 DEF Sound, Unnamed
<1>5. n \in Mem /\ Sound(n, t)  BY <1>3, <1>4, RecordChange DEF Begun
<1>6. n.client[c] = r  BY <1>1 DEF Mem
<1>7. QED  BY <1>3, <1>5, <1>6 DEF r

LEMMA TimerSound ==
    ASSUME IInv, NEW c \in Conn, Timer(c)
    PROVE  IInv'
<1> DEFINE s == IF client[c].sendTimeout > 0 THEN client[c].sendTimeout - 1 ELSE 0
           k == client[c].connectionTimeout
           q == client[c].msgQueue
           r(x) == [client[c] EXCEPT !.msgQueue = q, !.sendTimeout = s, !.connectionTimeout = x]
           ticked == [mem EXCEPT !.client[c].sendTimeout = IF @ > 0 THEN @ - 1 ELSE 0]
<1>1. /\ mem \in Mem /\ Sound(mem, tcp) /\ mem.client = client
      /\ client \in [Conn -> ClientCon]
      /\ inflight \in [Conn -> BOOLEAN] /\ tcp \in [Conn -> TcpState] /\ up \in BOOLEAN
      /\ client[c].connState # "FREED" => tcp[c] # "NONE"
  BY Before
<1>2. client[c] \in ClientCon  BY <1>1
<1>3. s \in Nat /\ k \in Nat /\ q \in Seq(Message)
  <2>1. client[c].sendTimeout \in Nat /\ k \in Nat /\ q \in Seq(Message)
    BY <1>2 DEF ClientCon
  <2>2. QED  BY <2>1
<1>4. client[c].connState # "FREED"  BY DEF Timer, Initialised
<1>5. ticked = [mem EXCEPT !.client[c] = r(k)]
  <2>1. r(k) = [client[c] EXCEPT !.sendTimeout = s]  BY <1>2 DEF ClientCon
  <2>2. ticked = [mem EXCEPT !.client[c] = [client[c] EXCEPT !.sendTimeout = s]]
    BY <1>1
  <2>3. QED  BY <2>1, <2>2
<1>6. CASE k > 0
  <2> DEFINE n == [ticked EXCEPT !.client[c].connectionTimeout = @ - 1]
  <2>1. Become(n, tcp, inflight, NULL)  BY <1>6 DEF Timer
  <2>2. k - 1 \in Nat  BY <1>3, <1>6
  <2>3. n = [mem EXCEPT !.client[c] = r(k - 1)]
    <3>1. r(k) \in ClientCon /\ r(k).connectionTimeout = k
      BY <1>2, <1>3 DEF ClientCon
    <3>2. r(k - 1) = [r(k) EXCEPT !.connectionTimeout = k - 1]
      BY <1>2, <1>3, <2>2 DEF ClientCon
    <3> HIDE DEF r, k, s, q
    <3>3. ticked.client = [client EXCEPT ![c] = r(k)]  BY <1>1, <1>5 DEF Mem
    <3>4. n = [ticked EXCEPT !.client = [client EXCEPT ![c] = r(k - 1)]]
      <4>1. n = [ticked EXCEPT !.client[c] = [r(k) EXCEPT !.connectionTimeout = r(k).connectionTimeout - 1]]
        BY <1>1, <3>3
      <4>2. [[client EXCEPT ![c] = r(k)] EXCEPT ![c] = r(k - 1)] = [client EXCEPT ![c] = r(k - 1)]
        BY <1>1
      <4> HIDE DEF ticked
      <4>3. QED  BY <3>1, <3>2, <3>3, <4>1, <4>2
    <3>5. QED  BY ZenonT(60), <1>1, <1>5, <3>4 DEF Mem
  <2> HIDE DEF n
  <2>4. n \in Mem /\ Sound(n, tcp)
    <3> HIDE DEF s, k, q
    <3>1. QED  BY <1>1, <1>3, <2>2, <2>3, RefreshSound
  <2>5. QED  BY <1>1, <2>1, <2>4, BecomeSound
<1>7. CASE ~(k > 0)
  <2>1. Become(disconnectClientCon(ticked, c), tcp, inflight, NULL)  BY <1>7 DEF Timer
  <2> HIDE DEF ticked
  <2>2. ticked \in Mem /\ Sound(ticked, tcp)
    <3> HIDE DEF s, k, q
    <3>1. QED  BY <1>1, <1>3, <1>5, RefreshSound
  <2>3. QED  BY <1>1, <1>4, <2>1, <2>2, DropSound DEF Sound
<1>8. QED  BY <1>6, <1>7

\* The task has taken what was posted.
LEMMA TakenSound ==
    ASSUME IInv
    PROVE  Taken \in Mem /\ Sound(Taken, tcp) /\ Taken.client = client
<1>1. mem \in Mem /\ Sound(mem, tcp) /\ mem.client = client  BY Before
<1>2. Taken \in Mem /\ SameSessions(mem, Taken) /\ Taken.client = client
  BY <1>1 DEF Taken, Mem, SameSessions
<1>3. QED  BY <1>1, <1>2, KeepsSound

LEMMA SendingType ==
    ASSUME IInv, NEW c \in Conn
    PROVE  Sending(c) \in [Conn -> BOOLEAN]
<1>1. inflight \in [Conn -> BOOLEAN]  BY Before
<1>2. (inflight[c] \/ tcp[c] = "CONNECT") \in BOOLEAN  OBVIOUS
<1>3. QED  BY <1>1, <1>2, Zenon DEF Sending

LEMMA ClosingSound ==
    ASSUME IInv, NEW d \in Conn \cup {NULL}
    PROVE  Closing(d) \in [Conn -> TcpState] /\ Sound(Taken, Closing(d))
<1>1. Taken \in Mem /\ Sound(Taken, tcp) /\ tcp \in [Conn -> TcpState]
  BY TakenSound, Before
<1>2. /\ Closing(d) \in [Conn -> TcpState]
      /\ \A x \in Conn : Closing(d)[x] = "NONE" => tcp[x] = "NONE"
  BY <1>1 DEF Closing, TcpState
<1>3. QED  BY <1>1, <1>2, OtherTcp

LEMMA TaskDisconnectSound ==
    ASSUME IInv, TaskDisconnect
    PROVE  IInv'
<1>1. /\ Taken \in Mem /\ inflight \in [Conn -> BOOLEAN] /\ up \in BOOLEAN
      /\ dummy_pCon \in Conn \cup {NULL}
  BY TakenSound, Before
<1>2. \/ Become(Taken, Closing(dummy_pCon), inflight, NULL)
      \/ task \in Conn /\ Become(Taken, Closing(task), inflight, NULL)
  BY DEF TaskDisconnect
<1>3. QED  BY <1>1, <1>2, ClosingSound, BecomeSound

LEMMA TaskSendSound ==
    ASSUME IInv, NEW c \in Conn, TaskSend(c)
    PROVE  IInv'
<1> DEFINE readable == Readable(client[c].msgQueue)
           q == Tail(readable)
           k == client[c].connectionTimeout
           n == [Taken EXCEPT !.client[c].msgQueue = Tail(readable),
                              !.client[c].sendTimeout = SendTicks]
           r == [client[c] EXCEPT !.msgQueue = q, !.sendTimeout = SendTicks,
                                  !.connectionTimeout = k]
<1>1. /\ Taken \in Mem /\ Sound(Taken, tcp) /\ Taken.client = client
      /\ client \in [Conn -> ClientCon] /\ tcp \in [Conn -> TcpState] /\ up \in BOOLEAN
  BY TakenSound, Before
<1>2. client[c] \in ClientCon  BY <1>1
<1>3. readable # <<>> /\ Become(n, tcp, Sending(c), NULL)  BY DEF TaskSend
<1>4. q \in Seq(Message) /\ k \in Nat /\ SendTicks \in Nat
  <2>1. client[c].msgQueue \in Seq(Message) /\ k \in Nat  BY <1>2 DEF ClientCon
  <2>2. QED  BY <1>3, <2>1, ReadableType, BoundsAssumption
<1> HIDE DEF readable
<1>5. n = [Taken EXCEPT !.client[c] = r]
  <2>1. r = [client[c] EXCEPT !.msgQueue = q, !.sendTimeout = SendTicks]
    BY <1>2 DEF ClientCon
  <2> DEFINE r1 == [client[c] EXCEPT !.msgQueue = q]
  <2>2. n = [Taken EXCEPT !.client = [[client EXCEPT ![c] = r1]
                                         EXCEPT ![c] = [r1 EXCEPT !.sendTimeout = SendTicks]]]
    BY <1>1 DEF Mem
  <2>3. [r1 EXCEPT !.sendTimeout = SendTicks] = r  BY <1>2, <2>1 DEF ClientCon
  <2> HIDE DEF r, r1, n
  <2>4. [[client EXCEPT ![c] = r1] EXCEPT ![c] = r] = [client EXCEPT ![c] = r]  BY <1>1
  <2>5. QED  BY <1>1, <2>2, <2>3, <2>4
<1> HIDE DEF n, q, k
<1>6. n \in Mem /\ Sound(n, tcp)  BY <1>1, <1>4, <1>5, RefreshSound
<1>7. QED  BY <1>1, <1>3, <1>6, SendingType, BecomeSound

LEMMA TaskNothingSound ==
    ASSUME IInv, NEW c \in Conn, TaskNothingToSend(c)
    PROVE  IInv'
<1> DEFINE waiting == client[c].sendTimeout > 0
           q == IF waiting THEN client[c].msgQueue ELSE <<>>
           s == client[c].sendTimeout
           k == client[c].connectionTimeout
           r == [client[c] EXCEPT !.msgQueue = q, !.sendTimeout = s, !.connectionTimeout = k]
           read == [Taken EXCEPT !.client[c].msgQueue = IF waiting THEN @ ELSE <<>>]
           left == IF client[c].connState = "TCP_DISCONNECTING"
                   THEN disconnectClientCon(read, c) ELSE read
<1>1. /\ Taken \in Mem /\ Sound(Taken, tcp) /\ Taken.client = client
      /\ client \in [Conn -> ClientCon] /\ tcp \in [Conn -> TcpState] /\ up \in BOOLEAN
      /\ inflight \in [Conn -> BOOLEAN]
      /\ client[c].connState # "FREED" => tcp[c] # "NONE"
  BY TakenSound, Before
<1>2. client[c] \in ClientCon  BY <1>1
<1>3. Become(left, tcp, inflight, NULL)  BY DEF TaskNothingToSend
<1>4. q \in Seq(Message) /\ s \in Nat /\ k \in Nat
  <2>1. client[c].msgQueue \in Seq(Message) /\ s \in Nat /\ k \in Nat  BY <1>2 DEF ClientCon
  <2>2. QED  BY <2>1
<1>5. read = [Taken EXCEPT !.client[c] = r]
  <2>1. r = [client[c] EXCEPT !.msgQueue = q]  BY <1>2 DEF ClientCon
  <2>2. read = [Taken EXCEPT !.client[c] = [client[c] EXCEPT !.msgQueue = q]]
    BY <1>1
  <2>3. QED  BY <2>1, <2>2
<1> HIDE DEF q, s, k, read
<1>6. read \in Mem /\ Sound(read, tcp)  BY <1>1, <1>4, <1>5, RefreshSound
<1>7. left \in Mem /\ Sound(left, tcp)
  <2>1. CASE client[c].connState = "TCP_DISCONNECTING"
    <3>1. tcp[c] # "NONE"  BY <1>1, <2>1
    <3>2. QED  BY <1>6, <2>1, <3>1, DisconnectEffect DEF Sound
  <2>2. CASE client[c].connState # "TCP_DISCONNECTING"
    BY <1>6, <2>2
  <2>3. QED  BY <2>1, <2>2
<1> HIDE DEF left
<1>8. QED  BY <1>1, <1>3, <1>7, BecomeSound

\* A record that is freed twice: the lists are as they were.
LEMMA DisconnectFreedSound ==
    ASSUME IInv, NEW p \in Conn, DisconnectFreed(p)
    PROVE  SInv'
<1> DEFINE tied == [Taken EXCEPT !.dummy = p, !.reverse[p] = "dummy"]
           n == system_os_post(tied, dummy_clientcon)
<1>1. /\ Taken \in Mem /\ Sessions(Taken) /\ tcp \in [Conn -> TcpState]
      /\ inflight \in [Conn -> BOOLEAN]
  BY TakenSound, Before DEF Sound
<1>2. /\ tied \in Mem /\ tied.client = Taken.client /\ tied.list = Taken.list
      /\ tied.topics = Taken.topics
  BY <1>1 DEF Mem
<1>3. Load(n, tcp, inflight, NULL) /\ up' = FALSE  BY DEF DisconnectFreed
<1> HIDE DEF tied
<1>4. n \in Mem /\ SameSessions(tied, n)  BY <1>2, PostKeeps
<1> HIDE DEF n
<1>5. Sessions(n)
  <2>1. Sessions(tied)  BY <1>1, <1>2 DEF Sessions
  <2>2. tied.list \in Seq(Conn)  BY <1>2 DEF Mem
  <2>3. n.list = tied.list /\ n.topics = tied.topics  BY <1>4 DEF SameSessions
  <2>4. \A d \in Conn : n.client[d].connState = tied.client[d].connState
    BY <1>4 DEF SameSessions
  <2>5. \A i \in DOMAIN n.list : n.list[i] \in Conn  BY <2>2, <2>3
  <2>6. QED  BY <2>1, <2>3, <2>4, <2>5 DEF Sessions, Begun
<1>6. TypeOK'  BY <1>1, <1>3, <1>4 DEF Mem, Load, TypeOK, TcpState
<1>7. Sessions(mem')
  <2>1. mem'.client = n.client /\ mem'.list = n.list /\ mem'.topics = n.topics
    BY <1>3 DEF Load, mem
  <2>2. QED  BY <1>5, <2>1 DEF Sessions
<1>8. QED  BY <1>3, <1>6, <1>7 DEF SInv

\* Whatever the task reads in a record that has been freed.
LEMMA TaskFreedSound ==
    ASSUME IInv, NEW c \in Conn, TaskFreed(c)
    PROVE  SInv'
<1>1. /\ Taken \in Mem /\ Sound(Taken, tcp) /\ mem \in Mem /\ Sound(mem, tcp)
      /\ tcp \in [Conn -> TcpState] /\ up \in BOOLEAN /\ inflight \in [Conn -> BOOLEAN]
  BY TakenSound, Before
<1>2. CASE Become(Taken, tcp, inflight, NULL)
  BY <1>1, <1>2, BecomeSound, SoundNext
<1>3. CASE Become([Taken EXCEPT !.fault = TRUE], tcp, inflight, NULL)
  <2>1. [Taken EXCEPT !.fault = TRUE] \in Mem /\ SameSessions(Taken, [Taken EXCEPT !.fault = TRUE])
    BY <1>1 DEF Mem, SameSessions
  <2>2. Sound([Taken EXCEPT !.fault = TRUE], tcp)  BY <1>1, <2>1, KeepsSound
  <2>3. QED  BY <1>1, <1>3, <2>1, <2>2, BecomeSound, SoundNext
<1>4. ASSUME NEW d \in Conn, Become([mem EXCEPT !.task = d], tcp, inflight, NULL)
      PROVE  SInv'
  <2>1. [mem EXCEPT !.task = d] \in Mem /\ SameSessions(mem, [mem EXCEPT !.task = d])
    BY <1>1 DEF Mem, SameSessions
  <2>2. Sound([mem EXCEPT !.task = d], tcp)  BY <1>1, <2>1, KeepsSound
  <2>3. QED  BY <1>1, <1>4, <2>1, <2>2, BecomeSound, SoundNext
<1>5. ASSUME NEW p \in Conn, Become(Taken, Closing(p), inflight, NULL) PROVE SInv'
  BY <1>1, <1>5, ClosingSound, BecomeSound, SoundNext
<1>6. ASSUME NEW p \in Conn, Become(Taken, tcp, Sending(p), NULL) PROVE SInv'
  BY <1>1, <1>6, SendingType, BecomeSound, SoundNext
<1>7. ASSUME NEW p \in Conn, DisconnectFreed(p) PROVE SInv'
  BY <1>7, DisconnectFreedSound
<1>8. StalePCon(c) \subseteq Conn  BY DEF StalePCon
<1>9. QED  BY <1>2, <1>3, <1>4, <1>5, <1>6, <1>7, <1>8 DEF TaskFreed

LEMMA TaskSound ==
    ASSUME IInv, ServerTask
    PROVE  SInv'
<1>1. CASE TaskDisconnect  BY <1>1, TaskDisconnectSound, SoundNext
<1>2. ASSUME NEW c \in Conn, TaskSend(c) PROVE SInv'  BY <1>2, TaskSendSound, SoundNext
<1>3. ASSUME NEW c \in Conn, TaskNothingToSend(c) PROVE SInv'
  BY <1>3, TaskNothingSound, SoundNext
<1>4. ASSUME NEW c \in Conn, TaskTooEarly(c) PROVE SInv'
  <2>1. /\ Taken \in Mem /\ Sound(Taken, tcp) /\ tcp \in [Conn -> TcpState]
        /\ inflight \in [Conn -> BOOLEAN] /\ up \in BOOLEAN
    BY TakenSound, Before
  <2>2. Become(Taken, tcp, inflight, NULL)  BY <1>4 DEF TaskTooEarly
  <2>3. QED  BY <2>1, <2>2, BecomeSound, SoundNext
<1>5. ASSUME NEW c \in Conn, TaskFreed(c) PROVE SInv'  BY <1>5, TaskFreedSound
<1>6. QED  BY <1>1, <1>2, <1>3, <1>4, <1>5 DEF ServerTask

-----------------------------------------------------------------------------
(* Steps of the sketch *)

LEMMA CleanupSound ==
    ASSUME IInv, Cleanup
    PROVE  IInv'
<1> DEFINE broken == Broken(clientcon_list)
           c == clientcon_list[FirstOf(broken)]
           left == deleteClientCon(mem, c)
           n == [left EXCEPT !.reverse[c] = "NULL"]
           t == [tcp EXCEPT ![c] = "NONE"]
           b == IF Broken(left.list) = {} THEN NULL ELSE LOCAL_MQTT_CLIENT
<1>1. /\ mem \in Mem /\ Sound(mem, tcp) /\ mem.client = client /\ mem.list = clientcon_list
      /\ clientcon_list \in Seq(Conn) /\ inflight \in [Conn -> BOOLEAN] /\ up \in BOOLEAN
  BY Before
<1>2. broken # {} /\ Become(n, t, inflight, b)  BY DEF Cleanup
<1>3. Len(clientcon_list) \in Nat /\ broken \in SUBSET (1 .. Len(clientcon_list))
  BY <1>1 DEF Broken
<1>4. FirstOf(broken) \in DOMAIN clientcon_list
  <2>1. FirstOf(broken) \in broken  BY <1>2, <1>3, FirstOfMember
  <2>2. QED  BY <1>1, <1>3, <2>1
<1> HIDE DEF broken
<1>5. c \in Conn /\ client[c].connState # "FREED"
  BY <1>1, <1>4 DEF Sound, Sessions, Begun
<1>6. b \in Conn \cup {LOCAL_MQTT_CLIENT, NULL}  OBVIOUS
<1> HIDE DEF c, b
<1>7. n \in Mem /\ Sound(n, t) /\ t \in [Conn -> TcpState]  BY <1>5, DeletedGone
<1> HIDE DEF n, t
<1>8. QED  BY <1>1, <1>2, <1>6, <1>7, BecomeSound

LEMMA SketchSound ==
    ASSUME IInv, Sketch
    PROVE  IInv'
<1>1. /\ mem \in Mem /\ Sound(mem, tcp) /\ tcp \in [Conn -> TcpState]
      /\ inflight \in [Conn -> BOOLEAN] /\ up \in BOOLEAN
  BY Before
<1>2. ASSUME NEW p \in Publications, LocalPublish(p) PROVE IInv'
  <2> DEFINE n == Distribute(mem, p)
  <2>1. p \in [topic : Topic, data : Payload, retain : BOOLEAN]  BY InputsAssumption
  <2>2. n \in Mem /\ Sound(n, tcp)  BY <1>1, <2>1, DistributeKeeps, KeepsSound
  <2>3. Become(activate_next_client(n), tcp, inflight, NULL)  BY <1>2 DEF LocalPublish
  <2> HIDE DEF n
  <2>4. activate_next_client(n) \in Mem /\ Sound(activate_next_client(n), tcp)
    BY <2>2, ActivateKeeps, KeepsSound
  <2>5. QED  BY <1>1, <2>3, <2>4, BecomeSound
<1>3. ASSUME NEW f \in LocalFilters, LocalSubscribe(f) PROVE IInv'
  <2> DEFINE n == [mem EXCEPT !.topics = add_topics(@, LOCAL_MQTT_CLIENT, <<f>>)]
  <2>1. <<f>> \in Seq(Filter)  BY InputsAssumption, OneElement
  <2>2. LOCAL_MQTT_CLIENT \notin Conn  BY NamesAssumption
  <2>3. n \in Mem /\ Sound(n, tcp)  BY <1>1, <2>1, <2>2, AddKeeps
  <2>4. Become(n, tcp, inflight, NULL)  BY <1>3 DEF LocalSubscribe
  <2> HIDE DEF n
  <2>5. QED  BY <1>1, <2>3, <2>4, BecomeSound
<1>4. ASSUME NEW f \in LocalFilters, LocalUnsubscribe(f) PROVE IInv'
  <2> DEFINE n == [mem EXCEPT !.topics = delete_topics(@, LOCAL_MQTT_CLIENT, {f})]
  <2>1. n \in Mem /\ Sound(n, tcp)  BY <1>1, DeleteKeeps
  <2>2. Become(n, tcp, inflight, NULL)  BY <1>4 DEF LocalUnsubscribe
  <2> HIDE DEF n
  <2>3. QED  BY <1>1, <2>1, <2>2, BecomeSound
<1>5. QED  BY <1>2, <1>3, <1>4, CleanupSound DEF Sketch

-----------------------------------------------------------------------------
(* The theorems *)

LEMMA InitSound == Init => IInv
<1> SUFFICES ASSUME Init PROVE IInv  OBVIOUS
<1>1. /\ mem.client = Started.client /\ mem.list = Started.list /\ mem.topics = Started.topics
      /\ mem.dummy = Started.dummy /\ mem.reverse = Started.reverse /\ tcp = NoConnection
  BY DEF Init, mem, Started
<1>2. Started \in Mem /\ Sound(Started, NoConnection)  BY StartedSound
<1>3. SameSessions(Started, mem)  BY <1>1 DEF SameSessions
<1>4. Sound(mem, tcp)  BY <1>1, <1>2, <1>3, KeepsSound
<1>5. TypeOK
  <2>1. /\ client = Started.client /\ clientcon_list = Started.list
        /\ topic_list = Started.topics /\ retained_list = Started.retained
        /\ task = Started.task /\ dummy_pCon = Started.dummy /\ reverse = Started.reverse
    BY DEF Init, Started
  <2>2. /\ client \in [Conn -> ClientCon] /\ clientcon_list \in Seq(Conn)
        /\ topic_list \in [Slots -> TopicEntry]
        /\ retained_list \in [RetainedSlots -> RetainedEntry]
        /\ task \in Conn \cup {dummy_clientcon, NULL} /\ dummy_pCon \in Conn \cup {NULL}
        /\ reverse \in [Conn -> {"own", "dummy", "NULL"}]
    BY <1>2, <2>1 DEF Mem
  <2>3. /\ tcp \in [Conn -> {"NONE", "CONNECT", "DISCONNECTING", "CLOSE"}]
        /\ inflight \in [Conn -> BOOLEAN] /\ busy = NULL /\ up = TRUE
    BY DEF Init, NoConnection, NothingSent
  <2>4. QED  BY <2>2, <2>3 DEF TypeOK
<1>6. QED  BY <1>4, <1>5 DEF IInv

\* Nothing but the reset happens while the processor is down.
LEMMA ReceiveUp ==
    ASSUME NEW c \in Conn, Receive(c)
    PROVE  up
BY DEF Receive, Receives, In, RecvInvalid, RecvMalformedList, RecvPartial, RecvWithoutBuffer,
       RecvTooShortWhenRefused, RecvTooShortByDummy, ConnectRefused, ConnectNotAuthorized,
       ConnectAccepted, ConnectNoMemory, ConnectMalformed, Subscribe, Unsubscribe, Publish,
       PingReq, Ignored, Disconnect

LEMMA TaskUp == ServerTask => up
BY DEF ServerTask, TaskDisconnect, TaskSend, TaskNothingToSend, TaskTooEarly, TaskFreed,
       WokenFor, Idle

LEMMA SketchUp == Sketch => up
BY DEF Sketch, LocalPublish, LocalSubscribe, LocalUnsubscribe, Cleanup, Idle

LEMMA NetworkUp ==
    ASSUME NEW c \in Conn, \/ Accept(c) \/ AcceptRefused(c) \/ AcceptNoMemory(c)
                           \/ Sent(c) \/ Discon(c) \/ Break(c) \/ Timer(c)
    PROVE  up
BY DEF Accept, AcceptRefused, AcceptNoMemory, Sent, Discon, Break, Timer, Idle

LEMMA ResetSound == Reset => IInv'
<1> SUFFICES ASSUME Reset PROVE IInv'  OBVIOUS
<1>1. Load(Started, NoConnection, NothingSent, NULL) /\ up' = TRUE  BY DEF Reset
<1>2. NoConnection \in [Conn -> TcpState] /\ NothingSent \in [Conn -> BOOLEAN]
  BY DEF NoConnection, NothingSent, TcpState
<1>3. QED  BY <1>1, <1>2, StartedSound, LoadSound

\* One step per action of Next.
LEMMA StepSound == SInv /\ [Next]_vars => SInv'
<1> SUFFICES ASSUME SInv, [Next]_vars PROVE SInv'  OBVIOUS
<1>1. ASSUME NEW c \in Conn, Receive(c) PROVE SInv'
  BY <1>1, ReceiveUp, ReceiveSound, UpAndDown, SoundNext
<1>2. ASSUME NEW c \in Conn, Accept(c) PROVE SInv'
  BY <1>2, NetworkUp, AcceptSound, UpAndDown, SoundNext
<1>3. ASSUME NEW c \in Conn, AcceptRefused(c) PROVE SInv'
  BY <1>3, NetworkUp, AcceptRefusedSound, UpAndDown, SoundNext
<1>4. ASSUME NEW c \in Conn, AcceptNoMemory(c) PROVE SInv'
  BY <1>4, NetworkUp, TcpOnlySound, UpAndDown, SoundNext
<1>5. ASSUME NEW c \in Conn, Sent(c) PROVE SInv'
  BY <1>5, NetworkUp, SentSound, UpAndDown, SoundNext
<1>6. ASSUME NEW c \in Conn, Discon(c) PROVE SInv'
  BY <1>6, NetworkUp, DisconSound, UpAndDown, SoundNext
<1>7. ASSUME NEW c \in Conn, Break(c) PROVE SInv'
  BY <1>7, NetworkUp, TcpOnlySound, UpAndDown, SoundNext
<1>8. ASSUME NEW c \in Conn, Timer(c) PROVE SInv'
  BY <1>8, NetworkUp, TimerSound, UpAndDown, SoundNext
<1>9. CASE ServerTask  BY <1>9, TaskUp, TaskSound, UpAndDown
<1>10. CASE Sketch  BY <1>10, SketchUp, SketchSound, UpAndDown, SoundNext
<1>11. CASE Reset  BY <1>11, ResetSound, SoundNext
<1>12. CASE UNCHANGED vars
  <2>1. mem' = mem /\ tcp' = tcp /\ up' = up
    BY <1>12 DEF vars, memory, stack, mem
  <2>2. TypeOK'  BY <1>12 DEF SInv, TypeOK, vars, memory, stack
  <2>3. QED  BY <2>1, <2>2 DEF SInv
<1>13. QED
  BY <1>1, <1>2, <1>3, <1>4, <1>5, <1>6, <1>7, <1>8, <1>9, <1>10, <1>11, <1>12 DEF Next

LEMMA Inductive == Spec => []SInv
<1>1. Init => SInv  BY InitSound DEF IInv, SInv, Sound
<1>2. SInv /\ [Next]_vars => SInv'  BY StepSound
<1>3. QED  BY <1>1, <1>2, PTL DEF Spec

\* The state of the broker keeps its types, whatever the network does
\* (mqtt_server.c, mqtt_topiclist.c, mqtt_retainedlist.c).
THEOREM BrokerTypes == Spec => []TypeOK
<1>1. SInv => TypeOK  BY DEF SInv
<1>2. QED  BY <1>1, Inductive, PTL

\* The list of clients is exact, even behind a record that was freed twice, and
\* every record in it is the one its connection points back to
\* (MQTT_server_initClientCon, MQTT_server_deleteClientCon).
THEOREM ListCorrect == Spec => []ListIsExact
<1>1. SInv => ListIsExact
  <2> SUFFICES ASSUME SInv PROVE ListIsExact  OBVIOUS
  <2>1. /\ mem.client = client /\ mem.list = clientcon_list /\ mem.reverse = reverse
        /\ clientcon_list \in Seq(Conn) /\ Sessions(mem)
    BY DEF SInv, TypeOK, mem
  <2>2. \A i, j \in DOMAIN clientcon_list : clientcon_list[i] = clientcon_list[j] => i = j
    BY <2>1 DEF Sessions
  <2>3. \A d \in Listed : d \in Conn /\ Initialised(d)
    BY <2>1 DEF Listed, Sessions, Begun, Initialised
  <2>4. \A d \in Conn : Initialised(d) => d \in Listed
    BY <2>1 DEF Listed, Sessions, Begun, Initialised
  <2>5. Listed = {d \in Conn : Initialised(d)}  BY <2>3, <2>4, Zenon
  <2>6. up => /\ \A d \in Conn : reverse[d] = "own" <=> client[d].connState # "FREED"
              /\ \A d \in Conn : tcp[d] = "NONE" => reverse[d] = "NULL"
    BY <2>1 DEF SInv, Sound, Pointers
  <2>7. QED  BY <2>2, <2>5, <2>6 DEF ListIsExact
<1>2. QED  BY <1>1, Inductive, PTL

\* No subscription outlives its session, however the session ends (delete_topic in
\* MQTT_server_deleteClientCon, add_topic in MQTT_ClientCon_recv_cb).
THEOREM SubscriptionsCorrect == Spec => []SubscriptionsOwned
<1>1. SInv => SubscriptionsOwned
  <2> SUFFICES ASSUME SInv PROVE SubscriptionsOwned  OBVIOUS
  <2>1. mem.client = client /\ mem.topics = topic_list /\ Sessions(mem)  BY DEF SInv, mem
  <2>2. QED  BY <2>1 DEF SubscriptionsOwned, Sessions
<1>2. QED  BY <1>1, Inductive, PTL

\* Up to the point where the task disconnects a record that was freed, what it
\* closes for the dummy has neither gone nor a session of its own
\* (MQTT_server_disconnectClientCon, MQTT_ClientCon_discon_cb, MQTT_ServerTask).
THEOREM DummyCorrect == Spec => []DummyPointsToDummy
<1>1. SInv => DummyPointsToDummy
  <2> SUFFICES ASSUME SInv, up PROVE DummyPointsToDummy  BY DEF DummyPointsToDummy
  <2>1. mem.dummy = dummy_pCon /\ mem.reverse = reverse /\ Sound(mem, tcp)
    BY DEF SInv, mem
  <2>2. QED  BY <2>1 DEF DummyPointsToDummy, Sound, Pointers
<1>2. QED  BY <1>1, Inductive, PTL

-----------------------------------------------------------------------------
(* What holds of a good memory, next to its soundness *)

\* No two slots retain the same topic.
Single(retained) ==
    \A i, j \in RetainedSlots :
        retained[i].topic = retained[j].topic /\ retained[i].topic # NULL => i = j

\* The client of record r has been told nothing out of turn.
Polite(r) ==
    /\ r.connState = "TCP_CONNECTED" => r.msgQueue = <<>>
    /\ r.connState = "TCP_DISCONNECTING" => r.msgQueue \in {<<>>, <<Connack(FALSE)>>}
    /\ r.connState = "MQTT_DATA" =>
          \A i \in DOMAIN r.msgQueue :
              r.msgQueue[i].type = "CONNACK" => i = 1 /\ r.msgQueue[i].accepted

\* An id belongs to a client that is in the list, where a takeover looks for it.
Nameless(r) == r.client_id # "" => Begun(r)

Apart(m) ==
    \A c, d \in Conn : c # d /\ m.client[c].client_id # ""
                          => m.client[c].client_id # m.client[d].client_id

Good(m) ==
    /\ Single(m.retained)
    /\ \A d \in Conn : Polite(m.client[d]) /\ Nameless(m.client[d])
    /\ ~Pipelining => Apart(m)

GInv == Good(mem)

\* Memories with the same clients and the same retained messages are equally good.
LEMMA GoodCopy ==
    ASSUME NEW m, NEW n, Good(m), n.client = m.client, n.retained = m.retained
    PROVE  Good(n)
BY DEF Good, Apart

\* The queues and the retained messages of a good memory may change for others.
LEMMA GoodSame ==
    ASSUME NEW m, NEW n, Good(m), SameSessions(m, n), Single(n.retained),
           \A d \in Conn : Polite(n.client[d])
    PROVE  Good(n)
<1>1. \A d \in Conn : Nameless(n.client[d])
  BY DEF Good, SameSessions, Nameless, Begun
<1>2. ~Pipelining => Apart(n)  BY ZenonT(60) DEF Good, SameSessions, Apart
<1>3. QED  BY <1>1, <1>2 DEF Good

\* One record may change as long as its id stays or is forgotten.
LEMMA GoodRecord ==
    ASSUME NEW m \in Mem, NEW c \in Conn, Good(m), NEW r, Polite(r), Nameless(r),
           r.client_id \in {m.client[c].client_id, ""}
    PROVE  Good([m EXCEPT !.client[c] = r])
<1> DEFINE n == [m EXCEPT !.client[c] = r]
<1>1. n.retained = m.retained /\ n.client = [m.client EXCEPT ![c] = r]  BY DEF Mem
<1>2. m.client \in [Conn -> ClientCon]  BY DEF Mem
<1> HIDE DEF n
<1>3. n.client[c] = r /\ \A d \in Conn \ {c} : n.client[d] = m.client[d]  BY <1>1, <1>2
<1>4. \A d \in Conn : Polite(n.client[d]) /\ Nameless(n.client[d])  BY <1>3 DEF Good
<1>5. \A d \in Conn : n.client[d].client_id \in {m.client[d].client_id, ""}  BY <1>3
<1>6. ~Pipelining => Apart(n)  BY ZenonT(60), <1>5 DEF Good, Apart
<1>7. Good(n)  BY <1>1, <1>4, <1>6 DEF Good
<1>8. QED  BY <1>7 DEF n

-----------------------------------------------------------------------------
(* The retained messages *)

\* A new value takes the place of the old one, or of none.
LEMMA UpdateGood ==
    ASSUME NEW m \in Mem, NEW t \in Topic, NEW d, Good(m)
    PROVE  Good(update_retainedtopic(m, t, d))
<1> DEFINE found == RetainedAt(m.retained, t)
           free == RetainedAt(m.retained, NULL)
           entry == [topic |-> t, data |-> d]
           n == update_retainedtopic(m, t, d)
<1>1. /\ found # {} => FirstOf(found) \in found
      /\ free # {} => FirstOf(free) \in free
  BY BoundsAssumption, FirstOfMember DEF RetainedAt, RetainedSlots
<1>2. t # NULL  BY NamesAssumption
<1>3. m.retained \in [RetainedSlots -> RetainedEntry]  BY DEF Mem
<1>4. \A i \in found : i \in RetainedSlots /\ m.retained[i].topic = t  BY DEF RetainedAt
<1>5. \A i \in RetainedSlots : i \notin found => m.retained[i].topic # t  BY DEF RetainedAt
<1>6. \A i \in free : i \in RetainedSlots  BY DEF RetainedAt
<1>7. n = IF found # {}
          THEN [m EXCEPT !.retained[FirstOf(found)] = IF d = Empty THEN FreeRetained ELSE entry]
          ELSE IF d # Empty /\ free # {}
          THEN [m EXCEPT !.retained[FirstOf(free)] = entry]
          ELSE m
  BY DEF update_retainedtopic
<1>8. entry.topic = t /\ FreeRetained.topic = NULL  BY DEF FreeRetained
<1> HIDE DEF found, free, entry, n
<1>9. ASSUME NEW k \in RetainedSlots, NEW e, e.topic \in {t, NULL}, k \in found \/ found = {},
             n = [m EXCEPT !.retained[k] = e]
      PROVE  Good(n)
  <2>1. n.retained = [m.retained EXCEPT ![k] = e] /\ n.client = m.client  BY <1>9 DEF Mem
  <2>2. n.retained[k] = e /\ \A i \in RetainedSlots \ {k} : n.retained[i] = m.retained[i]
    BY <1>3, <2>1
  <2>3. \A i \in RetainedSlots \ {k} : m.retained[i].topic # t
    BY <1>4, <1>5, <1>9, <1>2 DEF Good, Single
  <2>4. Single(n.retained)
    <3> SUFFICES ASSUME NEW i \in RetainedSlots, NEW j \in RetainedSlots,
                        n.retained[i].topic = n.retained[j].topic, n.retained[i].topic # NULL
                 PROVE  i = j
      BY DEF Single
    <3>1. CASE i = k \/ j = k  BY <1>9, <2>2, <2>3, <3>1
    <3>2. CASE i # k /\ j # k  BY <2>2, <3>2 DEF Good, Single
    <3>3. QED  BY <3>1, <3>2
  <2>5. QED  BY <2>1, <2>4 DEF Good, Apart
<1>10. ASSUME found # {} PROVE Good(n)
  <2>1. (IF d = Empty THEN FreeRetained ELSE entry).topic \in {t, NULL}  BY <1>8
  <2>2. QED  BY <1>1, <1>4, <1>7, <1>9, <1>10, <2>1
<1>11. ASSUME found = {}, d # Empty, free # {} PROVE Good(n)
  BY <1>1, <1>6, <1>7, <1>8, <1>9, <1>11
<1>12. ASSUME found = {}, ~(d # Empty /\ free # {}) PROVE Good(n)
  <2>1. n = m  BY <1>7, <1>12
  <2>2. QED  BY <2>1
<1>13. QED  BY <1>10, <1>11, <1>12 DEF n

-----------------------------------------------------------------------------
(* The queues *)

\* Where what stands in a queue after QUEUE_Puts comes from.
LEMMA PutsParts ==
    ASSUME NEW q \in Seq(Message), NEW ms \in Seq(Message)
    PROVE  \A i \in DOMAIN Puts(q, ms) :
              \/ i \in DOMAIN q /\ Puts(q, ms)[i] = q[i]
              \/ Puts(q, ms)[i] = TORN
              \/ \E j \in DOMAIN ms : Puts(q, ms)[i] = ms[j]
<1> DEFINE fit == IF Len(ms) <= Room(q) THEN ms ELSE SubSeq(ms, 1, Room(q))
           whole == q \o fit
<1>1. Room(q) \in Nat /\ Len(q) \in Nat /\ Len(ms) \in Nat  BY RoomType
<1>2. /\ fit \in Seq(Message)
      /\ \A i \in 1 .. Len(fit) : \E j \in DOMAIN ms : fit[i] = ms[j]
  <2>1. CASE Len(ms) <= Room(q)  BY <2>1
  <2>2. CASE ~(Len(ms) <= Room(q))
    <3>1. /\ SubSeq(ms, 1, Room(q)) \in Seq(Message) /\ Len(SubSeq(ms, 1, Room(q))) = Room(q)
          /\ \A i \in 1 .. Room(q) : SubSeq(ms, 1, Room(q))[i] = ms[i] /\ i \in DOMAIN ms
      BY <1>1, <2>2
    <3>2. fit = SubSeq(ms, 1, Room(q))  BY <2>2
    <3>3. QED  BY <3>1, <3>2
  <2>3. QED  BY <2>1, <2>2
<1>3. Puts(q, ms) = whole \/ Puts(q, ms) = Append(whole, TORN)  BY DEF Puts
<1> HIDE DEF fit
<1>4. /\ whole \in Seq(Message) /\ Len(whole) = Len(q) + Len(fit) /\ Len(fit) \in Nat
      /\ \A i \in 1 .. Len(q) : whole[i] = q[i]
      /\ \A i \in 1 .. Len(fit) : whole[Len(q) + i] = fit[i]
  BY <1>1, <1>2
<1> HIDE DEF whole
<1>5. \A i \in 1 .. Len(whole) : \/ i \in DOMAIN q /\ whole[i] = q[i]
                                 \/ \E j \in DOMAIN ms : whole[i] = ms[j]
  <2> SUFFICES ASSUME NEW i \in 1 .. Len(whole)
               PROVE  (i \in DOMAIN q /\ whole[i] = q[i]) \/ \E j \in DOMAIN ms : whole[i] = ms[j]
    OBVIOUS
  <2>1. CASE i \in 1 .. Len(q)  BY <1>4, <2>1
  <2>2. CASE i \notin 1 .. Len(q)
    <3>1. i - Len(q) \in 1 .. Len(fit) /\ i = Len(q) + (i - Len(q))  BY <1>1, <1>4, <2>2
    <3>2. whole[i] = fit[i - Len(q)]  BY <1>4, <3>1
    <3>3. QED  BY <1>2, <3>1, <3>2
  <2>3. QED  BY <2>1, <2>2
<1>6. CASE Puts(q, ms) = whole
  <2>1. DOMAIN whole = 1 .. Len(whole)  BY <1>4
  <2>2. QED  BY <1>5, <1>6, <2>1
<1>7. CASE Puts(q, ms) = Append(whole, TORN)
  <2>1. Len(whole) \in Nat  BY <1>1, <1>4
  <2>2. /\ DOMAIN Append(whole, TORN) = 1 .. Len(whole) + 1
        /\ \A i \in 1 .. Len(whole) : Append(whole, TORN)[i] = whole[i]
        /\ Append(whole, TORN)[Len(whole) + 1] = TORN
    BY <1>4, <2>1
  <2>3. \A i \in 1 .. Len(whole) + 1 : i \in 1 .. Len(whole) \/ i = Len(whole) + 1  BY <2>1
  <2>4. QED  BY <1>5, <1>7, <2>2, <2>3
<1>8. QED  BY <1>3, <1>6, <1>7

\* Nothing but what is queued or was there stands in a queue, and the latter where
\* it stood: a CONNACK cannot come in unless it is queued.
LEMMA PutsOthers ==
    ASSUME NEW q \in Seq(Message), NEW ms \in Seq(Message),
           \A i \in DOMAIN ms : ms[i].type # "CONNACK"
    PROVE  \A i \in DOMAIN Puts(q, ms) : Puts(q, ms)[i].type = "CONNACK" =>
                                             i \in DOMAIN q /\ Puts(q, ms)[i] = q[i]
<1>1. TORN.type # "CONNACK"  BY DEF TORN
<1>2. QED  BY <1>1, PutsParts

LEMMA PutsNothing ==
    ASSUME NEW q \in Seq(Message)
    PROVE  Puts(q, <<>>) = q
<1>1. Room(q) \in Nat  BY RoomType
<1>2. Len(<<>>) <= Room(q) /\ q \o <<>> = q  BY <1>1
<1>3. QED  BY <1>2 DEF Puts

\* The first message of a queue fits.
LEMMA PutsFirst ==
    ASSUME NEW x \in Message
    PROVE  Puts(<<>>, <<x>>) = <<x>>
<1>1. {i \in DOMAIN <<>> : <<>>[i] # TORN} = {}  OBVIOUS
<1>2. Whole(<<>>) = 0  BY <1>1, FS_EmptySet DEF Whole
<1>3. Room(<<>>) = QueueCap  BY <1>2, QueueCapAssumption DEF Room
<1>4. Len(<<x>>) <= Room(<<>>) /\ <<>> \o <<x>> = <<x>>  BY <1>3, QueueCapAssumption
<1>5. QED  BY <1>4 DEF Puts

\* An accepted client may be sent anything that is no CONNACK.
LEMMA PoliteQueue ==
    ASSUME NEW r \in ClientCon, Polite(r), r.connState = "MQTT_DATA", NEW ms \in Seq(Message),
           \A i \in DOMAIN ms : ms[i].type # "CONNACK"
    PROVE  Polite([r EXCEPT !.msgQueue = Puts(@, ms)])
<1>1. r.msgQueue \in Seq(Message)  BY DEF ClientCon
<1>2. /\ [r EXCEPT !.msgQueue = Puts(@, ms)].connState = "MQTT_DATA"
      /\ [r EXCEPT !.msgQueue = Puts(@, ms)].msgQueue = Puts(r.msgQueue, ms)
  BY DEF ClientCon
<1>3. \A i \in DOMAIN Puts(r.msgQueue, ms) : Puts(r.msgQueue, ms)[i].type = "CONNACK" =>
          i \in DOMAIN r.msgQueue /\ Puts(r.msgQueue, ms)[i] = r.msgQueue[i]
  BY <1>1, PutsOthers
<1>4. QED  BY <1>2, <1>3 DEF Polite

LEMMA QueueGood ==
    ASSUME NEW m \in Mem, NEW c \in Conn, Good(m), m.client[c].connState = "MQTT_DATA",
           NEW ms \in Seq(Message), \A i \in DOMAIN ms : ms[i].type # "CONNACK"
    PROVE  Good(Queue(m, c, ms))
<1> DEFINE r == [m.client[c] EXCEPT !.msgQueue = Puts(@, ms)]
<1>1. m.client[c] \in ClientCon  BY DEF Mem
<1>2. Polite(r)  BY <1>1, PoliteQueue DEF Good
<1>3. r.connState = m.client[c].connState /\ r.client_id = m.client[c].client_id
  BY <1>1 DEF ClientCon
<1>4. Queue(m, c, ms) = [m EXCEPT !.client[c] = r]  BY DEF Queue
<1> HIDE DEF r
<1>5. Nameless(r)  BY <1>3 DEF Good, Nameless, Begun
<1>6. Good([m EXCEPT !.client[c] = r])  BY <1>2, <1>3, <1>5, GoodRecord
<1>7. QED  BY <1>4, <1>6

-----------------------------------------------------------------------------
(* What the functions of the code do to a good memory *)

\* Only accepted clients have subscriptions.
Owned(m) ==
    \A i \in Slots : m.topics[i].owner \in Conn =>
                         m.client[m.topics[i].owner].connState = "MQTT_DATA"

LEMMA FindGood ==
    ASSUME NEW m \in Mem, Good(m), Owned(m), NEW msg \in Message, msg.type # "CONNACK"
    PROVE  Good(find_topic(m, msg))
<1> DEFINE n == find_topic(m, msg)
<1>1. n \in Mem /\ SameSessions(m, n)  BY FindKeeps
<1>2. n.retained = m.retained  BY DEF find_topic, Mem
<1>3. ASSUME NEW d \in Conn PROVE Polite(n.client[d])
  <2> DEFINE ms == Copies(m.topics, d, msg)
             S == {j \in Matching(m.topics, msg.topic) : m.topics[j].owner = d}
  <2>1. m.client[d] \in ClientCon /\ m.client[d].msgQueue \in Seq(Message) /\ Polite(m.client[d])
    BY DEF Mem, ClientCon, Good
  <2>2. n.client[d] = [m.client[d] EXCEPT !.msgQueue = Puts(@, ms)]  BY DEF find_topic, Mem
  <2>3. ms \in Seq(Message)  BY CopiesType
  <2>4. ms = [i \in 1 .. Cardinality(S) |-> msg]  BY DEF Copies
  <2>5. CASE m.client[d].connState = "MQTT_DATA"
    <3>1. \A i \in DOMAIN ms : ms[i].type # "CONNACK"  BY <2>4
    <3> HIDE DEF ms
    <3>2. QED  BY <2>1, <2>2, <2>3, <2>5, <3>1, PoliteQueue
  <2>6. CASE m.client[d].connState # "MQTT_DATA"
    <3>1. \A j \in Matching(m.topics, msg.topic) : m.topics[j].owner # d
      BY <2>6 DEF Matching, Owned
    <3>2. S = {}  BY <3>1, Zenon
    <3>3. Cardinality(S) = 0  BY <3>2, FS_EmptySet
    <3> HIDE DEF S
    <3>4. ms = <<>>  BY <2>4, <3>3
    <3>5. Puts(m.client[d].msgQueue, ms) = m.client[d].msgQueue  BY <2>1, <3>4, PutsNothing
    <3> HIDE DEF ms
    <3>6. n.client[d] = m.client[d]  BY <2>1, <2>2, <3>5 DEF ClientCon
    <3>7. QED  BY <2>1, <3>6
  <2>7. QED  BY <2>5, <2>6
<1>4. Single(n.retained)  BY <1>2 DEF Good
<1> HIDE DEF n
<1>5. Good(n)  BY <1>1, <1>3, <1>4, GoodSame
<1>6. QED  BY <1>5 DEF n

LEMMA PostGood ==
    ASSUME NEW m \in Mem, NEW x, Good(m)
    PROVE  Good(system_os_post(m, x))
<1>1. system_os_post(m, x).client = m.client /\ system_os_post(m, x).retained = m.retained
  BY DEF system_os_post, Mem
<1>2. QED  BY <1>1, GoodCopy

LEMMA ActivateGood ==
    ASSUME NEW m \in Mem, Good(m)
    PROVE  Good(activate_next_client(m))
BY PostGood DEF activate_next_client

LEMMA PublishMsgKind ==
    ASSUME NEW t, NEW d, NEW r
    PROVE  PublishMsg(t, d, r).type # "CONNACK"
BY DEF PublishMsg

LEMMA DistributeGood ==
    ASSUME NEW m \in Mem, Good(m), Owned(m),
           NEW p \in [topic : Topic, data : Payload, retain : BOOLEAN]
    PROVE  Good(Distribute(m, p))
<1> DEFINE msg == PublishMsg(p.topic, p.data, FALSE)
           sent == find_topic(m, msg)
<1>1. msg \in Message /\ msg.type # "CONNACK"  BY PublishMsgType, PublishMsgKind
<1> HIDE DEF msg
<1>2. sent \in Mem /\ Good(sent)  BY <1>1, FindKeeps, FindGood
<1> HIDE DEF sent
<1>3. Good(update_retainedtopic(sent, p.topic, p.data))  BY <1>2, UpdateGood
<1>4. QED  BY <1>2, <1>3 DEF Distribute, sent, msg

LEMMA WillGood ==
    ASSUME NEW m \in Mem, NEW c \in Conn, Good(m), Owned(m)
    PROVE  Good(PublishWill(m, c))
<1> DEFINE w == m.client[c].will
           found == find_topic(m, WillMsg(w))
           sent == activate_next_client(found)
<1>1. CASE ~HasWill(m, c)  BY <1>1 DEF PublishWill
<1>2. CASE HasWill(m, c) /\ WillFaults(m, c)
  <2>1. PublishWill(m, c) = [m EXCEPT !.fault = TRUE]  BY <1>2 DEF PublishWill
  <2>2. PublishWill(m, c).client = m.client /\ PublishWill(m, c).retained = m.retained
    BY <2>1 DEF Mem
  <2>3. QED  BY <2>2, GoodCopy
<1>3. CASE HasWill(m, c) /\ ~WillFaults(m, c) /\ w.data = NULL
  <2>1. PublishWill(m, c) = activate_next_client(m)  BY <1>3 DEF PublishWill
  <2>2. QED  BY <2>1, ActivateGood
<1>4. CASE HasWill(m, c) /\ ~WillFaults(m, c) /\ w.data # NULL
  <2>1. w \in StoredWill  BY <1>4 DEF HasWill, Mem, ClientCon
  <2>2. PublishWill(m, c) = IF w.retain THEN update_retainedtopic(sent, w.topic, w.data)
                            ELSE sent
    BY <1>4 DEF PublishWill
  <2>3. w.data # NULL  BY <1>4
  <2> HIDE DEF w
  <2>4. w.topic \in Topic /\ w.data \in Payload  BY <2>1, <2>3, WholeBody
  <2>5. WillMsg(w) \in Message /\ WillMsg(w).type # "CONNACK"
    BY <2>4, PublishMsgType, PublishMsgKind DEF WillMsg
  <2>6. found \in Mem /\ Good(found)  BY <2>5, FindKeeps, FindGood
  <2> HIDE DEF found
  <2>7. sent \in Mem /\ Good(sent)  BY <2>6, ActivateKeeps, ActivateGood
  <2> HIDE DEF sent
  <2>8. Good(update_retainedtopic(sent, w.topic, w.data))  BY <2>4, <2>7, UpdateGood
  <2>9. QED  BY <2>2, <2>7, <2>8
<1>5. QED  BY <1>1, <1>2, <1>3, <1>4

LEMMA FreedGood == Polite(Freed) /\ Nameless(Freed) /\ Freed.client_id = ""
BY DEF Freed, Polite, Nameless

\* What is left of a client that is deleted is good, and has no name.
LEMMA DeleteClientGood ==
    ASSUME NEW m \in Mem, NEW c \in Conn, Good(m), Owned(m)
    PROVE  Good(deleteClientCon(m, c)) /\ deleteClientCon(m, c).client[c].client_id = ""
<1> DEFINE unlinked == [m EXCEPT !.list = Unlink(@, c)]
           willed == PublishWill(unlinked, c)
           n == deleteClientCon(m, c)
<1>1. Unlink(m.list, c) \in Seq(Conn)
  BY DEF Mem, Unlink, RemoveAt
<1>2. /\ unlinked \in Mem /\ unlinked.client = m.client
      /\ unlinked.topics = m.topics /\ unlinked.retained = m.retained
  BY <1>1 DEF Mem
<1> HIDE DEF unlinked
<1>3. Good(unlinked) /\ Owned(unlinked)  BY <1>2, GoodCopy DEF Owned
<1>4. willed \in Mem /\ Good(willed)  BY <1>2, <1>3, WillKeeps, WillGood
<1>5. n = [willed EXCEPT !.client[c] = Freed,
                         !.topics = delete_topics(@, c, Filter)]
  BY DEF deleteClientCon, unlinked
<1> HIDE DEF willed
<1> DEFINE o == [willed EXCEPT !.client[c] = Freed]
<1>6. Good(o)  BY <1>4, FreedGood, GoodRecord
<1>7. n.client = o.client /\ n.retained = o.retained /\ o.client[c] = Freed
  BY <1>4, <1>5 DEF Mem
<1> HIDE DEF n, o
<1>8. Good(n)  BY <1>6, <1>7, GoodCopy
<1>9. QED  BY <1>7, <1>8, FreedGood DEF n

LEMMA DisconnectGood ==
    ASSUME NEW m \in Mem, NEW c \in Conn, Good(m), Sessions(m)
    PROVE  /\ Good(disconnectClientCon(m, c))
           /\ disconnectClientCon(m, c).client[c].client_id = ""
<1> DEFINE handed == [m EXCEPT !.dummy = c, !.reverse[c] = "dummy"]
           o == deleteClientCon(handed, c)
           n == system_os_post(o, dummy_clientcon)
<1>1. n = disconnectClientCon(m, c)  BY DEF disconnectClientCon
<1>2. /\ handed \in Mem /\ handed.list = m.list /\ handed.topics = m.topics
      /\ handed.client = m.client /\ handed.retained = m.retained
  BY DEF Mem
<1> HIDE DEF handed
<1>3. Good(handed) /\ Owned(handed) /\ Sessions(handed)
  BY <1>2, GoodCopy DEF Owned, Sessions
<1>4. o \in Mem /\ Good(o) /\ o.client[c].client_id = ""
  BY <1>2, <1>3, DeleteClientGood, DeleteClientEffect
<1> HIDE DEF o
<1>5. Good(n) /\ n.client = o.client  BY <1>4, PostGood DEF system_os_post, Mem
<1> HIDE DEF n
<1>6. QED  BY <1>1, <1>4, <1>5

\* The walk finds a client of the id if there is one: it is in the list.
LEMMA SameIdFound ==
    ASSUME NEW m \in Mem, NEW id \in ClientId, Sessions(m), NEW d \in Conn, Nameless(m.client[d]),
           m.client[d].client_id = id
    PROVE  SameId(m, id) # {}
<1> DEFINE S == {i \in DOMAIN m.list : m.client[m.list[i]].client_id = id}
<1>1. m.list \in Seq(Conn) /\ DOMAIN m.list = 1 .. Len(m.list) /\ Len(m.list) \in Nat
  BY DEF Mem
<1>2. Begun(m.client[d])  BY NamesAssumption DEF Nameless
<1>3. S # {}  BY <1>2 DEF Sessions
<1>4. S \in SUBSET Nat  BY <1>1
<1>5. PICK i \in S : \A j \in S : i <= j  BY <1>3, <1>4, LeastElement
<1>6. /\ i \in DOMAIN m.list /\ m.list[i] \in Conn
      /\ m.client[m.list[i]].client_id = id
  BY <1>1
<1>7. \A j \in 1 .. i - 1 : m.client[m.list[j]].client_id # id
  <2>1. ASSUME NEW j \in 1 .. i - 1 PROVE j \in DOMAIN m.list /\ ~(i <= j)  BY <1>1, <1>6
  <2>2. QED  BY <1>5, <2>1
<1>8. m.list[i] \in SameId(m, id)  BY <1>6, <1>7 DEF SameId
<1>9. QED  BY <1>8

\* After a takeover that could read the id nobody has it.
LEMMA TakeoverGood ==
    ASSUME NEW m \in Mem, NEW t, Sound(m, t), Good(m), NEW id \in ClientId,
           NEW terminated \in BOOLEAN
    PROVE  LET n == delete_client_by_id(m, id, terminated)
           IN  /\ Good(n)
               /\ ~Pipelining /\ terminated => \A d \in Conn : n.client[d].client_id # id
<1> DEFINE n == delete_client_by_id(m, id, terminated)
<1>0. Sessions(m) /\ \A d \in Conn : Nameless(m.client[d])  BY DEF Sound, Good
<1>1. CASE SameId(m, id) = {} \/ ~terminated
  <2>1. n = m  BY <1>1 DEF delete_client_by_id
  <2>2. terminated => \A d \in Conn : m.client[d].client_id # id
    BY <1>0, <1>1, SameIdFound
  <2>3. QED  BY <2>1, <2>2
<1>2. CASE ~(SameId(m, id) = {} \/ ~terminated)
  <2> DEFINE x == CHOOSE y \in SameId(m, id) : TRUE
             o == disconnectClientCon(m, x)
  <2>1. n = o  BY <1>2 DEF delete_client_by_id
  <2>2. x \in SameId(m, id)  BY <1>2
  <2> HIDE DEF x
  <2>3. /\ x \in Conn /\ m.client[x].client_id = id
        /\ \E i \in DOMAIN m.list : m.list[i] = x
    BY <2>2 DEF SameId
  <2>4. Begun(m.client[x]) /\ id # ""  BY <1>0, <2>3, NamesAssumption DEF Nameless
  <2>5. t[x] # "NONE"  BY <2>3, <2>4 DEF Sound, Pointers, Begun
  <2>6. Ended(m, o, x)  BY <2>3, <2>5, DisconnectEffect DEF Sound
  <2>7. Good(o) /\ o.client[x].client_id = ""  BY <1>0, <2>3, DisconnectGood
  <2> HIDE DEF o
  <2>8. ASSUME ~Pipelining, NEW d \in Conn PROVE o.client[d].client_id # id
    <3>1. CASE d = x  BY <2>4, <2>7, <3>1
    <3>2. CASE d # x
      <4>1. m.client[d].client_id # id  BY <2>3, <2>4, <2>8, <3>2 DEF Good, Apart
      <4>2. QED  BY <2>6, <3>2, <4>1 DEF Ended
    <3>3. QED  BY <3>1, <3>2
  <2>9. QED  BY <2>1, <2>7, <2>8
<1>3. QED  BY <1>1, <1>2

-----------------------------------------------------------------------------
(* The end of a step *)

LEMMA StartedGood == Good(Started)
<1>1. /\ Started.retained = [i \in RetainedSlots |-> FreeRetained]
      /\ Started.client = [d \in Conn |-> Freed]
  BY DEF Started
<1>2. \A i \in RetainedSlots : Started.retained[i].topic = NULL  BY <1>1 DEF FreeRetained
<1>3. Single(Started.retained)  BY <1>2 DEF Single
<1>4. \A d \in Conn : Started.client[d] = Freed  BY <1>1
<1>5. QED  BY <1>3, <1>4, FreedGood DEF Good, Apart

LEMMA LoadGood ==
    ASSUME NEW m, NEW t, NEW f, NEW b, Good(m), Load(m, t, f, b)
    PROVE  GInv'
<1>1. mem'.client = m.client /\ mem'.retained = m.retained  BY DEF Load, mem
<1>2. Good(mem')  BY <1>1, GoodCopy
<1>3. QED  BY <1>2 DEF GInv

LEMMA BecomeGood ==
    ASSUME NEW m, NEW t, NEW f, NEW b, Good(m), Become(m, t, f, b)
    PROVE  GInv'
<1>1. CASE m.fault
  <2>1. Load(Started, NoConnection, NothingSent, NULL)  BY <1>1 DEF Become
  <2>2. QED  BY <2>1, StartedGood, LoadGood
<1>2. CASE ~m.fault
  <2>1. Load(m, t, f, b)  BY <1>2 DEF Become
  <2>2. QED  BY <2>1, LoadGood
<1>3. QED  BY <1>1, <1>2

\* What every step may use of the state it starts in.
LEMMA GoodBefore ==
    ASSUME IInv, GInv
    PROVE  /\ mem \in Mem /\ Good(mem) /\ Sound(mem, tcp) /\ Sessions(mem) /\ Owned(mem)
           /\ mem.client = client /\ client \in [Conn -> ClientCon]
           /\ \A d \in Conn : Polite(client[d]) /\ Nameless(client[d]) /\ Unnamed(client[d])
<1>1. mem \in Mem /\ Sound(mem, tcp) /\ mem.client = client /\ client \in [Conn -> ClientCon]
  BY Before
<1>2. Good(mem)  BY DEF GInv
<1>3. QED  BY <1>1, <1>2 DEF Sound, Sessions, Owned, Good

\* A record with other times and an unchanged or empty queue.
LEMMA TimesGood ==
    ASSUME NEW m \in Mem, NEW c \in Conn, Good(m), NEW s, NEW k
    PROVE  LET r == [m.client[c] EXCEPT !.sendTimeout = s, !.connectionTimeout = k]
           IN  Good([m EXCEPT !.client[c] = r])
<1> DEFINE r == [m.client[c] EXCEPT !.sendTimeout = s, !.connectionTimeout = k]
<1>1. m.client[c] \in ClientCon /\ Polite(m.client[c]) /\ Nameless(m.client[c])
  BY DEF Mem, Good
<1>2. /\ r.connState = m.client[c].connState /\ r.client_id = m.client[c].client_id
      /\ r.msgQueue = m.client[c].msgQueue
  BY <1>1 DEF ClientCon
<1> HIDE DEF r
<1>3. Polite(r) /\ Nameless(r)  BY <1>1, <1>2 DEF Polite, Nameless, Begun
<1>4. Good([m EXCEPT !.client[c] = r])  BY <1>2, <1>3, GoodRecord
<1>5. QED  BY <1>4 DEF r

\* A packet that is not the client's last.
LEMMA EndGood ==
    ASSUME NEW m \in Mem, NEW c \in Conn, Good(m), NEW isPublish, NEW more,
           EndOfPacket(m, c, isPublish, more)
    PROVE  GInv'
<1> DEFINE r == [m.client[c] EXCEPT !.connectionTimeout = KeepAliveTicks]
           alive == [m EXCEPT !.client[c] = r]
<1>1. m.client[c] \in ClientCon  BY DEF Mem
<1>2. r = [m.client[c] EXCEPT !.sendTimeout = m.client[c].sendTimeout,
                              !.connectionTimeout = KeepAliveTicks]
  BY <1>1 DEF ClientCon
<1>3. Good(alive)  BY <1>2, TimesGood
<1>4. r \in ClientCon  BY <1>1, BoundsAssumption DEF ClientCon
<1>5. alive = [m EXCEPT !.client[c].connectionTimeout = KeepAliveTicks]  OBVIOUS
<1> HIDE DEF r
<1>6. alive \in Mem  BY <1>4 DEF Mem
<1>7. \/ Become(alive, tcp, inflight, c)
      \/ Become(activate_next_client(alive), tcp, inflight, NULL)
      \/ Become(system_os_post(alive, c), tcp, inflight, NULL)
  BY <1>5 DEF EndOfPacket
<1> HIDE DEF alive
<1>8. Good(activate_next_client(alive)) /\ Good(system_os_post(alive, c))
  BY <1>3, <1>6, ActivateGood, PostGood
<1>9. QED  BY <1>3, <1>7, <1>8, BecomeGood

\* The packet of an accepted client is answered.
LEMMA ReplyGood ==
    ASSUME NEW m \in Mem, NEW c \in Conn, Good(m), m.client[c].connState = "MQTT_DATA",
           NEW ms \in Seq(Message), \A i \in DOMAIN ms : ms[i].type # "CONNACK",
           NEW isPublish, NEW more, EndOfPacket(Queue(m, c, ms), c, isPublish, more)
    PROVE  GInv'
<1>1. Queue(m, c, ms) \in Mem /\ Good(Queue(m, c, ms))  BY QueueKeeps, QueueGood
<1>2. QED  BY <1>1, EndGood

\* A step that ends by disconnecting a client.
LEMMA DropGood ==
    ASSUME NEW m \in Mem, NEW c \in Conn, Good(m), Sessions(m), DropClient(m, c)
    PROVE  GInv'
BY DisconnectGood, BecomeGood DEF DropClient

-----------------------------------------------------------------------------
(* Steps of the receive callback *)

\* The answer to a CONNECT: the queue was empty until then.
LEMMA ConnackGood ==
    ASSUME NEW m \in Mem, NEW c \in Conn, Good(m), m.client[c].msgQueue = <<>>,
           NEW ok \in BOOLEAN,
           m.client[c].connState = IF ok THEN "MQTT_DATA" ELSE "TCP_DISCONNECTING"
    PROVE  Good(Queue(m, c, <<Connack(ok)>>))
<1> DEFINE r == [m.client[c] EXCEPT !.msgQueue = <<Connack(ok)>>]
<1>1. m.client[c] \in ClientCon /\ Nameless(m.client[c])  BY DEF Mem, Good
<1>2. Connack(ok) \in Message  BY ReplyTypes, Zenon
<1>3. Puts(m.client[c].msgQueue, <<Connack(ok)>>) = <<Connack(ok)>>  BY <1>2, PutsFirst
<1>4. Queue(m, c, <<Connack(ok)>>) = [m EXCEPT !.client[c] = r]  BY <1>3 DEF Queue
<1>5. /\ r.connState = m.client[c].connState /\ r.client_id = m.client[c].client_id
      /\ r.msgQueue = <<Connack(ok)>>
  BY <1>1 DEF ClientCon
<1> HIDE DEF r
<1>6. Polite(r)
  <2>1. CASE ok = TRUE
    <3>1. <<Connack(ok)>>[1].accepted /\ \A i \in DOMAIN <<Connack(ok)>> : i = 1
      BY <2>1 DEF Connack
    <3>2. QED  BY <1>5, <2>1, <3>1 DEF Polite
  <2>2. CASE ok = FALSE  BY <1>5, <2>2 DEF Polite
  <2>3. QED  BY <2>1, <2>2
<1>7. Nameless(r)  BY <1>1, <1>5 DEF Nameless, Begun
<1>8. Good([m EXCEPT !.client[c] = r])  BY <1>5, <1>6, <1>7, GoodRecord
<1>9. QED  BY <1>4, <1>8

\* One record may change its id to one that nobody has.
LEMMA GoodNamed ==
    ASSUME NEW m \in Mem, NEW c \in Conn, Good(m), NEW r, Polite(r), Nameless(r),
           ~Pipelining /\ r.client_id # "" => \A d \in Conn : m.client[d].client_id # r.client_id
    PROVE  Good([m EXCEPT !.client[c] = r])
<1> DEFINE n == [m EXCEPT !.client[c] = r]
<1>1. n.retained = m.retained /\ n.client = [m.client EXCEPT ![c] = r]
  BY ZenonT(60) DEF Mem
<1>2. m.client \in [Conn -> ClientCon]  BY DEF Mem
<1> HIDE DEF n
<1>3. n.client[c] = r /\ \A d \in Conn \ {c} : n.client[d] = m.client[d]  BY <1>1, <1>2
<1>4. \A d \in Conn : Polite(n.client[d]) /\ Nameless(n.client[d])  BY <1>3 DEF Good
<1>5. ~Pipelining => Apart(n)  BY <1>3 DEF Good, Apart
<1>6. Good(n)  BY <1>1, <1>4, <1>5 DEF Good
<1>7. QED  BY <1>6 DEF n

\* The client that asks for an id gets it, and whoever had it before has gone.
LEMMA IdentifiedGood ==
    ASSUME IInv, GInv, NEW c \in Conn, In(c, "TCP_CONNECTED"), NEW id \in ClientId \cup {""},
           NEW w \in StoredWill \cup {NoWill}, NEW more \in More, NEW terminated \in Terminated(w, more)
    PROVE  LET n == Identified(c, id, w, terminated)
           IN  /\ n \in Mem /\ Good(n) /\ Sessions(n)
               /\ n.client[c].connState = "TCP_CONNECTED" /\ n.client[c].msgQueue = <<>>
<1> DEFINE m == Alone(id, terminated)
           r == [m.client[c] EXCEPT !.client_id = id, !.will = w]
           n == [m EXCEPT !.client[c] = r]
<1>1. terminated \in BOOLEAN  BY TerminatedType
<1>2. m \in Mem /\ Sound(m, tcp) /\ m.client[c].connState = "TCP_CONNECTED"
  BY <1>1, AloneEffect
<1>3. ~Pipelining => terminated = TRUE  BY DEF More, Terminated
<1>4. Good(m) /\ (~Pipelining /\ id # "" => \A d \in Conn : m.client[d].client_id # id)
  <2>1. mem \in Mem /\ Good(mem) /\ Sound(mem, tcp)  BY GoodBefore
  <2>2. CASE id = ""  BY <2>1, <2>2 DEF Alone
  <2>3. CASE id # ""
    <3>1. id \in ClientId /\ m = delete_client_by_id(mem, id, terminated)  BY <2>3 DEF Alone
    <3>2. QED  BY <1>1, <1>3, <2>1, <3>1, TakeoverGood
  <2>4. QED  BY <2>2, <2>3
<1>5. Identified(c, id, w, terminated) = n
  <2>1. Identified(c, id, w, terminated) =
          [m EXCEPT !.client[c].client_id = id, !.client[c].will = w]
    BY DEF Identified, Alone
  <2>2. m.client \in [Conn -> ClientCon]  BY <1>2 DEF Mem
  <2> HIDE DEF m
  <2>3. QED  BY <1>2, <2>1, <2>2 DEF Mem
<1> HIDE DEF m
<1>6. m.client[c] \in ClientCon /\ m.client[c].msgQueue = <<>>
  BY <1>2, <1>4 DEF Mem, Good, Polite
<1>7. /\ r \in ClientCon /\ r.connState = "TCP_CONNECTED" /\ r.client_id = id
      /\ r.msgQueue = <<>>
  BY <1>2, <1>6 DEF ClientCon, ConnState
<1> HIDE DEF r
<1>8. Polite(r) /\ Nameless(r)  BY <1>7 DEF Polite, Nameless, Begun
<1>9. Good(n)  BY <1>2, <1>4, <1>7, <1>8, GoodNamed
<1>10. n \in Mem /\ Sessions(n)  BY <1>2, <1>7, RecordChange DEF Begun
<1>11. n.client[c] = r  BY <1>2 DEF Mem
<1> HIDE DEF n
<1>12. QED  BY <1>5, <1>7, <1>9, <1>10, <1>11

\* Every CONNECT that is answered.
LEMMA AnswerGood ==
    ASSUME NEW m \in Mem, NEW c \in Conn, Good(m), m.client[c].connState = "TCP_CONNECTED",
           m.client[c].msgQueue = <<>>, NEW ok \in BOOLEAN, NEW more,
           Answer(m, c, IF ok THEN "MQTT_DATA" ELSE "TCP_DISCONNECTING", ok, more)
    PROVE  GInv'
<1> DEFINE state == IF ok THEN "MQTT_DATA" ELSE "TCP_DISCONNECTING"
           r == [m.client[c] EXCEPT !.connState = state]
           n == [m EXCEPT !.client[c] = r]
<1>1. m.client[c] \in ClientCon /\ Nameless(m.client[c])  BY DEF Mem, Good
<1>2. /\ r \in ClientCon /\ r.connState = state /\ r.client_id = m.client[c].client_id
      /\ r.msgQueue = <<>>
  BY <1>1 DEF ClientCon, ConnState
<1>3. EndOfPacket(Queue(n, c, <<Connack(ok)>>), c, FALSE, more)  BY DEF Answer
<1> HIDE DEF r
<1>4. Polite(r) /\ Nameless(r)  BY <1>2 DEF Polite, Nameless, Begun
<1>5. n \in Mem /\ n.client[c] = r  BY <1>2 DEF Mem
<1>6. Good(n)  BY <1>2, <1>4, GoodRecord
<1> HIDE DEF n
<1>7. Good(Queue(n, c, <<Connack(ok)>>))  BY <1>2, <1>5, <1>6, ConnackGood
<1>8. <<Connack(ok)>> \in Seq(Message)
  <2>1. Connack(ok) \in Message  BY ReplyTypes, Zenon
  <2>2. QED  BY <2>1, OneElement
<1>9. Queue(n, c, <<Connack(ok)>>) \in Mem  BY <1>5, <1>8, QueueKeeps
<1>10. QED  BY <1>3, <1>7, <1>9, EndGood

\* The messages of a SUBSCRIBE's answer, none of them a CONNACK.
LEMMA SubackKind ==
    ASSUME NEW retained \in [RetainedSlots -> RetainedEntry], NEW f
    PROVE  /\ <<Reply>> \o RetainedFor(retained, f) \in Seq(Message)
           /\ \A i \in DOMAIN (<<Reply>> \o RetainedFor(retained, f)) :
                 (<<Reply>> \o RetainedFor(retained, f))[i].type # "CONNACK"
<1> DEFINE found == RetainedFor(retained, f)
           ms == <<Reply>> \o found
<1>1. found \in Seq(Message)  BY RetainedForType
<1>2. \A k \in DOMAIN found : found[k].type # "CONNACK"
  BY PublishMsgKind DEF RetainedFor, RetainedMsg
<1>3. Reply \in Message /\ Reply.type # "CONNACK"  BY ReplyTypes DEF Reply
<1> HIDE DEF found
<1>4. <<Reply>> \in Seq(Message)  BY <1>3, OneElement
<1>5. /\ ms \in Seq(Message) /\ Len(found) \in Nat /\ Len(ms) = 1 + Len(found)
      /\ ms[1] = Reply
      /\ \A k \in 1 .. Len(found) : ms[1 + k] = found[k]
  BY <1>1, <1>4
<1>6. ASSUME NEW i \in DOMAIN ms PROVE ms[i].type # "CONNACK"
  <2>1. i \in 1 .. 1 + Len(found)  BY <1>5
  <2> HIDE DEF ms
  <2>2. CASE i = 1  BY <1>3, <1>5, <2>2
  <2>3. CASE i # 1
    <3>1. i - 1 \in 1 .. Len(found) /\ i = 1 + (i - 1)  BY <1>5, <2>1, <2>3
    <3>2. ms[i] = found[i - 1] /\ i - 1 \in DOMAIN found  BY <1>1, <1>5, <3>1
    <3>3. QED  BY <1>2, <3>2
  <2>4. QED  BY <2>2, <2>3
<1>7. QED  BY <1>5, <1>6 DEF found

\* A REPLY is no CONNACK either.
LEMMA ReplyKind ==
    <<Reply>> \in Seq(Message) /\ \A i \in DOMAIN <<Reply>> : <<Reply>>[i].type # "CONNACK"
<1>1. <<Reply>> \in Seq(Message)  BY ReplyTypes, OneElement
<1>2. Reply.type # "CONNACK"  BY DEF Reply
<1>3. QED  BY <1>1, <1>2

\* The CONNECTs.
LEMMA ConnectGood ==
    ASSUME IInv, GInv, NEW c \in Conn, NEW more \in More,
           \/ ConnectRefused(c, more)
           \/ \E id \in ClientId \cup {""} :
                 \/ ConnectNotAuthorized(c, id, more)
                 \/ \E w \in StoredWill \cup {NoWill} :
                       \/ ConnectAccepted(c, id, w, more)
                       \/ ConnectNoMemory(c, id, w, more)
                       \/ ConnectMalformed(c, id, w)
    PROVE  GInv'
<1> DEFINE ids == ClientId \cup {""}
           wills == StoredWill \cup {NoWill}
<1>1. /\ mem \in Mem /\ Good(mem) /\ mem.client = client /\ client \in [Conn -> ClientCon]
      /\ Polite(client[c]) /\ Nameless(client[c]) /\ Unnamed(client[c])
  BY GoodBefore
<1>2. ASSUME ConnectRefused(c, more) PROVE GInv'
  <2> DEFINE r == [mem.client[c] EXCEPT !.connState = "TCP_DISCONNECTING"]
             n == [mem EXCEPT !.client[c] = r]
  <2>1. client[c].connState = "TCP_CONNECTED"  BY <1>2 DEF ConnectRefused, In
  <2>2. client[c] \in ClientCon /\ client[c].msgQueue = <<>> /\ client[c].client_id = ""
    BY <1>1, <2>1 DEF Polite, Unnamed
  <2>3. /\ r \in ClientCon /\ r.connState = "TCP_DISCONNECTING"
        /\ r.msgQueue = <<>> /\ r.client_id = ""
    BY <1>1, <2>2 DEF ClientCon, ConnState
  <2>4. EndOfPacket(Queue(n, c, <<Connack(FALSE)>>), c, FALSE, more)
    BY <1>2 DEF ConnectRefused
  <2> HIDE DEF r
  <2>5. Polite(r) /\ Nameless(r)  BY <2>3 DEF Polite, Nameless
  <2>6. n \in Mem /\ n.client[c] = r  BY <1>1, <2>3 DEF Mem
  <2>7. Good(n)  BY <1>1, <2>3, <2>5, GoodRecord
  <2> HIDE DEF n
  <2>8. Good(Queue(n, c, <<Connack(FALSE)>>))  BY <2>3, <2>6, <2>7, ConnackGood
  <2>9. Connack(FALSE) \in Message  BY ReplyTypes, Zenon
  <2>10. <<Connack(FALSE)>> \in Seq(Message)  BY <2>9, OneElement
  <2>11. Queue(n, c, <<Connack(FALSE)>>) \in Mem  BY <2>6, <2>10, QueueKeeps
  <2>12. QED  BY <2>4, <2>8, <2>11, EndGood
<1>3. ASSUME In(c, "TCP_CONNECTED"), NEW id \in ids, NEW w \in wills,
             NEW t \in Terminated(w, more), NEW ok \in BOOLEAN,
             Answer(Identified(c, id, w, t), c,
                    IF ok THEN "MQTT_DATA" ELSE "TCP_DISCONNECTING", ok, more)
      PROVE  GInv'
  <2> DEFINE n == Identified(c, id, w, t)
  <2>1. /\ n \in Mem /\ Good(n) /\ n.client[c].connState = "TCP_CONNECTED"
        /\ n.client[c].msgQueue = <<>>
    BY <1>3, IdentifiedGood
  <2> HIDE DEF n
  <2>2. QED  BY <1>3, <2>1, AnswerGood DEF n
<1>4. ASSUME NEW id \in ids, ConnectNotAuthorized(c, id, more) PROVE GInv'
  <2>1. PICK t \in Terminated(NoWill, more) :
             Answer(Identified(c, id, NoWill, t), c, "TCP_DISCONNECTING", FALSE, more)
    BY <1>4 DEF ConnectNotAuthorized
  <2>2. In(c, "TCP_CONNECTED")  BY <1>4 DEF ConnectNotAuthorized
  <2>3. NoWill \in wills  OBVIOUS
  <2>4. Answer(Identified(c, id, NoWill, t), c,
               IF FALSE THEN "MQTT_DATA" ELSE "TCP_DISCONNECTING", FALSE, more)
    BY <2>1
  <2>5. QED  BY <1>3, <2>2, <2>3, <2>4
<1>5. ASSUME NEW id \in ids, NEW w \in wills, ConnectAccepted(c, id, w, more) PROVE GInv'
  <2>1. PICK t \in Terminated(w, more) :
             Answer(Identified(c, id, w, t), c, "MQTT_DATA", TRUE, more)
    BY <1>5 DEF ConnectAccepted
  <2>2. In(c, "TCP_CONNECTED")  BY <1>5 DEF ConnectAccepted
  <2>3. Answer(Identified(c, id, w, t), c,
               IF TRUE THEN "MQTT_DATA" ELSE "TCP_DISCONNECTING", TRUE, more)
    BY <2>1
  <2>4. QED  BY <1>3, <2>2, <2>3
<1>6. ASSUME NEW id \in ids, NEW w \in wills, ConnectNoMemory(c, id, w, more) PROVE GInv'
  <2>1. /\ In(c, "TCP_CONNECTED")
        /\ Answer(Identified(c, id, w, TRUE), c,
                  IF FALSE THEN "MQTT_DATA" ELSE "TCP_DISCONNECTING", FALSE, more)
    BY <1>6 DEF ConnectNoMemory
  <2>2. TRUE \in Terminated(w, more)  BY DEF Terminated
  <2>3. QED  BY <1>3, <2>1, <2>2
<1>7. ASSUME NEW id \in ids, NEW w \in wills, ConnectMalformed(c, id, w) PROVE GInv'
  <2>1. PICK m \in More : \E t \in Terminated(w, m) : DropClient(Identified(c, id, w, t), c)
    BY <1>7 DEF ConnectMalformed
  <2>2. PICK t \in Terminated(w, m) : DropClient(Identified(c, id, w, t), c)  BY <2>1
  <2>3. In(c, "TCP_CONNECTED")  BY <1>7 DEF ConnectMalformed
  <2> DEFINE n == Identified(c, id, w, t)
  <2>4. n \in Mem /\ Good(n) /\ Sessions(n)  BY <2>3, IdentifiedGood
  <2> HIDE DEF n
  <2>5. QED  BY <2>2, <2>4, DropGood DEF n
<1>8. QED  BY <1>2, <1>4, <1>5, <1>6, <1>7

LEMMA ReceiveGood ==
    ASSUME IInv, GInv, NEW c \in Conn, Receive(c)
    PROVE  GInv'
<1>1. /\ mem \in Mem /\ Good(mem) /\ Sound(mem, tcp) /\ Sessions(mem) /\ Owned(mem)
      /\ mem.client = client /\ client \in [Conn -> ClientCon]
      /\ Polite(client[c]) /\ Nameless(client[c])
  BY GoodBefore
<1>2. ASSUME NEW topics \in [Slots -> TopicEntry]
      PROVE  LET n == [mem EXCEPT !.topics = topics]
             IN  n \in Mem /\ Good(n) /\ n.client = client
  <2> DEFINE n == [mem EXCEPT !.topics = topics]
  <2>1. n \in Mem /\ n.client = mem.client /\ n.retained = mem.retained  BY <1>1 DEF Mem
  <2> HIDE DEF n
  <2>2. Good(n)  BY <1>1, <2>1, GoodCopy
  <2>3. QED  BY <1>1, <2>1, <2>2 DEF n
<1>3. mem.topics \in [Slots -> TopicEntry]  BY <1>1 DEF Mem
<1>4. ASSUME NEW fs \in FilterList, client[c].connState = "MQTT_DATA"
      PROVE  LET n == [mem EXCEPT !.topics = add_topics(@, c, fs)]
             IN  n \in Mem /\ Good(n) /\ n.client = client /\ Sessions(n)
  <2>1. fs \in Seq(Filter)  BY InputsAssumption
  <2>2. add_topics(mem.topics, c, fs) \in [Slots -> TopicEntry]  BY <1>3, <2>1, AddEffect
  <2>3. LET n == [mem EXCEPT !.topics = add_topics(@, c, fs)] IN Sound(n, tcp)
    BY <1>1, <1>4, <2>1, AddKeeps
  <2>4. QED  BY <1>2, <2>2, <2>3 DEF Sound
<1>5. ASSUME NEW F
      PROVE  LET n == [mem EXCEPT !.topics = delete_topics(@, c, F)]
             IN  n \in Mem /\ Good(n) /\ n.client = client /\ Sessions(n)
  <2>1. delete_topics(mem.topics, c, F) \in [Slots -> TopicEntry]  BY <1>3, DeleteEffect
  <2>2. LET n == [mem EXCEPT !.topics = delete_topics(@, c, F)] IN Sound(n, tcp)
    BY <1>1, DeleteKeeps
  <2>3. QED  BY <1>2, <2>1, <2>2 DEF Sound
<1>6. CASE RecvInvalid(c)
  BY <1>1, <1>6, DropGood DEF RecvInvalid
<1>7. CASE RecvMalformedList(c)
  <2>1. client[c].connState = "MQTT_DATA"  BY <1>7 DEF RecvMalformedList, In
  <2>2. ASSUME NEW fs \in FilterList,
               DropClient([mem EXCEPT !.topics = add_topics(@, c, fs)], c)
        PROVE  GInv'
    BY <1>4, <2>1, <2>2, DropGood
  <2>3. ASSUME NEW F \in SUBSET Filter,
               DropClient([mem EXCEPT !.topics = delete_topics(@, c, F)], c)
        PROVE  GInv'
    BY <1>5, <2>3, DropGood
  <2>4. QED  BY <1>7, <2>2, <2>3 DEF RecvMalformedList
<1>8. CASE RecvPartial(c)
  <2>1. Load(mem, tcp, inflight, NULL)
    BY <1>8 DEF RecvPartial, Load, mem, memory, stack
  <2>2. QED  BY <1>1, <2>1, LoadGood
<1>9. CASE RecvWithoutBuffer(c)
  <2>1. Become([mem EXCEPT !.fault = TRUE], tcp, inflight, busy)
    BY <1>9 DEF RecvWithoutBuffer
  <2>2. /\ [mem EXCEPT !.fault = TRUE].client = mem.client
        /\ [mem EXCEPT !.fault = TRUE].retained = mem.retained
    BY <1>1 DEF Mem
  <2>3. Good([mem EXCEPT !.fault = TRUE])  BY <1>1, <2>2, GoodCopy
  <2>4. QED  BY <2>1, <2>3, BecomeGood
<1>10. CASE RecvTooShortWhenRefused(c)
  BY <1>1, <1>10, DropGood DEF RecvTooShortWhenRefused
<1>11. CASE RecvTooShortByDummy(c)
  <2> DEFINE n == [mem EXCEPT !.reverse[dummy_pCon] = "dummy"]
  <2>1. Become(system_os_post(n, dummy_clientcon), tcp, inflight, NULL)
    BY <1>11 DEF RecvTooShortByDummy
  <2>2. n \in Mem /\ n.client = mem.client /\ n.retained = mem.retained  BY <1>1 DEF Mem
  <2> HIDE DEF n
  <2>3. Good(system_os_post(n, dummy_clientcon))  BY <1>1, <2>2, GoodCopy, PostGood
  <2>4. QED  BY <2>1, <2>3, BecomeGood
<1>12. ASSUME NEW fs \in FilterList, NEW more, Subscribe(c, fs, more) PROVE GInv'
  <2> DEFINE n == [mem EXCEPT !.topics = add_topics(@, c, fs)]
             ms == <<Reply>> \o RetainedFor(retained_list, fs[Len(fs)])
  <2>1. client[c].connState = "MQTT_DATA"  BY <1>12 DEF Subscribe, In
  <2>2. n \in Mem /\ Good(n) /\ n.client = client  BY <1>4, <2>1
  <2>3. EndOfPacket(Queue(n, c, ms), c, FALSE, more)  BY <1>12 DEF Subscribe
  <2>4. retained_list \in [RetainedSlots -> RetainedEntry]  BY DEF IInv, TypeOK
  <2>5. ms \in Seq(Message) /\ \A i \in DOMAIN ms : ms[i].type # "CONNACK"
    BY <2>4, SubackKind
  <2> HIDE DEF n, ms
  <2>6. QED  BY <2>1, <2>2, <2>3, <2>5, ReplyGood
<1>13. ASSUME NEW F, NEW more, Unsubscribe(c, F, more) PROVE GInv'
  <2> DEFINE n == [mem EXCEPT !.topics = delete_topics(@, c, F)]
  <2>1. client[c].connState = "MQTT_DATA"  BY <1>13 DEF Unsubscribe, In
  <2>2. n \in Mem /\ Good(n) /\ n.client = client  BY <1>5
  <2>3. EndOfPacket(Queue(n, c, <<Reply>>), c, FALSE, more)  BY <1>13 DEF Unsubscribe
  <2> HIDE DEF n
  <2>4. QED  BY <2>1, <2>2, <2>3, ReplyKind, ReplyGood
<1>14. ASSUME NEW p \in Publications, NEW more, Publish(c, p, more) PROVE GInv'
  <2>1. p \in [topic : Topic, data : Payload, retain : BOOLEAN]  BY InputsAssumption
  <2>2. Distribute(mem, p) \in Mem /\ Good(Distribute(mem, p))
    BY <1>1, <2>1, DistributeKeeps, DistributeGood
  <2>3. EndOfPacket(Distribute(mem, p), c, TRUE, more)  BY <1>14 DEF Publish
  <2>4. QED  BY <2>2, <2>3, EndGood
<1>15. ASSUME NEW more, PingReq(c, more) PROVE GInv'
  <2>1. client[c].connState = "MQTT_DATA" /\ EndOfPacket(Queue(mem, c, <<Reply>>), c, FALSE, more)
    BY <1>15 DEF PingReq, In
  <2>2. QED  BY <1>1, <2>1, ReplyKind, ReplyGood
<1>16. ASSUME NEW p, NEW more, Ignored(c, p, more) PROVE GInv'
  <2>1. EndOfPacket(mem, c, p, more)  BY <1>16 DEF Ignored
  <2>2. QED  BY <1>1, <2>1, EndGood
<1>17. CASE Disconnect(c)
  <2> DEFINE r == [mem.client[c] EXCEPT !.will = NoWill]
             n == [mem EXCEPT !.client[c] = r]
  <2>1. client[c].connState = "MQTT_DATA" /\ DropClient(n, c)
    BY <1>17 DEF Disconnect, In
  <2>2. client[c] \in ClientCon  BY <1>1
  <2>3. /\ r \in ClientCon /\ r.connState = "MQTT_DATA" /\ r.client_id = client[c].client_id
        /\ r.msgQueue = client[c].msgQueue
    BY <1>1, <2>1, <2>2 DEF ClientCon
  <2> HIDE DEF r
  <2>4. Polite(r) /\ Nameless(r)  BY <1>1, <2>1, <2>3 DEF Polite, Nameless, Begun
  <2>5. Good(n)  BY <1>1, <2>3, <2>4, GoodRecord
  <2>6. n \in Mem /\ Sessions(n)
    BY <1>1, <2>1, <2>3, RecordChange DEF Begun
  <2>7. QED  BY <2>1, <2>5, <2>6, DropGood
<1>18. ASSUME NEW more \in More,
              \/ ConnectRefused(c, more)
              \/ \E id \in ClientId \cup {""} :
                    \/ ConnectNotAuthorized(c, id, more)
                    \/ \E w \in StoredWill \cup {NoWill} :
                          \/ ConnectAccepted(c, id, w, more)
                          \/ ConnectNoMemory(c, id, w, more)
                          \/ ConnectMalformed(c, id, w)
       PROVE  GInv'
  BY <1>18, ConnectGood
<1>19. QED
  BY <1>6, <1>7, <1>8, <1>9, <1>10, <1>11, <1>12, <1>13, <1>14, <1>15, <1>16, <1>17, <1>18,
     CarriedWills DEF Receive

-----------------------------------------------------------------------------
(* Steps of the other callbacks of the network stack *)

\* A session begins with an empty queue and no name.
LEMMA AcceptGood ==
    ASSUME IInv, GInv, NEW c \in Conn, Accept(c)
    PROVE  GInv'
<1> DEFINE r == [Freed EXCEPT !.connState = "TCP_CONNECTED", !.connectionTimeout = ConnectTicks]
           n == [mem EXCEPT !.reverse[c] = "own", !.list = <<c>> \o @, !.client[c] = r]
           o == [mem EXCEPT !.client[c] = r]
<1>1. mem \in Mem /\ Good(mem)  BY GoodBefore
<1>2. Become(n, [tcp EXCEPT ![c] = "CONNECT"], inflight, NULL)  BY DEF Accept
<1>3. r.connState = "TCP_CONNECTED" /\ r.client_id = "" /\ r.msgQueue = <<>>  BY DEF Freed
<1> HIDE DEF r
<1>4. Polite(r) /\ Nameless(r)  BY <1>3 DEF Polite, Nameless
<1>5. Good(o)  BY <1>1, <1>3, <1>4, GoodRecord
<1>6. n.client = o.client /\ n.retained = o.retained  BY <1>1 DEF Mem
<1> HIDE DEF n, o
<1>7. Good(n)  BY <1>5, <1>6, GoodCopy
<1>8. QED  BY <1>2, <1>7, BecomeGood

LEMMA AcceptRefusedGood ==
    ASSUME IInv, GInv, NEW c \in Conn, AcceptRefused(c)
    PROVE  GInv'
<1> DEFINE r == [mem.client[c] EXCEPT !.connState = "TCP_DISCONNECT"]
           n == [mem EXCEPT !.reverse[c] = "own", !.client[c].connState = "TCP_DISCONNECT"]
           o == [mem EXCEPT !.client[c] = r]
<1>1. /\ mem \in Mem /\ Good(mem) /\ Sound(mem, tcp) /\ mem.client = client
      /\ client \in [Conn -> ClientCon] /\ Nameless(client[c])
  BY GoodBefore
<1>2. tcp[c] = "NONE" /\ Become(system_os_post(n, c), [tcp EXCEPT ![c] = "CONNECT"], inflight, NULL)
  BY DEF AcceptRefused
<1>3. client[c].connState = "FREED" /\ client[c].client_id = ""
  BY <1>1, <1>2 DEF Sound, Pointers, Nameless, Begun
<1>4. client[c] \in ClientCon  BY <1>1
<1>5. r \in ClientCon /\ r.connState = "TCP_DISCONNECT" /\ r.client_id = ""
  BY <1>1, <1>3, <1>4 DEF ClientCon, ConnState
<1>6. n = [mem EXCEPT !.reverse[c] = "own", !.client[c] = r]  OBVIOUS
<1> HIDE DEF r, n
<1>7. Polite(r) /\ Nameless(r)  BY <1>5 DEF Polite, Nameless
<1>8. Good(o)  BY <1>1, <1>5, <1>7, GoodRecord
<1>9. n \in Mem /\ n.client = o.client /\ n.retained = o.retained  BY <1>1, <1>5, <1>6 DEF Mem
<1> HIDE DEF o
<1>10. Good(system_os_post(n, c))  BY <1>8, <1>9, GoodCopy, PostGood
<1>11. QED  BY <1>2, <1>10, BecomeGood

LEMMA SentGood ==
    ASSUME IInv, GInv, NEW c \in Conn, Sent(c)
    PROVE  GInv'
<1> DEFINE r == [client[c] EXCEPT !.sendTimeout = 0]
           acked == CASE reverse[c] = "own" -> [mem EXCEPT !.client[c].sendTimeout = 0]
                      [] reverse[c] = "dummy" -> mem
                      [] reverse[c] = "NULL" -> [mem EXCEPT !.fault = TRUE]
           left == IF client[c].connState = "TCP_DISCONNECTING"
                   THEN disconnectClientCon(acked, c) ELSE acked
           f == [inflight EXCEPT ![c] = FALSE]
<1>1. /\ mem \in Mem /\ Good(mem) /\ Sound(mem, tcp) /\ Sessions(mem) /\ mem.client = client
      /\ client \in [Conn -> ClientCon] /\ Unnamed(client[c])
      /\ reverse \in [Conn -> {"own", "dummy", "NULL"}] /\ tcp \in [Conn -> TcpState]
      /\ client[c].connState # "FREED" => tcp[c] # "NONE"
  BY GoodBefore, Before
<1>2. Become(activate_next_client(left), tcp, f, NULL)  BY DEF Sent
<1>3. acked \in Mem /\ Good(acked) /\ Sound(acked, tcp)
  <2>1. CASE reverse[c] = "own"
    <3>1. client[c] \in ClientCon  BY <1>1
    <3>2. /\ r \in ClientCon /\ r.connState = client[c].connState
          /\ r.client_id = client[c].client_id
          /\ r = [client[c] EXCEPT !.sendTimeout = 0,
                                   !.connectionTimeout = client[c].connectionTimeout]
      BY <3>1 DEF ClientCon
    <3>3. acked = [mem EXCEPT !.client[c] = r]  BY <1>1, <2>1
    <3> HIDE DEF r, acked
    <3>4. Good([mem EXCEPT !.client[c] = r])
      <4>1. Good([mem EXCEPT !.client[c] =
                     [mem.client[c] EXCEPT !.sendTimeout = 0,
                                           !.connectionTimeout = client[c].connectionTimeout]])
        BY <1>1, TimesGood
      <4>2. QED  BY <1>1, <3>2, <4>1
    <3>5. Unnamed(r)  BY <1>1, <3>2 DEF Unnamed
    <3>6. Begun(r) <=> Begun(mem.client[c])  BY <1>1, <3>2 DEF Begun
    <3>7. acked \in Mem /\ Sound(acked, tcp)
      BY ZenonT(60), <1>1, <3>2, <3>3, <3>5, <3>6, RecordChange
    <3>8. QED  BY <3>3, <3>4, <3>7
  <2>2. CASE reverse[c] = "dummy"
    BY <1>1, <2>2
  <2>3. CASE reverse[c] = "NULL"
    <3>1. acked = [mem EXCEPT !.fault = TRUE]  BY <2>3
    <3> HIDE DEF acked
    <3>2. /\ acked \in Mem /\ SameSessions(mem, acked)
          /\ acked.client = mem.client /\ acked.retained = mem.retained
      BY <1>1, <3>1 DEF Mem, SameSessions
    <3>3. QED  BY <1>1, <3>2, KeepsSound, GoodCopy
  <2>4. QED  BY <1>1, <2>1, <2>2, <2>3
<1> HIDE DEF acked
<1>4. left \in Mem /\ Good(left)
  <2>1. CASE client[c].connState = "TCP_DISCONNECTING"
    <3>1. tcp[c] # "NONE"  BY <1>1, <2>1
    <3>2. QED  BY <1>3, <2>1, <3>1, DisconnectEffect, DisconnectGood DEF Sound
  <2>2. CASE client[c].connState # "TCP_DISCONNECTING"
    BY <1>3, <2>2
  <2>3. QED  BY <2>1, <2>2
<1> HIDE DEF left, f
<1>5. QED  BY <1>2, <1>4, ActivateGood, BecomeGood

LEMMA DisconGood ==
    ASSUME IInv, GInv, NEW c \in Conn, Discon(c)
    PROVE  GInv'
<1> DEFINE gone == CASE reverse[c] = "own" -> deleteClientCon(mem, c)
                     [] reverse[c] = "dummy" -> [mem EXCEPT !.dummy = NULL]
                     [] reverse[c] = "NULL" -> mem
           n == [gone EXCEPT !.reverse[c] = "NULL"]
<1>1. /\ mem \in Mem /\ Good(mem) /\ Sessions(mem) /\ Owned(mem)
      /\ reverse \in [Conn -> {"own", "dummy", "NULL"}]
  BY GoodBefore, Before
<1>2. Become(n, [tcp EXCEPT ![c] = "NONE"], [inflight EXCEPT ![c] = FALSE], NULL)
  BY DEF Discon
<1>3. gone \in Mem /\ Good(gone)
  <2>1. CASE reverse[c] = "own"
    <3>1. gone = deleteClientCon(mem, c)  BY <2>1
    <3> HIDE DEF gone
    <3>2. QED  BY <1>1, <3>1, DeleteClientEffect, DeleteClientGood
  <2>2. CASE reverse[c] = "dummy"
    <3>1. gone = [mem EXCEPT !.dummy = NULL]  BY <2>2
    <3> HIDE DEF gone
    <3>2. gone \in Mem /\ gone.client = mem.client /\ gone.retained = mem.retained
      BY <1>1, <3>1 DEF Mem
    <3>3. QED  BY <1>1, <3>2, GoodCopy
  <2>3. CASE reverse[c] = "NULL"
    <3>1. gone = mem  BY <2>3
    <3> HIDE DEF gone
    <3>2. QED  BY <1>1, <3>1
  <2>4. QED  BY <1>1, <2>1, <2>2, <2>3
<1> HIDE DEF gone
<1>4. n.client = gone.client /\ n.retained = gone.retained  BY <1>3 DEF Mem
<1> HIDE DEF n
<1>5. Good(n)  BY <1>3, <1>4, GoodCopy
<1>6. QED  BY <1>2, <1>5, BecomeGood

-----------------------------------------------------------------------------
(* Steps of the timer, of the task and of the sketch *)

LEMMA TimerGood ==
    ASSUME IInv, GInv, NEW c \in Conn, Timer(c)
    PROVE  GInv'
<1> DEFINE s == IF client[c].sendTimeout > 0 THEN client[c].sendTimeout - 1 ELSE 0
           k == client[c].connectionTimeout
           r == [client[c] EXCEPT !.sendTimeout = s]
           ticked == [mem EXCEPT !.client[c].sendTimeout = IF @ > 0 THEN @ - 1 ELSE 0]
           later == [ticked EXCEPT !.client[c].connectionTimeout = @ - 1]
<1>1. /\ mem \in Mem /\ Good(mem) /\ Sound(mem, tcp) /\ Sessions(mem) /\ mem.client = client
      /\ client \in [Conn -> ClientCon]
  BY GoodBefore
<1>2. client[c] \in ClientCon  BY <1>1
<1>3. s \in Nat
  <2>1. client[c].sendTimeout \in Nat  BY <1>2 DEF ClientCon
  <2>2. QED  BY <2>1
<1>4. \/ Become(later, tcp, inflight, NULL)
      \/ Become(disconnectClientCon(ticked, c), tcp, inflight, NULL)
  BY DEF Timer
<1>5. ticked = [mem EXCEPT !.client[c] = r]  BY <1>1
<1> HIDE DEF s
<1>6. /\ r \in ClientCon /\ r.connState = client[c].connState /\ r.client_id = client[c].client_id
      /\ r = [client[c] EXCEPT !.sendTimeout = s, !.connectionTimeout = k]
      /\ r.sendTimeout = s
  BY <1>2, <1>3 DEF ClientCon
<1> HIDE DEF r, k
<1>7. Good([mem EXCEPT !.client[c] = r])
  <2>1. Good([mem EXCEPT !.client[c] =
                 [mem.client[c] EXCEPT !.sendTimeout = s, !.connectionTimeout = k]])
    BY <1>1, TimesGood
  <2>2. QED  BY <1>1, <1>6, <2>1
<1>8. /\ [mem EXCEPT !.client[c] = r] \in Mem /\ Sessions([mem EXCEPT !.client[c] = r])
      /\ [mem EXCEPT !.client[c] = r].client[c] = r
  <2>1. LET n == [mem EXCEPT !.client[c] = r] IN n \in Mem /\ Sessions(n)
    BY <1>1, <1>6, RecordChange DEF Begun
  <2>2. [mem EXCEPT !.client[c] = r].client[c] = r  BY <1>1 DEF Mem
  <2>3. QED  BY <2>1, <2>2
<1>9. ticked \in Mem /\ Good(ticked) /\ Sessions(ticked) /\ ticked.client[c] = r
  BY <1>5, <1>7, <1>8, Zenon
<1> HIDE DEF ticked
<1>10. Good(later)
  <2> DEFINE x == r.connectionTimeout - 1
             u == [r EXCEPT !.connectionTimeout = x]
  <2>1. later = [ticked EXCEPT !.client[c] = u]  BY <1>9
  <2>2. u = [r EXCEPT !.sendTimeout = r.sendTimeout, !.connectionTimeout = x]
    BY <1>6 DEF ClientCon
  <2> HIDE DEF x, u, later
  <2>3. QED  BY <1>9, <2>1, <2>2, TimesGood
<1> HIDE DEF later
<1>11. Good(disconnectClientCon(ticked, c))  BY <1>9, DisconnectGood
<1>12. QED  BY <1>4, <1>10, <1>11, BecomeGood

LEMMA TakenGood ==
    ASSUME IInv, GInv
    PROVE  Taken \in Mem /\ Good(Taken) /\ Sessions(Taken) /\ Taken.client = client
<1>1. mem \in Mem /\ Good(mem) /\ mem.client = client  BY GoodBefore
<1>2. Taken \in Mem /\ Sound(Taken, tcp) /\ Taken.client = client  BY TakenSound
<1>3. Taken.retained = mem.retained  BY <1>1 DEF Taken, Mem
<1>4. Good(Taken)  BY <1>1, <1>2, <1>3, GoodCopy
<1>5. QED  BY <1>2, <1>4 DEF Sound

\* A queue from which the head, or all, has been taken away.
LEMMA PoliteShorter ==
    ASSUME NEW r \in ClientCon, Polite(r), r.connState \in {"TCP_DISCONNECTING", "MQTT_DATA"},
           NEW q, NEW s,
           \/ q = <<>>
           \/ Readable(r.msgQueue) # <<>> /\ q = Tail(Readable(r.msgQueue))
    PROVE  Polite([r EXCEPT !.msgQueue = q, !.sendTimeout = s])
<1> DEFINE old == r.msgQueue
           n == [r EXCEPT !.msgQueue = q, !.sendTimeout = s]
<1>1. old \in Seq(Message) /\ n.connState = r.connState /\ n.msgQueue = q
  BY DEF ClientCon
<1> HIDE DEF n
<1>2. CASE q = <<>>
  BY <1>1, <1>2 DEF Polite, n
<1>3. CASE q = Tail(Readable(old)) /\ Readable(old) # <<>>
  <2>1. CASE r.connState = "TCP_DISCONNECTING"
    <3>1. old = <<Connack(FALSE)>>  BY <1>3, <2>1 DEF Polite, Readable
    <3>2. Connack(FALSE).type # TORN.type  BY DEF Connack, TORN
    <3>3. Head(old) # TORN
      <4>1. Head(old) = Connack(FALSE)  BY <3>1
      <4>2. QED  BY <3>2, <4>1
    <3>4. Readable(old) = <<Connack(FALSE)>>  BY <3>1, <3>3 DEF Readable
    <3>5. q = <<>>  BY <1>3, <3>4
    <3>6. QED  BY <1>2, <3>5
  <2>2. CASE r.connState = "MQTT_DATA"
    <3>1. \A i \in 1 .. Len(old) : i # 1 => old[i].type # "CONNACK"
      BY <1>1, <2>2 DEF Polite
    <3>2. PICK k \in {1, 2} : Len(old) >= k /\ q = SubSeq(old, k + 1, Len(old))
      <4>1. CASE Readable(old) = old
        <5>1. old # <<>> /\ q = Tail(old)  BY <1>3, <4>1
        <5>2. Len(old) >= 1 /\ q = SubSeq(old, 1 + 1, Len(old))  BY <1>1, <5>1
        <5>3. QED  BY <5>2
      <4>2. CASE Readable(old) # old
        <5>1. old # <<>> /\ Tail(old) # <<>> /\ q = Tail(Tail(old))
          BY <1>3, <4>2 DEF Readable
        <5>2. Len(old) >= 2 /\ q = SubSeq(old, 2 + 1, Len(old))  BY <1>1, <5>1
        <5>3. QED  BY <5>2
      <4>3. QED  BY <4>1, <4>2
    <3>3. /\ q \in Seq(Message) /\ Len(q) = Len(old) - k /\ Len(old) \in Nat
          /\ \A i \in 1 .. Len(old) - k : q[i] = old[i + k]
      BY <1>1, <3>2
    <3>4. ASSUME NEW i \in DOMAIN q PROVE q[i].type # "CONNACK"
      <4>1. i \in 1 .. Len(old) - k  BY <3>3
      <4>2. i + k \in 1 .. Len(old) /\ i + k # 1  BY <3>2, <3>3, <4>1
      <4>3. QED  BY <3>1, <3>3, <4>1, <4>2
    <3>5. QED  BY <1>1, <2>2, <3>4 DEF Polite, n
  <2>3. QED  BY <2>1, <2>2
<1>4. QED  BY <1>2, <1>3

LEMMA TaskSendGood ==
    ASSUME IInv, GInv, NEW c \in Conn, TaskSend(c)
    PROVE  GInv'
<1> DEFINE q == Tail(Readable(client[c].msgQueue))
           r == [client[c] EXCEPT !.msgQueue = q, !.sendTimeout = SendTicks]
           n == [Taken EXCEPT !.client[c].msgQueue = q, !.client[c].sendTimeout = SendTicks]
<1>1. /\ Taken \in Mem /\ Good(Taken) /\ Taken.client = client
      /\ client \in [Conn -> ClientCon] /\ Polite(client[c]) /\ Nameless(client[c])
  BY TakenGood, GoodBefore
<1>2. /\ client[c].connState \in {"TCP_DISCONNECTING", "MQTT_DATA"}
      /\ Readable(client[c].msgQueue) # <<>> /\ Become(n, tcp, Sending(c), NULL)
  BY DEF TaskSend, WokenFor
<1>3. client[c] \in ClientCon  BY <1>1
<1>4. Polite(r)  BY <1>1, <1>2, <1>3, PoliteShorter
<1>5. r.connState = client[c].connState /\ r.client_id = client[c].client_id
  BY <1>3 DEF ClientCon
<1>6. n = [Taken EXCEPT !.client[c] = r]
  <2> HIDE DEF q
  <2> DEFINE r1 == [client[c] EXCEPT !.msgQueue = q]
  <2>1. n = [Taken EXCEPT !.client = [[client EXCEPT ![c] = r1]
                                         EXCEPT ![c] = [r1 EXCEPT !.sendTimeout = SendTicks]]]
    BY <1>1 DEF Mem
  <2>2. [r1 EXCEPT !.sendTimeout = SendTicks] = r  BY <1>3 DEF ClientCon
  <2> HIDE DEF r, r1, n
  <2>3. [[client EXCEPT ![c] = r1] EXCEPT ![c] = r] = [client EXCEPT ![c] = r]  BY <1>1
  <2>4. QED  BY <1>1, <2>1, <2>2, <2>3
<1> HIDE DEF n, r
<1>7. Nameless(r)  BY <1>1, <1>5 DEF Nameless, Begun
<1>8. Good([Taken EXCEPT !.client[c] = r])  BY <1>1, <1>4, <1>5, <1>7, GoodRecord
<1>9. QED  BY <1>2, <1>6, <1>8, BecomeGood

LEMMA TaskNothingGood ==
    ASSUME IInv, GInv, NEW c \in Conn, TaskNothingToSend(c)
    PROVE  GInv'
<1> DEFINE waiting == client[c].sendTimeout > 0
           r == [client[c] EXCEPT !.msgQueue = <<>>, !.sendTimeout = client[c].sendTimeout]
           read == [Taken EXCEPT !.client[c].msgQueue = IF waiting THEN @ ELSE <<>>]
           left == IF client[c].connState = "TCP_DISCONNECTING"
                   THEN disconnectClientCon(read, c) ELSE read
<1>1. /\ Taken \in Mem /\ Good(Taken) /\ Sessions(Taken) /\ Taken.client = client
      /\ client \in [Conn -> ClientCon] /\ Polite(client[c]) /\ Nameless(client[c])
      /\ Sound(Taken, tcp)
  BY TakenGood, TakenSound, GoodBefore
<1>2. /\ client[c].connState \in {"TCP_DISCONNECTING", "MQTT_DATA"}
      /\ Become(left, tcp, inflight, NULL)
  BY DEF TaskNothingToSend, WokenFor
<1>3. client[c] \in ClientCon  BY <1>1
<1>4. read \in Mem /\ Good(read) /\ Sessions(read)
  <2>1. CASE waiting
    <3>1. read = [Taken EXCEPT !.client[c] = [client[c] EXCEPT !.msgQueue = @]]
      BY <1>1, <2>1
    <3>2. [client[c] EXCEPT !.msgQueue = @] = client[c]  BY <1>3 DEF ClientCon
    <3>3. [Taken EXCEPT !.client[c] = client[c]] = Taken  BY <1>1 DEF Mem
    <3> HIDE DEF read
    <3>4. QED  BY <1>1, <3>1, <3>2, <3>3
  <2>2. CASE ~waiting
    <3>1. read = [Taken EXCEPT !.client[c] = [client[c] EXCEPT !.msgQueue = <<>>]]
      BY <1>1, <2>2
    <3>2. r = [client[c] EXCEPT !.msgQueue = <<>>]  BY <1>3 DEF ClientCon
    <3>3. Polite(r)  BY <1>1, <1>2, <1>3, PoliteShorter
    <3>4. /\ r.connState = client[c].connState /\ r.client_id = client[c].client_id
          /\ r \in ClientCon
      <4>1. client[c].sendTimeout \in Nat  BY <1>3 DEF ClientCon
      <4>2. <<>> \in Seq(Message)  OBVIOUS
      <4>3. QED  BY <1>3, <4>1, <4>2 DEF ClientCon
    <3> HIDE DEF r, read
    <3>5. Nameless(r)  BY <1>1, <3>4 DEF Nameless, Begun
    <3>6. Good([Taken EXCEPT !.client[c] = r])  BY <1>1, <3>3, <3>4, <3>5, GoodRecord
    <3>7. LET n == [Taken EXCEPT !.client[c] = r] IN n \in Mem /\ Sessions(n)
      BY <1>1, <3>4, RecordChange DEF Begun
    <3>8. QED  BY <3>1, <3>2, <3>6, <3>7
  <2>3. QED  BY <2>1, <2>2
<1> HIDE DEF read
<1>5. Good(left)  BY <1>4, DisconnectGood
<1> HIDE DEF left
<1>6. QED  BY <1>2, <1>5, BecomeGood

LEMMA TaskGood ==
    ASSUME IInv, GInv, ServerTask
    PROVE  GInv'
<1>1. /\ Taken \in Mem /\ Good(Taken) /\ mem \in Mem /\ Good(mem)
  BY TakenGood, GoodBefore
<1>2. CASE TaskDisconnect
  <2>1. PICK t : Become(Taken, t, inflight, NULL)  BY <1>2 DEF TaskDisconnect
  <2>2. QED  BY <1>1, <2>1, BecomeGood
<1>3. ASSUME NEW c \in Conn, TaskSend(c) PROVE GInv'  BY <1>3, TaskSendGood
<1>4. ASSUME NEW c \in Conn, TaskNothingToSend(c) PROVE GInv'  BY <1>4, TaskNothingGood
<1>5. ASSUME NEW c \in Conn, TaskTooEarly(c) PROVE GInv'
  <2>1. Become(Taken, tcp, inflight, NULL)  BY <1>5 DEF TaskTooEarly
  <2>2. QED  BY <1>1, <2>1, BecomeGood
<1>6. ASSUME NEW c \in Conn, TaskFreed(c) PROVE GInv'
  <2>1. CASE Become(Taken, tcp, inflight, NULL)  BY <1>1, <2>1, BecomeGood
  <2>2. ASSUME NEW d, Become([mem EXCEPT !.task = d], tcp, inflight, NULL) PROVE GInv'
    <3>1. /\ [mem EXCEPT !.task = d].client = mem.client
          /\ [mem EXCEPT !.task = d].retained = mem.retained
      BY <1>1 DEF Mem
    <3>2. Good([mem EXCEPT !.task = d])  BY <1>1, <3>1, GoodCopy
    <3>3. QED  BY <2>2, <3>2, BecomeGood
  <2>3. ASSUME NEW t, NEW f, Become(Taken, t, f, NULL) PROVE GInv'
    BY <1>1, <2>3, BecomeGood
  <2>4. CASE Become([Taken EXCEPT !.fault = TRUE], tcp, inflight, NULL)
    <3>1. /\ [Taken EXCEPT !.fault = TRUE].client = Taken.client
          /\ [Taken EXCEPT !.fault = TRUE].retained = Taken.retained
      BY <1>1 DEF Mem
    <3>2. Good([Taken EXCEPT !.fault = TRUE])  BY <1>1, <3>1, GoodCopy
    <3>3. QED  BY <2>4, <3>2, BecomeGood
  <2>5. ASSUME NEW p \in Conn, DisconnectFreed(p) PROVE GInv'
    <3> DEFINE tied == [Taken EXCEPT !.dummy = p, !.reverse[p] = "dummy"]
               n == system_os_post(tied, dummy_clientcon)
    <3>1. tied \in Mem /\ tied.client = Taken.client /\ tied.retained = Taken.retained
      BY <1>1, <2>5 DEF Mem
    <3>2. Load(n, tcp, inflight, NULL)  BY <2>5 DEF DisconnectFreed
    <3> HIDE DEF tied
    <3>3. Good(n)  BY <1>1, <3>1, GoodCopy, PostGood
    <3>4. QED  BY <3>2, <3>3, LoadGood
  <2>6. StalePCon(c) \subseteq Conn  BY DEF StalePCon
  <2>7. QED  BY <1>6, <2>1, <2>2, <2>3, <2>4, <2>5, <2>6 DEF TaskFreed
<1>7. QED  BY <1>2, <1>3, <1>4, <1>5, <1>6 DEF ServerTask

LEMMA SketchGood ==
    ASSUME IInv, GInv, Sketch
    PROVE  GInv'
<1>1. /\ mem \in Mem /\ Good(mem) /\ Owned(mem) /\ Sessions(mem)
      /\ mem.list = clientcon_list /\ clientcon_list \in Seq(Conn)
  BY GoodBefore, Before
<1>2. ASSUME NEW p \in Publications, LocalPublish(p) PROVE GInv'
  <2>1. p \in [topic : Topic, data : Payload, retain : BOOLEAN]  BY InputsAssumption
  <2>2. Distribute(mem, p) \in Mem /\ Good(Distribute(mem, p))
    BY <1>1, <2>1, DistributeKeeps, DistributeGood
  <2>3. Become(activate_next_client(Distribute(mem, p)), tcp, inflight, NULL)
    BY <1>2 DEF LocalPublish
  <2>4. QED  BY <2>2, <2>3, ActivateGood, BecomeGood
<1>3. ASSUME NEW topics, Become([mem EXCEPT !.topics = topics], tcp, inflight, NULL) PROVE GInv'
  <2>1. /\ [mem EXCEPT !.topics = topics].client = mem.client
        /\ [mem EXCEPT !.topics = topics].retained = mem.retained
    BY <1>1 DEF Mem
  <2>2. Good([mem EXCEPT !.topics = topics])  BY <1>1, <2>1, GoodCopy
  <2>3. QED  BY <1>3, <2>2, BecomeGood
<1>4. ASSUME NEW f, LocalSubscribe(f) PROVE GInv'  BY <1>3, <1>4 DEF LocalSubscribe
<1>5. ASSUME NEW f, LocalUnsubscribe(f) PROVE GInv'  BY <1>3, <1>5 DEF LocalUnsubscribe
<1>6. CASE Cleanup
  <2> DEFINE broken == Broken(clientcon_list)
             c == clientcon_list[FirstOf(broken)]
             left == deleteClientCon(mem, c)
             n == [left EXCEPT !.reverse[c] = "NULL"]
             t == [tcp EXCEPT ![c] = "NONE"]
             b == IF Broken(left.list) = {} THEN NULL ELSE LOCAL_MQTT_CLIENT
  <2>1. broken # {} /\ Become(n, t, inflight, b)  BY <1>6 DEF Cleanup
  <2>2. Len(clientcon_list) \in Nat /\ broken \in SUBSET (1 .. Len(clientcon_list))
    BY <1>1 DEF Broken
  <2>3. FirstOf(broken) \in broken  BY <2>1, <2>2, FirstOfMember
  <2>4. c \in Conn  BY <1>1, <2>2, <2>3
  <2> HIDE DEF c, t, b
  <2>5. left \in Mem /\ Good(left)  BY <1>1, <2>4, DeleteClientEffect, DeleteClientGood
  <2> HIDE DEF left
  <2>6. n.client = left.client /\ n.retained = left.retained  BY <2>5 DEF Mem
  <2> HIDE DEF n
  <2>7. Good(n)  BY <2>5, <2>6, GoodCopy
  <2>8. QED  BY <2>1, <2>7, BecomeGood
<1>7. QED  BY <1>2, <1>4, <1>5, <1>6 DEF Sketch

-----------------------------------------------------------------------------
(* The theorems *)

LEMMA InitGood == Init => GInv
<1> SUFFICES ASSUME Init PROVE GInv  OBVIOUS
<1>1. mem.client = Started.client /\ mem.retained = Started.retained
  BY DEF Init, mem, Started
<1>2. Good(mem)  BY <1>1, StartedGood, GoodCopy
<1>3. QED  BY <1>2 DEF GInv

\* One step per action of Next.
LEMMA StepGood == SInv /\ GInv /\ [Next]_vars => GInv'
<1> SUFFICES ASSUME SInv, GInv, [Next]_vars PROVE GInv'  OBVIOUS
<1>0. Good(mem)  BY DEF GInv
<1>1. ASSUME NEW c \in Conn, Receive(c) PROVE GInv'
  BY <1>1, ReceiveUp, UpAndDown, ReceiveGood
<1>2. ASSUME NEW c \in Conn, Accept(c) PROVE GInv'
  BY <1>2, NetworkUp, UpAndDown, AcceptGood
<1>3. ASSUME NEW c \in Conn, AcceptRefused(c) PROVE GInv'
  BY <1>3, NetworkUp, UpAndDown, AcceptRefusedGood
<1>4. ASSUME NEW c \in Conn, AcceptNoMemory(c) PROVE GInv'
  BY <1>0, <1>4, BecomeGood DEF AcceptNoMemory
<1>5. ASSUME NEW c \in Conn, Sent(c) PROVE GInv'
  BY <1>5, NetworkUp, UpAndDown, SentGood
<1>6. ASSUME NEW c \in Conn, Discon(c) PROVE GInv'
  BY <1>6, NetworkUp, UpAndDown, DisconGood
<1>7. ASSUME NEW c \in Conn, Break(c) PROVE GInv'  BY <1>0, <1>7, BecomeGood DEF Break
<1>8. ASSUME NEW c \in Conn, Timer(c) PROVE GInv'
  BY <1>8, NetworkUp, UpAndDown, TimerGood
<1>9. CASE ServerTask  BY <1>9, TaskUp, UpAndDown, TaskGood
<1>10. CASE Sketch  BY <1>10, SketchUp, UpAndDown, SketchGood
<1>11. CASE Reset  BY <1>11, StartedGood, LoadGood DEF Reset
<1>12. CASE UNCHANGED vars
  <2>1. Load(mem, tcp, inflight, busy)  BY <1>12 DEF Load, mem, memory, stack, vars
  <2>2. QED  BY <1>0, <2>1, LoadGood
<1>13. QED
  BY <1>1, <1>2, <1>3, <1>4, <1>5, <1>6, <1>7, <1>8, <1>9, <1>10, <1>11, <1>12 DEF Next

LEMMA GoodInductive == Spec => [](SInv /\ GInv)
<1>1. Init => GInv  BY InitGood
<1>2. SInv /\ GInv /\ [Next]_vars => GInv'  BY StepGood
<1>3. QED  BY <1>1, <1>2, Inductive, PTL DEF Spec

\* Whatever packets come in and however the task is woken, no client hears anything
\* before its CONNACK, and a refused one nothing else (MQTT_ClientCon_recv_cb,
\* MQTT_ServerTask, publish_topic).
THEOREM ConnackCorrect == Spec => []ConnackFirst
<1>1. SInv /\ GInv => ConnackFirst
  <2> SUFFICES ASSUME SInv, GInv PROVE ConnackFirst  OBVIOUS
  <2>1. \A d \in Conn : Polite(client[d])  BY DEF GInv, Good, mem
  <2>2. QED  BY <2>1 DEF ConnackFirst, Polite
<1>2. QED  BY <1>1, GoodInductive, PTL

\* No topic is retained twice, whether a client, a last will or the sketch publishes
\* (update_retainedtopic).
THEOREM RetainedCorrect == Spec => []RetainedOnce
<1>1. SInv /\ GInv => RetainedOnce
  <2> SUFFICES ASSUME SInv, GInv PROVE RetainedOnce  OBVIOUS
  <2>1. Single(retained_list)  BY DEF GInv, Good, mem
  <2>2. QED  BY <2>1 DEF RetainedOnce, Single
<1>2. QED  BY <1>1, GoodInductive, PTL

\* If no segment holds more than one packet, a CONNECT leaves its client alone with its
\* id: the byte behind the id is always zero then, and the client that had the id
\* before is in the list, where delete_client_by_id finds it.
THEOREM SessionsCorrect ==
    ASSUME ~Pipelining
    PROVE  Spec => []OneSessionPerId
<1>1. SInv /\ GInv => OneSessionPerId
  <2> SUFFICES ASSUME SInv, GInv PROVE OneSessionPerId  OBVIOUS
  <2>1. mem.client = client /\ Good(mem)  BY DEF GInv, mem
  <2>2. QED  BY <2>1 DEF OneSessionPerId, Good, Apart
<1>2. QED  BY <1>1, GoodInductive, PTL

-----------------------------------------------------------------------------
(* Copies of a message in a queue *)

LEMMA CopiedType ==
    ASSUME NEW q \in Seq(Message), NEW msg
    PROVE  /\ IsFiniteSet({i \in DOMAIN q : q[i] = msg})
           /\ Copied(q, msg) \in Nat
<1> DEFINE S == {i \in DOMAIN q : q[i] = msg}
<1>1. S \in SUBSET (1 .. Len(q)) /\ Len(q) \in Nat  OBVIOUS
<1> HIDE DEF S
<1>2. IsFiniteSet(S) /\ Cardinality(S) \in Nat  BY <1>1, 0 \in Int, SlotSetsFinite
<1>3. QED  BY <1>2 DEF Copied, S

\* A queue that begins with another one holds no fewer copies, and more if the
\* message stands behind it.
LEMMA CopiedMore ==
    ASSUME NEW q \in Seq(Message), NEW p \in Seq(Message), Len(q) <= Len(p),
           \A i \in 1 .. Len(q) : p[i] = q[i], NEW msg
    PROVE  /\ Copied(p, msg) >= Copied(q, msg)
           /\ Len(q) < Len(p) /\ p[Len(q) + 1] = msg => Copied(p, msg) > Copied(q, msg)
<1> DEFINE S == {i \in DOMAIN q : q[i] = msg}
           T == {i \in DOMAIN p : p[i] = msg}
<1>1. /\ IsFiniteSet(S) /\ IsFiniteSet(T)
      /\ Cardinality(S) = Copied(q, msg) /\ Cardinality(T) = Copied(p, msg)
      /\ Copied(q, msg) \in Nat /\ Copied(p, msg) \in Nat
  BY CopiedType DEF Copied
<1>2. S \subseteq T /\ Len(q) \in Nat /\ Len(p) \in Nat /\ S \subseteq 1 .. Len(q)  OBVIOUS
<1>3. Cardinality(S) <= Cardinality(T)  BY <1>1, <1>2, FS_Subset
<1>4. ASSUME Len(q) < Len(p), p[Len(q) + 1] = msg PROVE Cardinality(T) > Cardinality(S)
  <2> DEFINE k == Len(q) + 1
  <2>1. k \in T /\ k \notin S  BY <1>2, <1>4
  <2> HIDE DEF k, S, T
  <2>2. S # T  BY <2>1
  <2>3. Cardinality(S) # Cardinality(T)  BY <1>1, <1>2, <2>2, FS_Subset
  <2>4. QED  BY <1>1, <1>3, <2>3
<1>5. QED  BY <1>1, <1>3, <1>4

\* QUEUE_Puts leaves what is queued where it stands, and if there is room the first
\* of the messages comes next.
LEMMA PutsBehind ==
    ASSUME NEW q \in Seq(Message), NEW ms \in Seq(Message)
    PROVE  /\ Puts(q, ms) \in Seq(Message) /\ Len(q) <= Len(Puts(q, ms))
           /\ \A i \in 1 .. Len(q) : Puts(q, ms)[i] = q[i]
           /\ Room(q) # 0 /\ ms # <<>> => /\ Len(q) < Len(Puts(q, ms))
                                         /\ Puts(q, ms)[Len(q) + 1] = ms[1]
<1> DEFINE fit == IF Len(ms) <= Room(q) THEN ms ELSE SubSeq(ms, 1, Room(q))
           whole == q \o fit
<1>1. Room(q) \in Nat /\ Len(q) \in Nat /\ Len(ms) \in Nat  BY RoomType
<1>2. /\ fit \in Seq(Message)
      /\ Room(q) # 0 /\ ms # <<>> => Len(fit) >= 1 /\ fit[1] = ms[1]
  <2>1. CASE Len(ms) <= Room(q)  BY <2>1
  <2>2. CASE ~(Len(ms) <= Room(q))
    <3>1. /\ SubSeq(ms, 1, Room(q)) \in Seq(Message) /\ Len(SubSeq(ms, 1, Room(q))) = Room(q)
          /\ \A i \in 1 .. Room(q) : SubSeq(ms, 1, Room(q))[i] = ms[i]
      BY <1>1, <2>2
    <3>2. fit = SubSeq(ms, 1, Room(q))  BY <2>2
    <3>3. QED  BY <1>1, <3>1, <3>2
  <2>3. QED  BY <2>1, <2>2
<1>3. Puts(q, ms) = whole \/ Puts(q, ms) = Append(whole, TORN)  BY DEF Puts
<1> HIDE DEF fit
<1>4. /\ whole \in Seq(Message) /\ Len(whole) = Len(q) + Len(fit) /\ Len(fit) \in Nat
      /\ \A i \in 1 .. Len(q) : whole[i] = q[i]
      /\ \A i \in 1 .. Len(fit) : whole[Len(q) + i] = fit[i]
  BY <1>1, <1>2
<1> HIDE DEF whole
<1>5. /\ Len(q) <= Len(Puts(q, ms)) /\ Len(whole) <= Len(Puts(q, ms))
      /\ \A i \in 1 .. Len(whole) : Puts(q, ms)[i] = whole[i]
  <2>1. Len(whole) \in Nat /\ Len(q) <= Len(whole)  BY <1>1, <1>4
  <2>2. /\ Len(Append(whole, TORN)) = Len(whole) + 1
        /\ \A i \in 1 .. Len(whole) : Append(whole, TORN)[i] = whole[i]
    BY <1>4, <2>1, SMTT(60)
  <2>3. CASE Puts(q, ms) = whole  BY <2>1, <2>3
  <2>4. CASE Puts(q, ms) = Append(whole, TORN)  BY <2>1, <2>2, <2>4
  <2>5. QED  BY <1>3, <2>3, <2>4
<1>6. Puts(q, ms) \in Seq(Message)  BY PutsType
<1>7. \A i \in 1 .. Len(q) : Puts(q, ms)[i] = q[i]  BY <1>1, <1>4, <1>5
<1>8. ASSUME Room(q) # 0, ms # <<>>
      PROVE  Len(q) < Len(Puts(q, ms)) /\ Puts(q, ms)[Len(q) + 1] = ms[1]
  <2>1. Len(fit) >= 1 /\ fit[1] = ms[1]  BY <1>2, <1>8
  <2>2. Len(q) + 1 \in 1 .. Len(whole) /\ 1 \in 1 .. Len(fit)  BY <1>1, <1>4, <2>1
  <2>3. Len(q) < Len(Puts(q, ms))
    <3>1. Len(Puts(q, ms)) \in Nat  BY <1>6
    <3>2. QED  BY <1>1, <1>4, <1>5, <2>1, <3>1
  <2>4. QED  BY <1>4, <1>5, <2>1, <2>2, <2>3
<1>9. QED  BY <1>5, <1>6, <1>7, <1>8

\* Who is subscribed gets at least one copy.
LEMMA CopiesForSubscriber ==
    ASSUME NEW topics, NEW d, NEW msg \in Message,
           \E i \in Matching(topics, msg.topic) : topics[i].owner = d
    PROVE  Copies(topics, d, msg) # <<>> /\ Copies(topics, d, msg)[1] = msg
<1> DEFINE S == {j \in Matching(topics, msg.topic) : topics[j].owner = d}
<1>1. S \in SUBSET (1 .. MaxSubs) /\ S # {}  BY DEF Matching, Slots
<1>2. IsFiniteSet(S) /\ Cardinality(S) \in Nat
  BY <1>1, 0 \in Int, BoundsAssumption, SlotSetsFinite
<1>3. Cardinality(S) # 0  BY <1>1, <1>2, FS_EmptySet
<1>4. Copies(topics, d, msg) = [i \in 1 .. Cardinality(S) |-> msg]  BY DEF Copies
<1> HIDE DEF S
<1>5. 1 \in 1 .. Cardinality(S)  BY <1>2, <1>3
<1>6. [i \in 1 .. Cardinality(S) |-> msg] # <<>>  BY <1>5
<1>7. QED  BY <1>4, <1>5, <1>6

-----------------------------------------------------------------------------
(* What the end of a client does to the queues of the others *)

\* The will of w goes behind the queue q of d, if it has a body to send.
Willed(topics, d, w, q) ==
    IF w = NoWill \/ w.data = NULL THEN q ELSE Puts(q, Copies(topics, d, WillMsg(w)))

\* A will without a body that does no harm has no subscriber.
Unheard(m, c) ==
    LET w == m.client[c].will
    IN  w # NoWill /\ w.data = NULL => Matching(m.topics, w.topic) = {}

LEMMA UpdateQueues ==
    ASSUME NEW m \in Mem, NEW t, NEW d
    PROVE  /\ update_retainedtopic(m, t, d).client = m.client
           /\ update_retainedtopic(m, t, d).fault = m.fault
BY DEF update_retainedtopic, Mem

LEMMA ActivateQueues ==
    ASSUME NEW m \in Mem
    PROVE  /\ activate_next_client(m).client = m.client
           /\ activate_next_client(m).fault = m.fault
BY DEF activate_next_client, system_os_post, Mem

LEMMA WillQueues ==
    ASSUME NEW m \in Mem, NEW c \in Conn, NEW n, n = PublishWill(m, c), ~n.fault
    PROVE  /\ ~m.fault /\ Unheard(m, c)
           /\ \A d \in Conn :
                 n.client[d].msgQueue = Willed(m.topics, d, m.client[c].will, m.client[d].msgQueue)
<1> DEFINE w == m.client[c].will
           found == find_topic(m, WillMsg(w))
           sent == activate_next_client(found)
<1>1. CASE ~HasWill(m, c)
  <2>1. n = m /\ w = NoWill  BY <1>1 DEF PublishWill, HasWill
  <2>2. QED  BY <2>1 DEF Willed, Unheard
<1>2. CASE HasWill(m, c) /\ WillFaults(m, c)
  <2>1. n = [m EXCEPT !.fault = TRUE]  BY <1>2 DEF PublishWill
  <2>2. n.fault  BY <2>1 DEF Mem
  <2>3. QED  BY <2>2
<1>3. CASE HasWill(m, c) /\ ~WillFaults(m, c) /\ w.data = NULL
  <2>1. n = activate_next_client(m)  BY <1>3 DEF PublishWill
  <2>2. n.client = m.client /\ n.fault = m.fault  BY <2>1, ActivateQueues
  <2>3. Matching(m.topics, w.topic) = {}  BY <1>3 DEF WillFaults, WillIsCopied
  <2>4. QED  BY <1>3, <2>2, <2>3 DEF Willed, Unheard
<1>4. CASE HasWill(m, c) /\ ~WillFaults(m, c) /\ w.data # NULL
  <2>1. w \in StoredWill /\ w # NoWill /\ w.data # NULL  BY <1>4 DEF HasWill, Mem, ClientCon
  <2>2. n = IF w.retain THEN update_retainedtopic(sent, w.topic, w.data) ELSE sent
    BY <1>4 DEF PublishWill
  <2>3. Unheard(m, c)  BY <1>4 DEF Unheard
  <2> HIDE DEF w
  <2>4. w.topic \in Topic /\ w.data \in Payload  BY <2>1, WholeBody
  <2>5. WillMsg(w) \in Message /\ WillMsg(w).topic = w.topic
    BY <2>4, PublishMsgType DEF WillMsg, PublishMsg
  <2>6. found \in Mem  BY <2>5, FindKeeps
  <2>7. found.fault = m.fault  BY DEF find_topic, Mem
  <2>8. ASSUME NEW d \in Conn
        PROVE  found.client[d].msgQueue = Puts(m.client[d].msgQueue, Copies(m.topics, d, WillMsg(w)))
    <3>1. found.client[d] = [m.client[d] EXCEPT !.msgQueue =
                                Puts(@, Copies(m.topics, d, WillMsg(w)))]
      BY DEF find_topic, Mem
    <3>2. m.client[d] \in ClientCon  BY DEF Mem
    <3>3. QED  BY <3>1, <3>2 DEF ClientCon
  <2> HIDE DEF found
  <2>9. sent \in Mem /\ sent.client = found.client /\ sent.fault = found.fault
    BY <2>6, ActivateKeeps, ActivateQueues
  <2> HIDE DEF sent
  <2>10. n.client = sent.client /\ n.fault = sent.fault  BY <2>2, <2>9, UpdateQueues
  <2>11. QED  BY <2>1, <2>3, <2>7, <2>8, <2>9, <2>10 DEF Willed, w
<1>5. QED  BY <1>1, <1>2, <1>3, <1>4

\* The record of the dead client aside, its will is all that changes in the queues.
LEMMA DeleteQueues ==
    ASSUME NEW m \in Mem, NEW c \in Conn, NEW n, n = deleteClientCon(m, c), ~n.fault
    PROVE  /\ ~m.fault /\ Unheard(m, c)
           /\ \A d \in Conn \ {c} :
                 n.client[d].msgQueue = Willed(m.topics, d, m.client[c].will, m.client[d].msgQueue)
<1> DEFINE unlinked == [m EXCEPT !.list = Unlink(@, c)]
           willed == PublishWill(unlinked, c)
<1>1. Unlink(m.list, c) \in Seq(Conn)  BY DEF Mem, Unlink, RemoveAt
<1>2. /\ unlinked \in Mem /\ unlinked.client = m.client
      /\ unlinked.topics = m.topics /\ unlinked.fault = m.fault
  BY <1>1 DEF Mem
<1>3. n = [willed EXCEPT !.client[c] = Freed, !.topics = delete_topics(@, c, Filter)]
  BY DEF deleteClientCon
<1> HIDE DEF unlinked
<1>4. willed \in Mem  BY <1>2, WillKeeps
<1>5. n.fault = willed.fault /\ n.client = [willed.client EXCEPT ![c] = Freed]
  BY <1>3, <1>4 DEF Mem
<1>6. \A d \in Conn \ {c} : n.client[d] = willed.client[d]  BY <1>4, <1>5 DEF Mem
<1>7. /\ ~unlinked.fault /\ Unheard(unlinked, c)
      /\ \A d \in Conn : willed.client[d].msgQueue =
             Willed(unlinked.topics, d, unlinked.client[c].will, unlinked.client[d].msgQueue)
  BY <1>2, <1>5, WillQueues
<1> HIDE DEF willed
<1>8. QED  BY <1>2, <1>6, <1>7 DEF Unheard

LEMMA DisconnectQueues ==
    ASSUME NEW m \in Mem, NEW c \in Conn, Sessions(m), NEW n, n = disconnectClientCon(m, c), ~n.fault
    PROVE  /\ ~m.fault /\ Unheard(m, c)
           /\ \A d \in Conn \ {c} :
                 n.client[d].msgQueue = Willed(m.topics, d, m.client[c].will, m.client[d].msgQueue)
<1> DEFINE handed == [m EXCEPT !.dummy = c, !.reverse[c] = "dummy"]
           o == deleteClientCon(handed, c)
<1>1. /\ handed \in Mem /\ handed.list = m.list /\ handed.topics = m.topics
      /\ handed.client = m.client /\ handed.fault = m.fault
  BY DEF Mem
<1>2. n = system_os_post(o, dummy_clientcon)  BY DEF disconnectClientCon
<1> HIDE DEF handed
<1>3. Sessions(handed)  BY <1>1 DEF Sessions
<1>4. o \in Mem  BY <1>1, <1>3, DeleteClientEffect
<1>5. n.client = o.client /\ n.fault = o.fault  BY <1>2, <1>4 DEF system_os_post, Mem
<1>6. /\ ~handed.fault /\ Unheard(handed, c)
      /\ \A d \in Conn \ {c} : o.client[d].msgQueue =
             Willed(handed.topics, d, handed.client[c].will, handed.client[d].msgQueue)
  BY <1>1, <1>5, DeleteQueues
<1> HIDE DEF o
<1>7. QED  BY <1>1, <1>5, <1>6 DEF Unheard

\* A will takes nothing out of a queue, and stands in that of a subscriber with room.
LEMMA WilledMore ==
    ASSUME NEW topics, NEW d, NEW w \in StoredWill \cup {NoWill}, NEW q \in Seq(Message)
    PROVE  /\ Willed(topics, d, w, q) \in Seq(Message)
           /\ \A msg : Copied(Willed(topics, d, w, q), msg) >= Copied(q, msg)
           /\ /\ w # NoWill /\ w.data # NULL /\ Room(q) # 0
              /\ \E i \in Matching(topics, w.topic) : topics[i].owner = d
              => Copied(Willed(topics, d, w, q), WillMsg(w)) > Copied(q, WillMsg(w))
<1>1. CASE w = NoWill \/ w.data = NULL
  <2>1. Willed(topics, d, w, q) = q  BY <1>1 DEF Willed
  <2>2. \A msg : Copied(q, msg) \in Nat  BY CopiedType
  <2>3. \A msg : Copied(q, msg) >= Copied(q, msg)  BY <2>2
  <2>4. QED  BY <1>1, <2>1, <2>3
<1>2. CASE w # NoWill /\ w.data # NULL
  <2> DEFINE ms == Copies(topics, d, WillMsg(w))
             p == Puts(q, ms)
  <2>1. w.topic \in Topic /\ w.data \in Payload  BY <1>2, WholeBody
  <2>2. WillMsg(w) \in Message /\ WillMsg(w).topic = w.topic
    BY <2>1, PublishMsgType DEF WillMsg, PublishMsg
  <2>3. ms \in Seq(Message)  BY <2>2, CopiesType
  <2>4. (\E i \in Matching(topics, w.topic) : topics[i].owner = d) => ms # <<>> /\ ms[1] = WillMsg(w)
    BY <2>2, CopiesForSubscriber
  <2>5. Willed(topics, d, w, q) = p  BY <1>2 DEF Willed
  <2> HIDE DEF ms
  <2>6. /\ p \in Seq(Message) /\ Len(q) <= Len(p)
        /\ \A i \in 1 .. Len(q) : p[i] = q[i]
        /\ Room(q) # 0 /\ ms # <<>> => Len(q) < Len(p) /\ p[Len(q) + 1] = ms[1]
    BY <2>3, PutsBehind
  <2> HIDE DEF p
  <2>7. \A msg : /\ Copied(p, msg) >= Copied(q, msg)
                 /\ Len(q) < Len(p) /\ p[Len(q) + 1] = msg => Copied(p, msg) > Copied(q, msg)
    BY <2>6, CopiedMore
  <2>8. QED  BY <2>4, <2>5, <2>6, <2>7
<1>3. QED  BY <1>1, <1>2

-----------------------------------------------------------------------------
(* Whom a step ends, and what the others get *)

Subscriber(d, t) == \E i \in Matching(topic_list, t) : topic_list[i].owner = d

\* If n ends the accepted client c, its will reaches d.
Told(n, c, d) ==
    LET w == client[c].will IN
    /\ c # d /\ w # NoWill /\ Subscriber(d, w.topic)
    /\ client[c].connState = "MQTT_DATA" /\ n.client[c].connState = "FREED"
    /\ n.client[d].connState = "MQTT_DATA"
    => \/ Copied(n.client[d].msgQueue, WillMsg(w)) > Copied(client[d].msgQueue, WillMsg(w))
       \/ Room(client[d].msgQueue) = 0

\* A memory that a step may end with: a fault ends everybody.
Final(n) == ~n.fault => \A c, d \in Conn : Told(n, c, d)

\* No accepted client is ended at all.
Quiet(n) == \A c \in Conn : client[c].connState = "MQTT_DATA" => n.client[c].connState # "FREED"

LEMMA QuietFinal ==
    ASSUME NEW n, Quiet(n)
    PROVE  Final(n)
BY DEF Quiet, Final, Told

LEMMA SameQuiet ==
    ASSUME NEW n, \A x \in Conn : n.client[x].connState = client[x].connState
    PROVE  Quiet(n)
BY DEF Quiet

\* What a step may have done before it ends client c: its subscriptions and its
\* record have changed at most, but for its state and its will.
Near(m, c) ==
    /\ \A x \in Conn : m.client[x].connState = client[x].connState
    /\ m.client[c].will = client[c].will
    /\ \A x \in Conn \ {c} : m.client[x].msgQueue = client[x].msgQueue
    /\ \A i \in Slots : topic_list[i].owner \in Conn \ {c} => m.topics[i] = topic_list[i]

\* The end of a client is told to the subscribers of its will.
LEMMA EndedFinal ==
    ASSUME IInv, NEW m \in Mem, NEW c \in Conn, Near(m, c), NEW n, Ended(m, n, c),
           ~n.fault => /\ Unheard(m, c)
                       /\ \A d \in Conn \ {c} : n.client[d].msgQueue =
                              Willed(m.topics, d, m.client[c].will, m.client[d].msgQueue)
    PROVE  Final(n)
<1> SUFFICES ASSUME ~n.fault, NEW x \in Conn, NEW d \in Conn, x # d, client[x].will # NoWill,
                    Subscriber(d, client[x].will.topic), client[x].connState = "MQTT_DATA",
                    n.client[x].connState = "FREED", Room(client[d].msgQueue) # 0
             PROVE  Copied(n.client[d].msgQueue, WillMsg(client[x].will))
                        > Copied(client[d].msgQueue, WillMsg(client[x].will))
  BY DEF Final, Told
<1>1. x = c  BY DEF Ended, Near
<1> DEFINE w == client[c].will
           q == client[d].msgQueue
<1>2. w \in StoredWill \cup {NoWill} /\ q \in Seq(Message)
  <2>1. client \in [Conn -> ClientCon]  BY Before
  <2>2. QED  BY <2>1 DEF ClientCon
<1>3. n.client[d].msgQueue = Willed(m.topics, d, w, q)  BY <1>1 DEF Near
<1>4. \E i \in Matching(m.topics, w.topic) : m.topics[i].owner = d
  <2>1. PICK i \in Slots : /\ topic_list[i].owner # NULL /\ topic_list[i].owner = d
                           /\ <<topic_list[i].filter, w.topic>> \in Match
    BY <1>1 DEF Subscriber, Matching
  <2>2. m.topics[i] = topic_list[i]  BY <1>1, <2>1 DEF Near
  <2>3. QED  BY <2>1, <2>2 DEF Matching
<1>5. w # NoWill /\ w.data # NULL /\ Room(q) # 0
  <2>1. m.client[c].will = w /\ w # NoWill  BY <1>1 DEF Near
  <2>2. w.data # NULL  BY <1>4, <2>1 DEF Unheard
  <2>3. QED  BY <2>1, <2>2
<1> HIDE DEF w, q
<1>6. Copied(Willed(m.topics, d, w, q), WillMsg(w)) > Copied(q, WillMsg(w))
  BY <1>2, <1>4, <1>5, WilledMore
<1>7. QED  BY <1>1, <1>3, <1>6 DEF w, q

LEMMA DropFinal ==
    ASSUME IInv, NEW m \in Mem, NEW c \in Conn, Near(m, c), Sessions(m), Pointers(m, tcp),
           \A d \in Conn \ {c} : Unnamed(m.client[d]), tcp[c] # "NONE"
    PROVE  Final(disconnectClientCon(m, c))
<1> DEFINE n == disconnectClientCon(m, c)
<1>1. Ended(m, n, c)  BY DisconnectEffect
<1>2. ~n.fault => /\ Unheard(m, c)
                  /\ \A d \in Conn \ {c} : n.client[d].msgQueue =
                         Willed(m.topics, d, m.client[c].will, m.client[d].msgQueue)
  BY DisconnectQueues
<1> HIDE DEF n
<1>3. Final(n)  BY <1>1, <1>2, EndedFinal
<1>4. QED  BY <1>3 DEF n

LEMMA MemNear ==
    ASSUME IInv, NEW c
    PROVE  Near(mem, c)
BY Before DEF Near

\* What follows in a step may be about a client that is not accepted.
LEMMA LaterFinal ==
    ASSUME IInv, NEW e \in Conn, client[e].connState # "MQTT_DATA", NEW m, NEW n, Final(m),
           ~n.fault => ~m.fault,
           \A x \in Conn \ {e} : n.client[x].connState = m.client[x].connState,
           ~n.fault => \A x \in Conn \ {e} : \A msg :
                           Copied(n.client[x].msgQueue, msg) >= Copied(m.client[x].msgQueue, msg),
           \A x \in Conn \ {e} : \A msg : /\ Copied(n.client[x].msgQueue, msg) \in Nat
                                          /\ Copied(m.client[x].msgQueue, msg) \in Nat
                                          /\ Copied(client[x].msgQueue, msg) \in Nat
    PROVE  Final(n)
<1> SUFFICES ASSUME ~n.fault, NEW c \in Conn, NEW d \in Conn, c # d, client[c].will # NoWill,
                    Subscriber(d, client[c].will.topic), client[c].connState = "MQTT_DATA",
                    n.client[c].connState = "FREED", n.client[d].connState = "MQTT_DATA",
                    Room(client[d].msgQueue) # 0
             PROVE  Copied(n.client[d].msgQueue, WillMsg(client[c].will))
                        > Copied(client[d].msgQueue, WillMsg(client[c].will))
  BY DEF Final, Told
<1> DEFINE msg == WillMsg(client[c].will)
<1>1. c # e  OBVIOUS
<1>2. client[d].connState = "MQTT_DATA"
  <2>1. mem.client = client /\ mem.topics = topic_list /\ Sound(mem, tcp)  BY Before
  <2>2. QED  BY <2>1 DEF Subscriber, Matching, Sound, Sessions
<1>3. d # e  BY <1>2
<1>4. Copied(m.client[d].msgQueue, msg) > Copied(client[d].msgQueue, msg)
  BY <1>1, <1>3 DEF Final, Told
<1> HIDE DEF msg
<1>5. /\ Copied(n.client[d].msgQueue, msg) >= Copied(m.client[d].msgQueue, msg)
      /\ Copied(n.client[d].msgQueue, msg) \in Nat
      /\ Copied(m.client[d].msgQueue, msg) \in Nat
      /\ Copied(client[d].msgQueue, msg) \in Nat
  BY <1>3
<1>6. Copied(n.client[d].msgQueue, msg) > Copied(client[d].msgQueue, msg)  BY <1>4, <1>5
<1>7. QED  BY <1>6 DEF msg

\* The body of WillReachesSubscribers.
Reached ==
    \A c, d \in Conn :
        LET w == client[c].will IN
        /\ c # d /\ w # NoWill /\ Subscribed(d, w.topic)
        /\ client[c].connState = "MQTT_DATA" /\ client'[c].connState = "FREED"
        /\ client'[d].connState = "MQTT_DATA"
        => Queued(d, WillMsg(w)) \/ Room(client[d].msgQueue) = 0

\* A step that ends with such a memory, or with a fault.
LEMMA BecomeFinal ==
    ASSUME NEW n, NEW t, NEW f, NEW b, Final(n), Become(n, t, f, b)
    PROVE  Reached
<1>1. CASE n.fault
  <2>1. client' = Started.client  BY <1>1 DEF Become, Load
  <2>2. \A d \in Conn : client'[d].connState = "FREED"  BY <2>1 DEF Started, Freed
  <2>3. QED  BY <2>2 DEF Reached
<1>2. CASE ~n.fault
  <2>1. client' = n.client  BY <1>2 DEF Become, Load
  <2>2. QED  BY <1>2, <2>1 DEF Reached, Final, Told, Subscribed, Subscriber, Queued
<1>3. QED  BY <1>1, <1>2

-----------------------------------------------------------------------------
(* Steps of the receive callback *)

LEMMA SameFinal ==
    ASSUME NEW m, NEW n, Final(m), n.fault = m.fault,
           \A x \in Conn : /\ n.client[x].connState = m.client[x].connState
                           /\ n.client[x].msgQueue = m.client[x].msgQueue
    PROVE  Final(n)
BY DEF Final, Told

LEMMA LaterSame ==
    ASSUME IInv, NEW e \in Conn, client[e].connState # "MQTT_DATA", NEW m \in Mem, NEW n, Final(m),
           n.fault = m.fault, \A x \in Conn \ {e} : n.client[x] = m.client[x]
    PROVE  Final(n)
<1>1. client \in [Conn -> ClientCon] /\ m.client \in [Conn -> ClientCon]  BY Before DEF Mem
<1>2. \A x \in Conn : client[x].msgQueue \in Seq(Message) /\ m.client[x].msgQueue \in Seq(Message)
  BY <1>1 DEF ClientCon
<1>3. \A x \in Conn : \A msg : /\ Copied(m.client[x].msgQueue, msg) \in Nat
                               /\ Copied(client[x].msgQueue, msg) \in Nat
  BY <1>2, CopiedType
<1>4. \A x \in Conn \ {e} : \A msg :
          /\ Copied(n.client[x].msgQueue, msg) \in Nat
          /\ Copied(n.client[x].msgQueue, msg) >= Copied(m.client[x].msgQueue, msg)
  BY <1>3
<1>5. QED  BY <1>3, <1>4, LaterFinal

\* A step that ends by disconnecting a client.
LEMMA DropReached ==
    ASSUME IInv, NEW m \in Mem, NEW c \in Conn, Near(m, c), Sound(m, tcp),
           client[c].connState # "FREED", DropClient(m, c)
    PROVE  Reached
<1>1. tcp[c] # "NONE"  BY Before
<1>2. Final(disconnectClientCon(m, c))  BY <1>1, DropFinal DEF Sound
<1>3. QED  BY <1>2, BecomeFinal DEF DropClient

\* A packet that is not the client's last.
LEMMA EndReached ==
    ASSUME IInv, NEW m \in Mem, NEW c \in Conn, Final(m), NEW isPublish, NEW more,
           EndOfPacket(m, c, isPublish, more)
    PROVE  Reached
<1> DEFINE r == [m.client[c] EXCEPT !.connectionTimeout = KeepAliveTicks]
           alive == [m EXCEPT !.client[c] = r]
<1>1. m.client[c] \in ClientCon  BY DEF Mem
<1>2. /\ r \in ClientCon /\ r.connState = m.client[c].connState
      /\ r.msgQueue = m.client[c].msgQueue
  BY <1>1, BoundsAssumption DEF ClientCon
<1>3. alive = [m EXCEPT !.client[c].connectionTimeout = KeepAliveTicks]  OBVIOUS
<1> HIDE DEF r
<1>4. /\ alive \in Mem /\ alive.fault = m.fault /\ alive.client[c] = r
      /\ \A x \in Conn \ {c} : alive.client[x] = m.client[x]
  BY <1>2 DEF Mem
<1>5. \/ Become(alive, tcp, inflight, c)
      \/ Become(activate_next_client(alive), tcp, inflight, NULL)
      \/ Become(system_os_post(alive, c), tcp, inflight, NULL)
  BY <1>3 DEF EndOfPacket
<1> HIDE DEF alive
<1>6. \A x \in Conn : /\ alive.client[x].connState = m.client[x].connState
                      /\ alive.client[x].msgQueue = m.client[x].msgQueue
  BY <1>2, <1>4
<1>7. Final(alive)  BY <1>4, <1>6, SameFinal
<1>8. /\ activate_next_client(alive).client = alive.client
      /\ activate_next_client(alive).fault = alive.fault
      /\ system_os_post(alive, c).client = alive.client
      /\ system_os_post(alive, c).fault = alive.fault
  BY <1>4, ActivateQueues DEF system_os_post, Mem
<1>9. Final(activate_next_client(alive)) /\ Final(system_os_post(alive, c))
  BY <1>7, <1>8, SameFinal
<1>10. QED  BY <1>5, <1>7, <1>9, BecomeFinal

\* The packet is answered, and nobody ended.
LEMMA ReplyReached ==
    ASSUME IInv, NEW m \in Mem, NEW c \in Conn, NEW ms \in Seq(Message),
           \A x \in Conn : m.client[x].connState = client[x].connState,
           NEW isPublish, NEW more, EndOfPacket(Queue(m, c, ms), c, isPublish, more)
    PROVE  Reached
<1>1. Queue(m, c, ms) \in Mem /\ SameSessions(m, Queue(m, c, ms))  BY QueueKeeps
<1>2. \A x \in Conn : Queue(m, c, ms).client[x].connState = client[x].connState
  BY <1>1 DEF SameSessions
<1>3. Final(Queue(m, c, ms))  BY <1>2, SameQuiet, QuietFinal
<1>4. QED  BY <1>1, <1>3, EndReached

\* A takeover tells the subscribers of the older session's will.
LEMMA AloneFinal ==
    ASSUME IInv, NEW c \in Conn, In(c, "TCP_CONNECTED"), NEW id \in ClientId \cup {""},
           NEW terminated \in BOOLEAN
    PROVE  Final(Alone(id, terminated))
<1>1. mem \in Mem /\ Sound(mem, tcp) /\ mem.client = client  BY Before
<1>2. Final(mem)  BY <1>1, SameQuiet, QuietFinal
<1>3. CASE id = "" \/ SameId(mem, id) = {} \/ ~terminated
  <2>1. Alone(id, terminated) = mem  BY <1>3 DEF Alone, delete_client_by_id
  <2>2. QED  BY <1>2, <2>1
<1>4. CASE id # "" /\ ~(SameId(mem, id) = {} \/ ~terminated)
  <2> DEFINE x == CHOOSE y \in SameId(mem, id) : TRUE
  <2>1. Alone(id, terminated) = disconnectClientCon(mem, x)
    BY <1>4 DEF Alone, delete_client_by_id
  <2>2. x \in SameId(mem, id)  BY <1>4
  <2> HIDE DEF x
  <2>3. x \in Conn /\ \E i \in DOMAIN mem.list : mem.list[i] = x  BY <2>2 DEF SameId
  <2>4. Begun(mem.client[x])  BY <1>1, <2>3 DEF Sound, Sessions
  <2>5. tcp[x] # "NONE"  BY <1>1, <2>3, <2>4 DEF Sound, Pointers, Begun
  <2>6. Near(mem, x)  BY MemNear
  <2>7. QED  BY <1>1, <2>1, <2>3, <2>5, <2>6, DropFinal DEF Sound
<1>5. QED  BY <1>3, <1>4

\* The client that asks is not ended by that, and hears nothing of it.
LEMMA IdentifiedFinal ==
    ASSUME IInv, NEW c \in Conn, In(c, "TCP_CONNECTED"), NEW id \in ClientId \cup {""},
           NEW w \in StoredWill \cup {NoWill}, NEW terminated \in BOOLEAN
    PROVE  LET n == Identified(c, id, w, terminated)
           IN  /\ n \in Mem /\ Final(n) /\ Sessions(n) /\ Pointers(n, tcp)
               /\ \A d \in Conn \ {c} : Unnamed(n.client[d])
               /\ n.client[c].will = w /\ n.client[c] \in ClientCon
<1> DEFINE m == Alone(id, terminated)
           r == [m.client[c] EXCEPT !.client_id = id, !.will = w]
           n == [m EXCEPT !.client[c] = r]
<1>1. m \in Mem /\ Sound(m, tcp) /\ m.client[c].connState = "TCP_CONNECTED" /\ Final(m)
  BY AloneEffect, AloneFinal
<1>2. m.client \in [Conn -> ClientCon]  BY <1>1 DEF Mem
<1>3. Identified(c, id, w, terminated) = n
  <2>1. Identified(c, id, w, terminated) =
          [m EXCEPT !.client[c].client_id = id, !.client[c].will = w]
    BY DEF Identified, Alone
  <2> HIDE DEF m
  <2>2. QED  BY <1>1, <1>2, <2>1 DEF Mem
<1> HIDE DEF m
<1>4. r \in ClientCon /\ r.connState = "TCP_CONNECTED" /\ r.will = w
  BY <1>1, <1>2 DEF ClientCon, ConnState
<1> HIDE DEF r
<1>5. /\ n \in Mem /\ Sessions(n) /\ Pointers(n, tcp)
      /\ \A d \in Conn \ {c} : Unnamed(n.client[d])
  BY <1>1, <1>4, RecordChange DEF Begun
<1>6. /\ n.fault = m.fault /\ n.client[c] = r
      /\ \A x \in Conn \ {c} : n.client[x] = m.client[x]
  BY <1>1 DEF Mem
<1> HIDE DEF n
<1>7. client[c].connState # "MQTT_DATA"  BY DEF In
<1>8. Final(n)  BY <1>1, <1>6, <1>7, LaterSame
<1>9. QED  BY <1>3, <1>4, <1>5, <1>6, <1>8

\* Every CONNECT that is answered once the id has been read.
LEMMA AnswerReached ==
    ASSUME IInv, NEW c \in Conn, In(c, "TCP_CONNECTED"), NEW id \in ClientId \cup {""},
           NEW w \in StoredWill \cup {NoWill}, NEW terminated \in BOOLEAN,
           NEW state \in {"MQTT_DATA", "TCP_DISCONNECTING"}, NEW ok \in BOOLEAN, NEW more,
           Answer(Identified(c, id, w, terminated), c, state, ok, more)
    PROVE  Reached
<1> DEFINE m == Identified(c, id, w, terminated)
           r == [m.client[c] EXCEPT !.connState = state]
           n == [m EXCEPT !.client[c] = r]
           o == Queue(n, c, <<Connack(ok)>>)
<1>1. m \in Mem /\ Final(m) /\ m.client[c] \in ClientCon  BY IdentifiedFinal
<1>2. EndOfPacket(o, c, FALSE, more)  BY DEF Answer
<1> HIDE DEF m
<1>3. r \in ClientCon  BY <1>1 DEF ClientCon, ConnState
<1> HIDE DEF r
<1>4. n \in Mem /\ n.fault = m.fault /\ \A x \in Conn \ {c} : n.client[x] = m.client[x]
  BY <1>1, <1>3 DEF Mem
<1> HIDE DEF n
<1>5. <<Connack(ok)>> \in Seq(Message)
  <2>1. Connack(ok) \in Message  BY ReplyTypes, Zenon
  <2>2. QED  BY <2>1, OneElement
<1>6. o \in Mem  BY <1>4, <1>5, QueueKeeps
<1>7. o.fault = n.fault /\ \A x \in Conn \ {c} : o.client[x] = n.client[x]
  BY <1>4 DEF Queue, Mem
<1> HIDE DEF o
<1>8. client[c].connState # "MQTT_DATA"  BY DEF In
<1>9. o.fault = m.fault /\ \A x \in Conn \ {c} : o.client[x] = m.client[x]
  BY <1>4, <1>7
<1>10. Final(o)  BY <1>1, <1>8, <1>9, LaterSame
<1>11. QED  BY <1>2, <1>6, <1>10, EndReached

\* Two wills in one step: that of the older session, then that of the newcomer.
LEMMA MalformedReached ==
    ASSUME IInv, NEW c \in Conn, NEW id \in ClientId \cup {""}, NEW w \in StoredWill \cup {NoWill},
           ConnectMalformed(c, id, w)
    PROVE  Reached
<1>1. PICK more \in More : \E t \in Terminated(w, more) : DropClient(Identified(c, id, w, t), c)
  BY DEF ConnectMalformed
<1>2. PICK t \in Terminated(w, more) : DropClient(Identified(c, id, w, t), c)  BY <1>1
<1>3. t \in BOOLEAN  BY TerminatedType
<1>4. In(c, "TCP_CONNECTED") /\ client[c].connState = "TCP_CONNECTED" /\ tcp[c] # "NONE"
  <2>1. In(c, "TCP_CONNECTED") /\ client[c].connState = "TCP_CONNECTED"
    BY DEF ConnectMalformed, In
  <2>2. QED  BY <2>1, Before
<1> DEFINE m == Identified(c, id, w, t)
           n == disconnectClientCon(m, c)
<1>5. /\ m \in Mem /\ Final(m) /\ Sessions(m) /\ Pointers(m, tcp)
      /\ \A d \in Conn \ {c} : Unnamed(m.client[d])
      /\ m.client[c].will = w
  BY ZenonT(60), <1>3, <1>4, IdentifiedFinal
<1>6. Become(n, tcp, inflight, NULL)  BY <1>2 DEF DropClient
<1> HIDE DEF m
<1>7. n \in Mem /\ Ended(m, n, c)  BY <1>4, <1>5, DisconnectEffect
<1>8. ~n.fault => /\ ~m.fault
                  /\ \A d \in Conn \ {c} : n.client[d].msgQueue =
                         Willed(m.topics, d, m.client[c].will, m.client[d].msgQueue)
  BY <1>5, DisconnectQueues
<1> HIDE DEF n
<1>9. \A x \in Conn : /\ client[x].msgQueue \in Seq(Message)
                      /\ m.client[x].msgQueue \in Seq(Message)
                      /\ n.client[x].msgQueue \in Seq(Message)
  <2>1. /\ client \in [Conn -> ClientCon] /\ m.client \in [Conn -> ClientCon]
        /\ n.client \in [Conn -> ClientCon]
    BY <1>5, <1>7, Before DEF Mem
  <2>2. QED  BY <2>1 DEF ClientCon
<1>10. ~n.fault => \A x \in Conn \ {c} : \A msg :
           Copied(n.client[x].msgQueue, msg) >= Copied(m.client[x].msgQueue, msg)
  <2>1. SUFFICES ASSUME ~n.fault, NEW x \in Conn \ {c}, NEW msg
                 PROVE  Copied(n.client[x].msgQueue, msg) >= Copied(m.client[x].msgQueue, msg)
    OBVIOUS
  <2>2. n.client[x].msgQueue = Willed(m.topics, x, w, m.client[x].msgQueue)
    BY <1>5, <1>8, <2>1
  <2>3. QED  BY <1>9, <2>2, WilledMore
<1>11. \A x \in Conn \ {c} : \A msg : /\ Copied(n.client[x].msgQueue, msg) \in Nat
                                      /\ Copied(m.client[x].msgQueue, msg) \in Nat
                                      /\ Copied(client[x].msgQueue, msg) \in Nat
  BY <1>9, CopiedType
<1>12. \A x \in Conn \ {c} : n.client[x].connState = m.client[x].connState
  BY <1>7 DEF Ended
<1>13. client[c].connState # "MQTT_DATA"  BY <1>4
<1>14. Final(n)  BY <1>5, <1>8, <1>10, <1>11, <1>12, <1>13, LaterFinal
<1>15. QED  BY <1>6, <1>14, BecomeFinal

LEMMA QuietReached ==
    ASSUME NEW n, NEW t, NEW f, NEW b, Quiet(n), Become(n, t, f, b)
    PROVE  Reached
BY QuietFinal, BecomeFinal

\* Whoever is ended without having been accepted leaves no will that counts.
LEMMA EndedQuiet ==
    ASSUME NEW c \in Conn, client[c].connState # "MQTT_DATA", NEW m, NEW n, Ended(m, n, c),
           \A x \in Conn : m.client[x].connState = client[x].connState
    PROVE  Quiet(n)
BY DEF Ended, Quiet

LEMMA ReceiveReached ==
    ASSUME IInv, NEW c \in Conn, Receive(c), ~Disconnect(c)
    PROVE  Reached
<1> DEFINE id0 == ClientId \cup {""}
<1>0. /\ mem \in Mem /\ Sound(mem, tcp) /\ mem.client = client /\ mem.topics = topic_list
      /\ Near(mem, c)
  BY Before, MemNear
<1>1. ASSUME client[c].connState # "FREED", DropClient(mem, c) PROVE Reached
  BY <1>0, <1>1, DropReached
<1>2. CASE RecvInvalid(c)
  <2>1. client[c].connState # "FREED" /\ DropClient(mem, c)  BY <1>2 DEF RecvInvalid
  <2>2. QED  BY <2>1, <1>1
<1>3. CASE RecvMalformedList(c)
  <2>1. client[c].connState = "MQTT_DATA"  BY <1>3 DEF RecvMalformedList, In
  <2>2. ASSUME NEW topics, NEW m \in Mem, Sound(m, tcp), m.client = client, m.topics = topics,
               \A i \in Slots : topic_list[i].owner \in Conn \ {c} => topics[i] = topic_list[i],
               DropClient(m, c)
        PROVE  Reached
    <3>1. Near(m, c)  BY <2>2 DEF Near
    <3>2. QED  BY <2>1, <2>2, <3>1, DropReached
  <2>3. ASSUME NEW fs \in FilterList,
               DropClient([mem EXCEPT !.topics = add_topics(@, c, fs)], c)
        PROVE  Reached
    <3> DEFINE topics == add_topics(topic_list, c, fs)
               m == [mem EXCEPT !.topics = add_topics(@, c, fs)]
    <3>1. fs \in Seq(Filter)  BY InputsAssumption
    <3>2. m \in Mem /\ Sound(m, tcp) /\ m.client = client
      BY <1>0, <2>1, <3>1, AddKeeps
    <3>3. m.topics = topics  BY <1>0 DEF Mem
    <3>4. \A i \in Slots : topic_list[i].owner \in Conn \ {c} => topics[i] = topic_list[i]
      BY NamesAssumption DEF add_topics, FreeSlots
    <3> HIDE DEF m, topics
    <3>5. DropClient(m, c)  BY <2>3 DEF m
    <3>6. QED  BY <2>2, <3>2, <3>3, <3>4, <3>5
  <2>4. ASSUME NEW F \in SUBSET Filter,
               DropClient([mem EXCEPT !.topics = delete_topics(@, c, F)], c)
        PROVE  Reached
    <3> DEFINE topics == delete_topics(topic_list, c, F)
               m == [mem EXCEPT !.topics = delete_topics(@, c, F)]
    <3>1. m \in Mem /\ Sound(m, tcp) /\ m.client = client  BY <1>0, DeleteKeeps
    <3>2. m.topics = topics  BY <1>0 DEF Mem
    <3>3. \A i \in Slots : topic_list[i].owner \in Conn \ {c} => topics[i] = topic_list[i]
      BY DEF delete_topics
    <3> HIDE DEF m, topics
    <3>4. DropClient(m, c)  BY <2>4 DEF m
    <3>5. QED  BY <2>2, <3>1, <3>2, <3>3, <3>4
  <2>5. QED  BY <1>3, <2>3, <2>4 DEF RecvMalformedList
<1>4. CASE RecvPartial(c)
  <2>1. Load(mem, tcp, inflight, NULL) /\ up' = up
    BY <1>4 DEF RecvPartial, Load, mem, memory, stack
  <2>2. client' = client  BY <1>0, <2>1 DEF Load
  <2>3. QED  BY <2>2 DEF Reached
<1>5. CASE RecvWithoutBuffer(c)
  <2>1. Become([mem EXCEPT !.fault = TRUE], tcp, inflight, busy)
    BY <1>5 DEF RecvWithoutBuffer
  <2>2. [mem EXCEPT !.fault = TRUE].client = client  BY <1>0 DEF Mem
  <2>3. QED  BY <2>1, <2>2, SameQuiet, QuietReached
<1>6. CASE RecvTooShortWhenRefused(c)
  <2>1. client[c].connState # "FREED" /\ DropClient(mem, c)
    BY <1>6 DEF RecvTooShortWhenRefused, In
  <2>2. QED  BY <2>1, <1>1
<1>7. CASE RecvTooShortByDummy(c)
  <2> DEFINE m == [mem EXCEPT !.reverse[dummy_pCon] = "dummy"]
             n == system_os_post(m, dummy_clientcon)
  <2>1. Become(n, tcp, inflight, NULL)  BY <1>7 DEF RecvTooShortByDummy
  <2>2. n.client = client  BY <1>0 DEF system_os_post, Mem
  <2>3. QED  BY <2>1, <2>2, SameQuiet, QuietReached
<1>8. ASSUME NEW more, ConnectRefused(c, more) PROVE Reached
  <2> DEFINE r == [mem.client[c] EXCEPT !.connState = "TCP_DISCONNECTING"]
             refused == [mem EXCEPT !.client[c] = r]
             n == Queue(refused, c, <<Connack(FALSE)>>)
  <2>1. client[c].connState = "TCP_CONNECTED"  BY <1>8 DEF ConnectRefused, In
  <2>2. mem.client[c] \in ClientCon  BY <1>0 DEF Mem
  <2>3. r \in ClientCon  BY <2>2 DEF ClientCon, ConnState
  <2>4. EndOfPacket(n, c, FALSE, more)  BY <1>8 DEF ConnectRefused
  <2> HIDE DEF r
  <2>5. refused \in Mem /\ \A x \in Conn \ {c} : refused.client[x] = client[x]
    BY <1>0, <2>3 DEF Mem
  <2> HIDE DEF refused
  <2>6. Connack(FALSE) \in Message  BY ReplyTypes, Zenon
  <2>7. <<Connack(FALSE)>> \in Seq(Message)  BY <2>6, OneElement
  <2>8. n \in Mem /\ SameSessions(refused, n)  BY <2>5, <2>7, QueueKeeps
  <2> HIDE DEF n
  <2>9. Quiet(n)
    <3>1. \A x \in Conn : n.client[x].connState = refused.client[x].connState
      BY <2>8 DEF SameSessions
    <3>2. \A x \in Conn \ {c} : n.client[x].connState = client[x].connState
      BY <2>5, <3>1
    <3>3. QED  BY <2>1, <3>2 DEF Quiet
  <2>10. QED  BY <2>4, <2>8, <2>9, QuietFinal, EndReached
<1>9. ASSUME NEW id \in id0, NEW more, ConnectNotAuthorized(c, id, more) PROVE Reached
  <2>1. PICK t \in Terminated(NoWill, more) :
             Answer(Identified(c, id, NoWill, t), c, "TCP_DISCONNECTING", FALSE, more)
    BY <1>9 DEF ConnectNotAuthorized
  <2>2. In(c, "TCP_CONNECTED")  BY <1>9 DEF ConnectNotAuthorized
  <2>3. t \in BOOLEAN  BY TerminatedType
  <2>4. QED  BY <1>9, <2>1, <2>2, <2>3, AnswerReached
<1>10. ASSUME NEW id \in id0, NEW w \in StoredWill \cup {NoWill}, NEW more,
              ConnectAccepted(c, id, w, more)
       PROVE  Reached
  <2>1. PICK t \in Terminated(w, more) :
             Answer(Identified(c, id, w, t), c, "MQTT_DATA", TRUE, more)
    BY <1>10 DEF ConnectAccepted
  <2>2. In(c, "TCP_CONNECTED")  BY <1>10 DEF ConnectAccepted
  <2>3. t \in BOOLEAN  BY TerminatedType
  <2>4. QED  BY <1>10, <2>1, <2>2, <2>3, AnswerReached
<1>11. ASSUME NEW id \in id0, NEW w \in StoredWill \cup {NoWill}, NEW more,
              ConnectNoMemory(c, id, w, more)
       PROVE  Reached
  <2>1. /\ In(c, "TCP_CONNECTED")
        /\ Answer(Identified(c, id, w, TRUE), c, "TCP_DISCONNECTING", FALSE, more)
    BY <1>11 DEF ConnectNoMemory
  <2>2. QED  BY <1>11, <2>1, AnswerReached
<1>12. ASSUME NEW id \in id0, NEW w \in StoredWill \cup {NoWill}, ConnectMalformed(c, id, w)
       PROVE  Reached
  BY <1>12, MalformedReached
<1>13. ASSUME NEW m \in Mem, m.client = client, NEW ms \in Seq(Message), NEW more,
              EndOfPacket(Queue(m, c, ms), c, FALSE, more)
       PROVE  Reached
  BY <1>13, ReplyReached
<1>14. <<Reply>> \in Seq(Message)  BY ReplyTypes, OneElement
<1>15. ASSUME NEW fs \in FilterList, NEW more, Subscribe(c, fs, more) PROVE Reached
  <2> DEFINE n == [mem EXCEPT !.topics = add_topics(@, c, fs)]
             found == RetainedFor(retained_list, fs[Len(fs)])
  <2>1. client[c].connState = "MQTT_DATA"  BY <1>15 DEF Subscribe, In
  <2>2. fs \in Seq(Filter)  BY InputsAssumption
  <2>3. n \in Mem /\ n.client = client  BY <1>0, <2>1, <2>2, AddKeeps
  <2>4. retained_list \in [RetainedSlots -> RetainedEntry]  BY DEF IInv, TypeOK
  <2>5. found \in Seq(Message)  BY <2>4, RetainedForType
  <2>6. EndOfPacket(Queue(n, c, <<Reply>> \o found), c, FALSE, more)
    BY <1>15 DEF Subscribe
  <2> HIDE DEF n, found
  <2>7. <<Reply>> \o found \in Seq(Message)  BY <1>14, <2>5
  <2>8. QED  BY <1>13, <2>3, <2>6, <2>7
<1>16. ASSUME NEW F, NEW more, Unsubscribe(c, F, more) PROVE Reached
  <2> DEFINE n == [mem EXCEPT !.topics = delete_topics(@, c, F)]
  <2>1. n \in Mem /\ n.client = client  BY <1>0, DeleteKeeps
  <2>2. EndOfPacket(Queue(n, c, <<Reply>>), c, FALSE, more)  BY <1>16 DEF Unsubscribe
  <2> HIDE DEF n
  <2>3. QED  BY <1>13, <1>14, <2>1, <2>2
<1>17. ASSUME NEW p \in Publications, NEW more, Publish(c, p, more) PROVE Reached
  <2>1. p \in [topic : Topic, data : Payload, retain : BOOLEAN]  BY InputsAssumption
  <2>2. Distribute(mem, p) \in Mem /\ SameSessions(mem, Distribute(mem, p))
    BY <1>0, <2>1, DistributeKeeps
  <2>3. EndOfPacket(Distribute(mem, p), c, TRUE, more)  BY <1>17 DEF Publish
  <2>4. Final(Distribute(mem, p))
    BY <1>0, <2>2, SameQuiet, QuietFinal DEF SameSessions
  <2>5. QED  BY <2>2, <2>3, <2>4, EndReached
<1>18. ASSUME NEW more, PingReq(c, more) PROVE Reached
  <2>1. EndOfPacket(Queue(mem, c, <<Reply>>), c, FALSE, more)  BY <1>18 DEF PingReq
  <2>2. QED  BY <1>0, <1>13, <1>14, <2>1
<1>19. ASSUME NEW p, NEW more, Ignored(c, p, more) PROVE Reached
  <2>1. EndOfPacket(mem, c, p, more)  BY <1>19 DEF Ignored
  <2>2. Final(mem)  BY <1>0, SameQuiet, QuietFinal
  <2>3. QED  BY <1>0, <2>1, <2>2, EndReached
<1>20. QED
  BY <1>2, <1>3, <1>4, <1>5, <1>6, <1>7, <1>8, <1>9, <1>10, <1>11, <1>12, <1>15, <1>16,
     <1>17, <1>18, <1>19, CarriedWills DEF Receive

\* A clean session close ends nobody else.
LEMMA DisconnectReached ==
    ASSUME IInv, NEW x \in Conn, Disconnect(x), NEW c \in Conn \ {x},
           client[c].connState = "MQTT_DATA", client'[c].connState = "FREED"
    PROVE  \A d \in Conn : client'[d].connState = "FREED"
<1> DEFINE r == [mem.client[x] EXCEPT !.will = NoWill]
           m == [mem EXCEPT !.client[x] = r]
           n == disconnectClientCon(m, x)
<1>1. /\ mem \in Mem /\ Sound(mem, tcp) /\ mem.client = client
      /\ client[x].connState # "FREED" => tcp[x] # "NONE"
  BY Before
<1>2. client[x].connState = "MQTT_DATA" /\ DropClient(m, x)  BY DEF Disconnect, In
<1>3. mem.client[x] \in ClientCon  BY <1>1 DEF Mem
<1>4. r \in ClientCon /\ r.connState = "MQTT_DATA"
  BY <1>1, <1>2, <1>3 DEF ClientCon
<1>5. Become(n, tcp, inflight, NULL)  BY <1>2 DEF DropClient
<1> HIDE DEF r
<1>6. m \in Mem /\ Sound(m, tcp) /\ m.client[c] = client[c]
  <2>1. m \in Mem /\ Sound(m, tcp)
    BY <1>1, <1>2, <1>4, RecordChange DEF Begun, Unnamed
  <2>2. QED  BY <2>1, <1>1 DEF Mem
<1> HIDE DEF m
<1>7. Ended(m, n, x)  BY <1>1, <1>2, <1>6, DisconnectEffect DEF Sound
<1> HIDE DEF n
<1>8. n.client[c].connState = "MQTT_DATA"  BY <1>6, <1>7 DEF Ended
<1>9. n.fault  BY <1>5, <1>8 DEF Become, Load
<1>10. client' = Started.client  BY <1>5, <1>9 DEF Become, Load
<1>11. QED  BY <1>10 DEF Started, Freed

-----------------------------------------------------------------------------
(* The other steps *)

LEMMA NetworkReached ==
    ASSUME IInv, NEW c \in Conn,
           Accept(c) \/ AcceptRefused(c) \/ AcceptNoMemory(c) \/ Break(c)
    PROVE  Reached
<1>1. /\ mem \in Mem /\ mem.client = client /\ client \in [Conn -> ClientCon]
      /\ client[c].connState # "FREED" => tcp[c] # "NONE"
  BY Before
<1>2. CASE Accept(c)
  <2> DEFINE r == [Freed EXCEPT !.connState = "TCP_CONNECTED", !.connectionTimeout = ConnectTicks]
             n == [mem EXCEPT !.reverse[c] = "own", !.list = <<c>> \o @, !.client[c] = r]
  <2>1. Become(n, [tcp EXCEPT ![c] = "CONNECT"], inflight, NULL)  BY <1>2 DEF Accept
  <2>2. r.connState = "TCP_CONNECTED"  BY DEF Freed
  <2> HIDE DEF r
  <2>3. n.client = [client EXCEPT ![c] = r]  BY <1>1 DEF Mem
  <2> HIDE DEF n
  <2>4. Quiet(n)  BY <1>1, <2>2, <2>3 DEF Quiet
  <2>5. QED  BY <2>1, <2>4, QuietReached
<1>3. CASE AcceptRefused(c)
  <2> DEFINE r == [client[c] EXCEPT !.connState = "TCP_DISCONNECT"]
             m == [mem EXCEPT !.reverse[c] = "own", !.client[c].connState = "TCP_DISCONNECT"]
             n == system_os_post(m, c)
  <2>1. Become(n, [tcp EXCEPT ![c] = "CONNECT"], inflight, NULL)  BY <1>3 DEF AcceptRefused
  <2>2. client[c].connState = "FREED"  BY <1>1, <1>3 DEF AcceptRefused
  <2>3. n.client = [client EXCEPT ![c] = r]  BY <1>1 DEF system_os_post, Mem
  <2> HIDE DEF n, r
  <2>4. \A x \in Conn \ {c} : n.client[x] = client[x]  BY <1>1, <2>3
  <2>5. Quiet(n)  BY <2>2, <2>4 DEF Quiet
  <2>6. QED  BY <2>1, <2>5, QuietReached
<1>4. CASE AcceptNoMemory(c) \/ Break(c)
  <2>1. \E t, f : Become(mem, t, f, NULL)  BY <1>4 DEF AcceptNoMemory, Break
  <2>2. QED  BY <1>1, <2>1, SameQuiet, QuietReached
<1>5. QED  BY <1>2, <1>3, <1>4

LEMMA SentReached ==
    ASSUME IInv, NEW c \in Conn, Sent(c)
    PROVE  Reached
<1> DEFINE acked == CASE reverse[c] = "own" -> [mem EXCEPT !.client[c].sendTimeout = 0]
                      [] reverse[c] = "dummy" -> mem
                      [] reverse[c] = "NULL" -> [mem EXCEPT !.fault = TRUE]
           left == IF client[c].connState = "TCP_DISCONNECTING"
                   THEN disconnectClientCon(acked, c) ELSE acked
           f == [inflight EXCEPT ![c] = FALSE]
<1>1. /\ mem \in Mem /\ Sound(mem, tcp) /\ mem.client = client /\ mem.reverse = reverse
      /\ client \in [Conn -> ClientCon] /\ reverse \in [Conn -> {"own", "dummy", "NULL"}]
      /\ client[c].connState # "FREED" => reverse[c] = "own" /\ tcp[c] # "NONE"
  BY Before
<1>2. Become(activate_next_client(left), tcp, f, NULL)  BY DEF Sent
<1>3. /\ acked \in Mem /\ acked.list = mem.list /\ acked.topics = mem.topics
      /\ \A x \in Conn : acked.client[x].connState = client[x].connState
  <2> DEFINE r == [client[c] EXCEPT !.sendTimeout = 0]
  <2>1. CASE reverse[c] = "own"
    <3>1. client[c] \in ClientCon  BY <1>1
    <3>2. r \in ClientCon /\ r.connState = client[c].connState  BY <3>1 DEF ClientCon
    <3>3. acked = [mem EXCEPT !.client[c] = r]  BY <1>1, <2>1
    <3> HIDE DEF r, acked
    <3>4. QED  BY <1>1, <3>2, <3>3 DEF Mem
  <2>2. CASE reverse[c] = "dummy"
    BY <1>1, <2>2
  <2>3. CASE reverse[c] = "NULL"
    <3>1. acked = [mem EXCEPT !.fault = TRUE]  BY <2>3
    <3> HIDE DEF acked
    <3>2. QED  BY <1>1, <3>1 DEF Mem
  <2>4. QED  BY <1>1, <2>1, <2>2, <2>3
<1> HIDE DEF acked
<1>4. left \in Mem /\ Quiet(left)
  <2>1. CASE client[c].connState = "TCP_DISCONNECTING"
    <3> DEFINE handed == [acked EXCEPT !.dummy = c, !.reverse[c] = "dummy"]
               o == deleteClientCon(handed, c)
    <3>1. left = system_os_post(o, dummy_clientcon)  BY <2>1 DEF disconnectClientCon
    <3>2. /\ handed \in Mem /\ handed.list = mem.list /\ handed.topics = mem.topics
          /\ handed.client = acked.client
      BY <1>3 DEF Mem
    <3>3. Sessions(handed)
      <4>1. Sessions(mem) /\ mem.list \in Seq(Conn)  BY <1>1 DEF Sound, Mem
      <4>2. \A i \in DOMAIN mem.list : mem.list[i] \in Conn  BY <4>1
      <4>3. \A x \in Conn : handed.client[x].connState = mem.client[x].connState
        BY <1>1, <1>3, <3>2
      <4>4. handed.list = mem.list /\ handed.topics = mem.topics  BY <3>2
      <4> HIDE DEF handed
      <4>5. \A x \in Conn : Begun(handed.client[x]) <=> Begun(mem.client[x])
        BY <4>3 DEF Begun
      <4>6. /\ \A i, j \in DOMAIN handed.list : handed.list[i] = handed.list[j] => i = j
            /\ \A i \in DOMAIN handed.list : Begun(handed.client[handed.list[i]])
            /\ \A d \in Conn : Begun(handed.client[d]) => \E i \in DOMAIN handed.list : handed.list[i] = d
        BY <4>1, <4>2, <4>4, <4>5 DEF Sessions
      <4>7. \A i \in Slots : handed.topics[i].owner \in Conn =>
                                 handed.client[handed.topics[i].owner].connState = "MQTT_DATA"
        BY <4>1, <4>3, <4>4 DEF Sessions
      <4>8. QED  BY <4>6, <4>7 DEF Sessions
    <3> HIDE DEF handed
    <3>4. o \in Mem /\ Ended(handed, o, c)  BY <3>2, <3>3, DeleteClientEffect
    <3>5. Quiet(o)  BY <1>3, <2>1, <3>2, <3>4, EndedQuiet
    <3> HIDE DEF o
    <3>6. left \in Mem /\ left.client = o.client
      <4> HIDE DEF left
      <4>1. left \in Mem  BY <3>1, <3>4, PostKeeps
      <4>2. left.client = o.client  BY <3>1, <3>4 DEF system_os_post, Mem
      <4>3. QED  BY <4>1, <4>2
    <3>7. QED  BY <3>5, <3>6 DEF Quiet
  <2>2. CASE client[c].connState # "TCP_DISCONNECTING"
    BY <1>3, <2>2, SameQuiet
  <2>3. QED  BY <2>1, <2>2
<1> HIDE DEF left
<1>5. Quiet(activate_next_client(left))  BY <1>4, ActivateQueues DEF Quiet
<1>6. QED  BY <1>2, <1>5, QuietReached

\* What deleteClientCon leaves, whatever the connection points to afterwards.
LEMMA DeletedFinal ==
    ASSUME IInv, NEW c \in Conn, client[c].connState # "FREED"
    PROVE  Final([deleteClientCon(mem, c) EXCEPT !.reverse[c] = "NULL"])
<1> DEFINE n == deleteClientCon(mem, c)
           o == [n EXCEPT !.reverse[c] = "NULL"]
<1>1. mem \in Mem /\ Sound(mem, tcp) /\ Near(mem, c)  BY Before, MemNear
<1>2. n \in Mem /\ Ended(mem, n, c)  BY <1>1, DeleteClientEffect DEF Sound
<1>3. ~n.fault => /\ Unheard(mem, c)
                  /\ \A d \in Conn \ {c} : n.client[d].msgQueue =
                         Willed(mem.topics, d, mem.client[c].will, mem.client[d].msgQueue)
  BY <1>1, DeleteQueues
<1> HIDE DEF n
<1>4. Final(n)  BY <1>1, <1>2, <1>3, EndedFinal
<1>5. o.client = n.client /\ o.fault = n.fault  BY <1>2 DEF Mem
<1> HIDE DEF o
<1>6. Final(o)  BY <1>4, <1>5, SameFinal
<1>7. QED  BY <1>6 DEF o, n

LEMMA DisconReached ==
    ASSUME IInv, NEW c \in Conn, Discon(c)
    PROVE  Reached
<1> DEFINE gone == CASE reverse[c] = "own" -> deleteClientCon(mem, c)
                     [] reverse[c] = "dummy" -> [mem EXCEPT !.dummy = NULL]
                     [] reverse[c] = "NULL" -> mem
           n == [gone EXCEPT !.reverse[c] = "NULL"]
           t == [tcp EXCEPT ![c] = "NONE"]
           f == [inflight EXCEPT ![c] = FALSE]
<1>1. /\ mem \in Mem /\ Sound(mem, tcp) /\ mem.client = client /\ mem.reverse = reverse
      /\ reverse \in [Conn -> {"own", "dummy", "NULL"}]
  BY Before
<1>2. Become(n, t, f, NULL)  BY DEF Discon
<1>3. CASE reverse[c] = "own"
  <2>1. client[c].connState # "FREED"  BY <1>1, <1>3 DEF Sound, Pointers
  <2>2. n = [deleteClientCon(mem, c) EXCEPT !.reverse[c] = "NULL"]  BY <1>3
  <2> HIDE DEF n
  <2>3. Final(n)  BY <2>1, <2>2, DeletedFinal
  <2>4. QED  BY <1>2, <2>3, BecomeFinal
<1>4. CASE reverse[c] # "own"
  <2>1. gone = mem \/ gone = [mem EXCEPT !.dummy = NULL]  BY <1>1, <1>4
  <2> HIDE DEF gone
  <2>2. n.client = client  BY <1>1, <2>1 DEF Mem
  <2> HIDE DEF n
  <2>3. QED  BY <1>2, <2>2, SameQuiet, QuietReached
<1>5. QED  BY <1>3, <1>4

LEMMA TimerReached ==
    ASSUME IInv, NEW c \in Conn, Timer(c)
    PROVE  Reached
<1> DEFINE s == IF client[c].sendTimeout > 0 THEN client[c].sendTimeout - 1 ELSE 0
           r == [client[c] EXCEPT !.sendTimeout = s]
           ticked == [mem EXCEPT !.client[c].sendTimeout = IF @ > 0 THEN @ - 1 ELSE 0]
<1>1. /\ mem \in Mem /\ Sound(mem, tcp) /\ mem.client = client /\ mem.topics = topic_list
      /\ client \in [Conn -> ClientCon]
      /\ client[c].connState # "FREED" => tcp[c] # "NONE"
  BY Before
<1>2. client[c].connState # "FREED"  BY DEF Timer, Initialised
<1>3. /\ r \in ClientCon /\ r.connState = client[c].connState /\ r.will = client[c].will
      /\ r.client_id = client[c].client_id
  <2>1. client[c] \in ClientCon  BY <1>1
  <2>2. s \in Nat
    <3>1. client[c].sendTimeout \in Nat  BY <2>1 DEF ClientCon
    <3>2. QED  BY <3>1
  <2> HIDE DEF s
  <2>3. QED  BY <2>1, <2>2 DEF ClientCon
<1>4. ticked = [mem EXCEPT !.client[c] = r]  BY <1>1
<1>5. CASE client[c].connectionTimeout > 0
  <2> DEFINE n == [ticked EXCEPT !.client[c].connectionTimeout = @ - 1]
  <2>1. Become(n, tcp, inflight, NULL)  BY <1>5 DEF Timer
  <2>2. ticked.client = [client EXCEPT ![c] = r]
    <3> HIDE DEF r, ticked
    <3>1. QED  BY <1>1, <1>4 DEF Mem
  <2>3. ticked \in Mem
    <3> HIDE DEF r, ticked
    <3>1. QED  BY <1>1, <1>3, <1>4 DEF Mem
  <2> DEFINE k == r.connectionTimeout - 1
             r2 == [r EXCEPT !.connectionTimeout = k]
  <2>4. r2.connState = client[c].connState
    <3> HIDE DEF r, k
    <3>1. QED  BY <1>3 DEF ClientCon
  <2> HIDE DEF r, ticked
  <2>5. n.client = [ticked.client EXCEPT ![c] = r2]  BY <1>1, <2>2, <2>3 DEF Mem
  <2> HIDE DEF n, r2
  <2>6. \A x \in Conn : n.client[x].connState = client[x].connState
    BY <1>1, <2>2, <2>4, <2>5
  <2>7. QED  BY <2>1, <2>6, SameQuiet, QuietReached
<1>6. CASE ~(client[c].connectionTimeout > 0)
  <2>1. DropClient(ticked, c)  BY <1>6 DEF Timer, DropClient
  <2> HIDE DEF s, r, ticked
  <2>2. ticked \in Mem /\ Sound(ticked, tcp)
    <3>1. Unnamed(client[c])  BY <1>1 DEF Sound
    <3>2. Unnamed(r)  BY <1>3, <3>1 DEF Unnamed
    <3>3. Begun(r) <=> Begun(mem.client[c])  BY <1>1, <1>3 DEF Begun
    <3>4. QED  BY <1>1, <1>3, <1>4, <3>2, <3>3, RecordChange
  <2>3. Near(ticked, c)  BY <1>1, <1>3, <1>4 DEF Near, Mem
  <2>4. QED  BY <1>2, <2>1, <2>2, <2>3, DropReached
<1>7. QED  BY <1>5, <1>6


LEMMA TaskReached ==
    ASSUME IInv, ServerTask
    PROVE  Reached
<1>1. /\ Taken \in Mem /\ Sound(Taken, tcp) /\ Taken.client = client
      /\ mem \in Mem /\ mem.client = client /\ client \in [Conn -> ClientCon]
      /\ \A x \in Conn : client[x].connState # "FREED" => tcp[x] # "NONE"
  BY TakenSound, Before
<1>2. ASSUME NEW n, \A x \in Conn : n.client[x].connState = client[x].connState,
             \E t, f : Become(n, t, f, NULL)
      PROVE  Reached
  BY <1>2, SameQuiet, QuietReached
<1>3. CASE TaskDisconnect
  <2>1. \E t, f : Become(Taken, t, f, NULL)  BY <1>3 DEF TaskDisconnect
  <2>2. QED  BY <1>1, <1>2, <2>1
<1>4. ASSUME NEW c \in Conn, TaskSend(c) PROVE Reached
  <2> DEFINE q == Tail(Readable(client[c].msgQueue))
             n == [Taken EXCEPT !.client[c].msgQueue = q, !.client[c].sendTimeout = SendTicks]
  <2>1. Become(n, tcp, Sending(c), NULL)  BY <1>4 DEF TaskSend
  <2> HIDE DEF q
  <2>2. client[c] \in ClientCon  BY <1>1
  <2> DEFINE r1 == [client[c] EXCEPT !.msgQueue = q]
             r == [r1 EXCEPT !.sendTimeout = SendTicks]
  <2>3. r.connState = client[c].connState  BY <2>2 DEF ClientCon
  <2>4. n.client = [[client EXCEPT ![c] = r1] EXCEPT ![c] = r]
    BY <1>1, <2>2 DEF Mem
  <2> HIDE DEF n, r, r1
  <2>5. \A x \in Conn : n.client[x].connState = client[x].connState  BY <1>1, <2>3, <2>4
  <2>6. QED  BY <1>2, <2>1, <2>5
<1>5. ASSUME NEW c \in Conn, TaskNothingToSend(c) PROVE Reached
  <2> DEFINE waiting == client[c].sendTimeout > 0
             q == IF waiting THEN client[c].msgQueue ELSE <<>>
             r == [client[c] EXCEPT !.msgQueue = q]
             read == [Taken EXCEPT !.client[c].msgQueue = IF waiting THEN @ ELSE <<>>]
             left == IF client[c].connState = "TCP_DISCONNECTING"
                     THEN disconnectClientCon(read, c) ELSE read
  <2>1. Become(left, tcp, inflight, NULL)  BY <1>5 DEF TaskNothingToSend
  <2>2. client[c] \in ClientCon  BY <1>1
  <2>3. /\ r \in ClientCon /\ r.connState = client[c].connState
        /\ r.client_id = client[c].client_id
    <3>1. q \in Seq(Message)
      <4>1. client[c].msgQueue \in Seq(Message)  BY <2>2 DEF ClientCon
      <4>2. QED  BY <4>1
    <3> HIDE DEF q
    <3>2. QED  BY <2>2, <3>1 DEF ClientCon
  <2>4. read = [Taken EXCEPT !.client[c] = r]  BY <1>1
  <2> HIDE DEF r, read
  <2>5. read \in Mem /\ Sound(read, tcp)
    <3>1. Unnamed(client[c])  BY <1>1 DEF Sound
    <3>2. Unnamed(r)  BY <2>3, <3>1 DEF Unnamed
    <3>3. Begun(r) <=> Begun(Taken.client[c])  BY <1>1, <2>3 DEF Begun
    <3>4. QED  BY <1>1, <2>3, <2>4, <3>2, <3>3, RecordChange
  <2>6. \A x \in Conn : read.client[x].connState = client[x].connState
    BY <1>1, <2>3, <2>4 DEF Mem
  <2>7. CASE client[c].connState = "TCP_DISCONNECTING"
    <3>1. tcp[c] # "NONE"  BY <1>1, <2>7
    <3>2. Ended(read, left, c)  BY <2>5, <2>7, <3>1, DisconnectEffect DEF Sound
    <3> HIDE DEF left
    <3>3. client[c].connState # "MQTT_DATA"  BY <2>7
    <3>4. Quiet(left)  BY <2>6, <3>2, <3>3, EndedQuiet
    <3>5. QED  BY <2>1, <3>4, QuietReached
  <2>8. CASE client[c].connState # "TCP_DISCONNECTING"
    <3>1. left = read  BY <2>8
    <3> HIDE DEF left
    <3>2. QED  BY <1>2, <2>1, <2>6, <3>1
  <2>9. QED  BY <2>7, <2>8
<1>6. ASSUME NEW c \in Conn, TaskTooEarly(c) PROVE Reached
  <2>1. Become(Taken, tcp, inflight, NULL)  BY <1>6 DEF TaskTooEarly
  <2>2. QED  BY <1>1, <1>2, <2>1
<1>7. ASSUME NEW c \in Conn, TaskFreed(c) PROVE Reached
  <2>1. ASSUME NEW n, NEW t, NEW f, Become(n, t, f, NULL),
               \/ n = Taken \/ n = [Taken EXCEPT !.fault = TRUE]
               \/ \E d \in Conn : n = [mem EXCEPT !.task = d]
        PROVE  Reached
    <3>1. n.client = client  BY <1>1, <2>1 DEF Mem
    <3>2. QED  BY <2>1, <3>1, SameQuiet, QuietReached
  <2>2. ASSUME NEW p \in Conn, DisconnectFreed(p) PROVE Reached
    <3> DEFINE tied == [Taken EXCEPT !.dummy = p, !.reverse[p] = "dummy"]
    <3>1. tied \in Mem /\ tied.client = client  BY <1>1, <2>2 DEF Mem
    <3>2. client' = system_os_post(tied, dummy_clientcon).client
      BY <2>2 DEF DisconnectFreed, Load
    <3> HIDE DEF tied
    <3>3. client' = client  BY <3>1, <3>2 DEF system_os_post, Mem
    <3>4. QED  BY <3>3 DEF Reached
  <2>3. StalePCon(c) \subseteq Conn  BY DEF StalePCon
  <2>4. QED  BY <1>7, <2>1, <2>2, <2>3 DEF TaskFreed
<1>8. QED  BY <1>3, <1>4, <1>5, <1>6, <1>7 DEF ServerTask

LEMMA SketchReached ==
    ASSUME IInv, Sketch
    PROVE  Reached
<1>1. /\ mem \in Mem /\ Sound(mem, tcp) /\ mem.client = client /\ mem.list = clientcon_list
      /\ clientcon_list \in Seq(Conn)
  BY Before
<1>2. ASSUME NEW n, n.client = client, Become(n, tcp, inflight, NULL) PROVE Reached
  BY <1>2, SameQuiet, QuietReached
<1>3. ASSUME NEW p \in Publications, LocalPublish(p) PROVE Reached
  <2> DEFINE n == Distribute(mem, p)
             o == activate_next_client(n)
  <2>1. p \in [topic : Topic, data : Payload, retain : BOOLEAN]  BY InputsAssumption
  <2>2. n \in Mem /\ SameSessions(mem, n)  BY <1>1, <2>1, DistributeKeeps
  <2>3. Become(o, tcp, inflight, NULL)  BY <1>3 DEF LocalPublish
  <2> HIDE DEF n
  <2>4. o.client = n.client  BY <2>2, ActivateQueues
  <2> HIDE DEF o
  <2>5. \A x \in Conn : o.client[x].connState = client[x].connState
    BY <1>1, <2>2, <2>4 DEF SameSessions
  <2>6. QED  BY <2>3, <2>5, SameQuiet, QuietReached
<1>4. ASSUME NEW f, LocalSubscribe(f) \/ LocalUnsubscribe(f) PROVE Reached
  <2>1. PICK topics : Become([mem EXCEPT !.topics = topics], tcp, inflight, NULL)
    BY <1>4 DEF LocalSubscribe, LocalUnsubscribe
  <2>2. [mem EXCEPT !.topics = topics].client = client  BY <1>1 DEF Mem
  <2>3. QED  BY <1>2, <2>1, <2>2
<1>5. CASE Cleanup
  <2> DEFINE broken == Broken(clientcon_list)
             c == clientcon_list[FirstOf(broken)]
             n == [deleteClientCon(mem, c) EXCEPT !.reverse[c] = "NULL"]
  <2>1. broken # {} /\ \E t, b : Become(n, t, inflight, b)  BY <1>5 DEF Cleanup
  <2>2. Len(clientcon_list) \in Nat /\ broken \in SUBSET (1 .. Len(clientcon_list))
    BY <1>1 DEF Broken
  <2>3. FirstOf(broken) \in DOMAIN clientcon_list
    <3>1. FirstOf(broken) \in broken  BY <2>1, <2>2, FirstOfMember
    <3>2. QED  BY <1>1, <2>2, <3>1
  <2> HIDE DEF broken
  <2>4. c \in Conn /\ client[c].connState # "FREED"
    BY <1>1, <2>3 DEF Sound, Sessions, Begun
  <2> HIDE DEF c
  <2>5. Final(n)  BY <2>4, DeletedFinal
  <2> HIDE DEF n
  <2>6. QED  BY <2>1, <2>5, BecomeFinal
<1>6. QED  BY <1>3, <1>4, <1>5 DEF Sketch

-----------------------------------------------------------------------------
(* The theorems *)

\* One step per action of Next.
LEMMA StepReached ==
    ASSUME SInv, [Next]_vars
    PROVE  Reached \/ \E x \in Conn : Disconnect(x)
<1>1. ASSUME NEW c \in Conn, Receive(c), ~Disconnect(c) PROVE Reached
  BY <1>1, ReceiveUp, UpAndDown, ReceiveReached
<1>2. ASSUME NEW c \in Conn,
             Accept(c) \/ AcceptRefused(c) \/ AcceptNoMemory(c) \/ Break(c)
      PROVE  Reached
  BY <1>2, NetworkUp, UpAndDown, NetworkReached
<1>3. ASSUME NEW c \in Conn, Sent(c) PROVE Reached
  BY <1>3, NetworkUp, UpAndDown, SentReached
<1>4. ASSUME NEW c \in Conn, Discon(c) PROVE Reached
  BY <1>4, NetworkUp, UpAndDown, DisconReached
<1>5. ASSUME NEW c \in Conn, Timer(c) PROVE Reached
  BY <1>5, NetworkUp, UpAndDown, TimerReached
<1>6. CASE ServerTask  BY <1>6, TaskUp, UpAndDown, TaskReached
<1>7. CASE Sketch  BY <1>7, SketchUp, UpAndDown, SketchReached
<1>8. CASE Reset
  <2>1. client' = Started.client  BY <1>8 DEF Reset, Load
  <2>2. \A d \in Conn : client'[d].connState = "FREED"  BY <2>1 DEF Started, Freed
  <2>3. QED  BY <2>2 DEF Reached
<1>9. CASE UNCHANGED vars
  <2>1. client' = client  BY <1>9 DEF vars, memory
  <2>2. QED  BY <2>1 DEF Reached
<1>10. QED  BY <1>1, <1>2, <1>3, <1>4, <1>5, <1>6, <1>7, <1>8, <1>9 DEF Next

\* Whichever callback, timer or task step ends an accepted client other than a
\* DISCONNECT, its will is queued for each other subscriber in that same step if
\* the queue has room (MQTT_server_deleteClientCon).
THEOREM WillsReach == Spec => WillReachesSubscribers
<1> DEFINE Step == \A c, d \in Conn :
                       LET w == client[c].will IN
                       /\ c # d /\ w # NoWill /\ Subscribed(d, w.topic)
                       /\ client[c].connState = "MQTT_DATA" /\ client'[c].connState = "FREED"
                       /\ client'[d].connState = "MQTT_DATA"
                       /\ ~Disconnect(c)
                       => Queued(d, WillMsg(w)) \/ Room(client[d].msgQueue) = 0
<1>1. SInv /\ [Next]_vars => [Step]_vars
  <2> SUFFICES ASSUME SInv, [Next]_vars PROVE Step  OBVIOUS
  <2>1. CASE Reached  BY <2>1 DEF Reached
  <2>2. ASSUME NEW x \in Conn, Disconnect(x) PROVE Step
    <3>1. ASSUME NEW c \in Conn, NEW d \in Conn, ~Disconnect(c),
                 client[c].connState = "MQTT_DATA", client'[c].connState = "FREED",
                 client'[d].connState = "MQTT_DATA"
          PROVE  FALSE
      <4>1. IInv /\ c \in Conn \ {x}
        BY <2>2, <3>1, UpAndDown DEF Disconnect, In, Receives
      <4>2. client'[d].connState = "FREED"  BY <2>2, <3>1, <4>1, DisconnectReached
      <4>3. QED  BY <3>1, <4>2
    <3>2. QED  BY <3>1
  <2>3. QED  BY <2>1, <2>2, StepReached
<1>2. Spec => [][Step]_vars  BY <1>1, Inductive, PTL DEF Spec
<1>3. QED  BY <1>2 DEF WillReachesSubscribers

\* What is left of the subscriptions at the end of a packet.
LEMMA EndTopics ==
    ASSUME NEW m \in Mem, NEW c, NEW isPublish, NEW more, EndOfPacket(m, c, isPublish, more)
    PROVE  topic_list' = m.topics \/ topic_list' = Started.topics
<1> DEFINE alive == [m EXCEPT !.client[c].connectionTimeout = KeepAliveTicks]
<1>1. PICK n : /\ n = alive \/ n = activate_next_client(alive) \/ n = system_os_post(alive, c)
               /\ \E b : Become(n, tcp, inflight, b)
  BY DEF EndOfPacket
<1>2. n.topics = m.topics
  <2>1. alive.topics = m.topics  BY DEF Mem
  <2>2. system_os_post(alive, c).topics = m.topics  BY DEF system_os_post, Mem
  <2>3. activate_next_client(alive).topics = m.topics
    BY DEF activate_next_client, system_os_post, Mem
  <2>4. QED  BY <1>1, <2>1, <2>2, <2>3
<1>3. QED  BY <1>1, <1>2 DEF Become, Load

\* An UNSUBSCRIBE leaves the client no entry for any of its filters, however many
\* it had (MQTT_ClientCon_recv_cb, delete_topic).
THEOREM UnsubscribeCorrect == Spec => UnsubscribeIsComplete
<1> DEFINE Step == \A c \in Conn, F \in SUBSET Filter, more \in More : Unsubscribe(c, F, more) =>
                       \A i \in Slots : topic_list'[i].owner = c => topic_list'[i].filter \notin F
<1>1. ASSUME SInv, NEW c \in Conn, NEW F, NEW more, Unsubscribe(c, F, more), NEW i \in Slots,
             topic_list'[i].owner = c
      PROVE  topic_list'[i].filter \notin F
  <2> DEFINE deleted == [mem EXCEPT !.topics = delete_topics(@, c, F)]
             n == Queue(deleted, c, <<Reply>>)
  <2>1. mem \in Mem /\ Sound(mem, tcp) /\ mem.topics = topic_list
    <3>1. IInv  BY <1>1, UpAndDown DEF Unsubscribe, In, Receives
    <3>2. QED  BY <3>1, Before
  <2>2. EndOfPacket(n, c, FALSE, more)  BY <1>1 DEF Unsubscribe
  <2>3. deleted \in Mem /\ deleted.topics = delete_topics(topic_list, c, F)
    <3>1. deleted \in Mem  BY <2>1, DeleteKeeps
    <3>2. QED  BY <2>1, <3>1 DEF Mem
  <2> HIDE DEF deleted
  <2>4. <<Reply>> \in Seq(Message)  BY ReplyTypes, OneElement
  <2>5. n \in Mem /\ n.topics = deleted.topics  BY <2>3, <2>4, QueueKeeps DEF SameSessions
  <2> HIDE DEF n
  <2>6. topic_list' = n.topics \/ topic_list' = Started.topics  BY <2>2, <2>5, EndTopics
  <2>7. CASE topic_list' = n.topics
    <3>1. topic_list' = delete_topics(topic_list, c, F)  BY <2>3, <2>5, <2>7
    <3>2. c # NULL  BY NamesAssumption
    <3>3. QED  BY <1>1, <3>1, <3>2 DEF delete_topics, FreeEntry
  <2>8. CASE topic_list' = Started.topics
    <3>1. topic_list'[i].owner = NULL  BY <2>8 DEF Started, FreeEntry
    <3>2. QED  BY <1>1, <3>1, NamesAssumption
  <2>9. QED  BY <2>6, <2>7, <2>8
<1>2. SInv /\ [Next]_vars => [Step]_vars  BY <1>1
<1>3. Spec => [][Step]_vars  BY <1>2, Inductive, PTL DEF Spec
<1>4. QED  BY <1>3 DEF UnsubscribeIsComplete

-----------------------------------------------------------------------------
(* What a SUBSCRIBE is answered with *)

\* Whatever a queue has behind another one it holds once more.
LEMMA CopiedBehind ==
    ASSUME NEW q \in Seq(Message), NEW p \in Seq(Message),
           \A i \in 1 .. Len(q) : p[i] = q[i],
           NEW k \in 1 .. Len(p), k > Len(q)
    PROVE  Copied(p, p[k]) > Copied(q, p[k])
<1> DEFINE msg == p[k]
           S == {i \in DOMAIN q : q[i] = msg}
           T == {i \in DOMAIN p : p[i] = msg}
<1>1. /\ IsFiniteSet(S) /\ IsFiniteSet(T)
      /\ Cardinality(S) = Copied(q, msg) /\ Cardinality(T) = Copied(p, msg)
      /\ Copied(q, msg) \in Nat /\ Copied(p, msg) \in Nat
  BY CopiedType DEF Copied
<1>2. S \subseteq T /\ k \in T /\ k \notin S  OBVIOUS
<1> HIDE DEF S, T, msg
<1>3. Cardinality(S) <= Cardinality(T) /\ Cardinality(S) # Cardinality(T)
  BY <1>1, <1>2, FS_Subset
<1>4. Copied(p, msg) > Copied(q, msg)  BY <1>1, <1>3
<1>5. QED  BY <1>4 DEF msg

\* Every element of a set of slots has a place, and is the one that has it.
LEMMA NthRank ==
    ASSUME NEW n \in Nat, NEW S \in SUBSET (1 .. n), NEW i \in S
    PROVE  Rank(S, i) \in 1 .. Cardinality(S) /\ Nth(S, Rank(S, i)) = i
<1>1. \A j \in S : j \in Int  OBVIOUS
<1>2. /\ IsFiniteSet(S) /\ Cardinality(S) \in Nat
      /\ \A j \in Int : IsFiniteSet({l \in S : l <= j}) /\ Rank(S, j) \in Nat
  BY 0 \in Int, SlotSetsFinite
<1>3. \A j, k \in S : j < k => Rank(S, j) < Rank(S, k)
  <2> SUFFICES ASSUME NEW j \in S, NEW k \in S, j < k PROVE Rank(S, j) < Rank(S, k)
    OBVIOUS
  <2> DEFINE A == {l \in S : l <= j}
             B == {l \in S : l <= k}
  <2>1. /\ IsFiniteSet(A) /\ IsFiniteSet(B) /\ Cardinality(A) = Rank(S, j)
        /\ Cardinality(B) = Rank(S, k) /\ Cardinality(A) \in Nat /\ Cardinality(B) \in Nat
    BY <1>1, <1>2 DEF Rank
  <2>2. A \subseteq B /\ k \in B /\ k \notin A
    <3>1. \A l \in S : l <= j => l <= k  BY <1>1
    <3>2. k <= k /\ ~(k <= j)  BY <1>1
    <3>3. QED  BY <3>1, <3>2, Zenon
  <2> HIDE DEF A, B
  <2>3. Cardinality(A) <= Cardinality(B) /\ Cardinality(A) # Cardinality(B)
    BY <2>1, <2>2, FS_Subset
  <2>4. QED  BY <2>1, <2>3
<1>4. \A j \in S : Rank(S, j) = Rank(S, i) => j = i
  <2> SUFFICES ASSUME NEW j \in S, Rank(S, j) = Rank(S, i) PROVE j = i
    OBVIOUS
  <2>1. Rank(S, i) \in Nat /\ i \in Int /\ j \in Int  BY <1>1, <1>2
  <2>2. ~(Rank(S, j) < Rank(S, i)) /\ ~(Rank(S, i) < Rank(S, j))  BY <2>1
  <2>3. ~(j < i) /\ ~(i < j)  BY <1>3, <2>2
  <2>4. QED  BY <2>1, <2>3
<1>5. Rank(S, i) <= Cardinality(S)
  <2>1. {l \in S : l <= i} \subseteq S  OBVIOUS
  <2>2. QED  BY <1>1, <1>2, <2>1, FS_Subset DEF Rank
<1>6. Rank(S, i) # 0
  <2>1. i \in {l \in S : l <= i}  BY <1>1
  <2>2. IsFiniteSet({l \in S : l <= i})  BY <1>1, <1>2
  <2>3. QED  BY <2>1, <2>2, FS_EmptySet DEF Rank
<1>7. Nth(S, Rank(S, i)) = i
  <2>1. PICK k : k = Rank(S, i)  OBVIOUS
  <2>2. Nth(S, k) \in S /\ Rank(S, Nth(S, k)) = k  BY <2>1, Zenon DEF Nth
  <2>3. QED  BY <1>4, <2>1, <2>2, Zenon
<1>8. Rank(S, i) \in Nat  BY <1>1, <1>2
<1>9. Rank(S, i) \in 1 .. Cardinality(S)  BY <1>2, <1>5, <1>6, <1>8
<1>10. QED  BY <1>7, <1>9

\* find_retainedtopic calls back for each entry that matches.
LEMMA RetainedForAll ==
    ASSUME NEW retained \in [RetainedSlots -> RetainedEntry], NEW f
    PROVE  /\ Len(RetainedFor(retained, f)) = Cardinality(RetainedMatching(retained, f))
           /\ \A i \in RetainedMatching(retained, f) :
                 \E k \in 1 .. Len(RetainedFor(retained, f)) :
                    RetainedFor(retained, f)[k] = RetainedMsg(retained[i])
<1> DEFINE S == RetainedMatching(retained, f)
           msgs == [k \in 1 .. Cardinality(S) |-> RetainedMsg(retained[Nth(S, k)])]
<1>1. S \in SUBSET (1 .. MaxRetained)  BY DEF RetainedMatching, RetainedSlots
<1>2. Cardinality(S) \in Nat  BY <1>1, 0 \in Int, BoundsAssumption, SlotSetsFinite
<1>3. RetainedFor(retained, f) = msgs  BY DEF RetainedFor
<1>4. ASSUME NEW i \in S PROVE \E k \in 1 .. Cardinality(S) : msgs[k] = RetainedMsg(retained[i])
  <2>1. Rank(S, i) \in 1 .. Cardinality(S) /\ Nth(S, Rank(S, i)) = i
    BY <1>1, BoundsAssumption, NthRank
  <2>2. QED  BY <2>1
<1> HIDE DEF S
<1>5. Len(msgs) = Cardinality(S)  BY <1>2
<1>6. QED  BY <1>3, <1>4, <1>5 DEF S

\* What is queued at the end of a packet is what its handler has queued.
LEMMA EndQueues ==
    ASSUME NEW m \in Mem, NEW c \in Conn, NEW isPublish, NEW more, ~m.fault,
           EndOfPacket(m, c, isPublish, more)
    PROVE  \A d \in Conn : client'[d].msgQueue = m.client[d].msgQueue
<1> DEFINE r == [m.client[c] EXCEPT !.connectionTimeout = KeepAliveTicks]
           alive == [m EXCEPT !.client[c] = r]
<1>1. m.client[c] \in ClientCon  BY DEF Mem
<1>2. r \in ClientCon /\ r.msgQueue = m.client[c].msgQueue
  BY <1>1, BoundsAssumption DEF ClientCon
<1>3. alive = [m EXCEPT !.client[c].connectionTimeout = KeepAliveTicks]  OBVIOUS
<1> HIDE DEF r
<1>4. /\ alive \in Mem /\ ~alive.fault /\ alive.client[c] = r
      /\ \A x \in Conn \ {c} : alive.client[x] = m.client[x]
  BY <1>2 DEF Mem
<1>5. PICK n : /\ n = alive \/ n = activate_next_client(alive) \/ n = system_os_post(alive, c)
               /\ \E b : Become(n, tcp, inflight, b)
  BY <1>3 DEF EndOfPacket
<1> HIDE DEF alive
<1>6. n.client = alive.client /\ ~n.fault
  BY <1>4, <1>5, ActivateQueues DEF system_os_post, Mem
<1>7. client' = alive.client  BY <1>5, <1>6 DEF Become, Load
<1>8. QED  BY <1>2, <1>4, <1>7

\* A SUBSCRIBE brings the retained messages of its last filter, all of them unless they
\* and the SUBACK would not fit into the queue.
THEOREM RetainedSent == Spec => RetainedForLastFilter
<1> DEFINE Step == \A c \in Conn, fs \in FilterList, more \in More : Subscribe(c, fs, more) =>
                       RetainedQueued(c, fs[Len(fs)]) \/ ShortOfRoom(c)
<1>1. ASSUME SInv, NEW c \in Conn, NEW fs \in FilterList, NEW more, Subscribe(c, fs, more),
             ~ShortOfRoom(c)
      PROVE  RetainedQueued(c, fs[Len(fs)])
  <2> DEFINE added == [mem EXCEPT !.topics = add_topics(@, c, fs)]
             found == RetainedFor(retained_list, fs[Len(fs)])
             msgs == <<Reply>> \o found
             n == Queue(added, c, msgs)
             q == client[c].msgQueue
             S == RetainedMatching(retained_list, fs[Len(fs)])
             full == {i \in RetainedSlots : retained_list[i].topic # NULL}
  <2>1. /\ mem \in Mem /\ Sound(mem, tcp) /\ mem.client = client /\ mem.retained = retained_list
        /\ client \in [Conn -> ClientCon]
    <3>1. IInv  BY <1>1, UpAndDown DEF Subscribe, In, Receives
    <3>2. QED  BY <3>1, Before
  <2>2. EndOfPacket(n, c, FALSE, more) /\ client[c].connState = "MQTT_DATA"
    BY <1>1 DEF Subscribe, In
  <2>3. fs \in Seq(Filter)  BY InputsAssumption
  <2>4. added \in Mem /\ added.client = client /\ ~added.fault
    <3>1. added \in Mem /\ added.client = mem.client
      BY <2>1, <2>2, <2>3, AddKeeps
    <3>2. added.fault = mem.fault  BY <2>1 DEF Mem
    <3>3. QED  BY <2>1, <3>1, <3>2 DEF mem
  <2> HIDE DEF added
  <2>5. retained_list \in [RetainedSlots -> RetainedEntry]  BY <2>1 DEF Mem
  <2>6. /\ found \in Seq(Message) /\ Len(found) = Cardinality(S)
        /\ \A i \in S : \E k \in 1 .. Len(found) : found[k] = RetainedMsg(retained_list[i])
    BY <2>5, RetainedForType, RetainedForAll
  <2>7. Len(found) < Room(q)
    <3>1. S \subseteq full  BY InputsAssumption, NamesAssumption DEF RetainedMatching
    <3>2. full \in SUBSET (1 .. MaxRetained)  BY DEF RetainedSlots
    <3>3. IsFiniteSet(full) /\ Cardinality(full) \in Nat
      BY <3>2, 0 \in Int, BoundsAssumption, SlotSetsFinite
    <3>4. Cardinality(S) \in Nat /\ Cardinality(S) <= Cardinality(full)
      BY <3>1, <3>3, FS_Subset, FS_CardinalityType
    <3>5. ~(Room(q) <= Cardinality(full))  BY <1>1 DEF ShortOfRoom
    <3>6. q \in Seq(Message)  BY <2>1 DEF ClientCon
    <3>7. Room(q) \in Nat  BY <3>6, RoomType
    <3> HIDE DEF S, full, found
    <3>8. QED  BY <2>6, <3>3, <3>4, <3>5, <3>7
  <2>8. msgs \in Seq(Message) /\ Len(msgs) <= Room(q) /\ q \in Seq(Message)
        /\ \A i \in S : \E k \in 1 .. Len(msgs) : msgs[k] = RetainedMsg(retained_list[i])
    <3>1. q \in Seq(Message)  BY <2>1 DEF ClientCon
    <3>2. <<Reply>> \in Seq(Message)  BY ReplyTypes, OneElement
    <3> HIDE DEF found
    <3>3. msgs \in Seq(Message) /\ Len(msgs) = 1 + Len(found) /\ Len(found) \in Nat
          /\ \A k \in 1 .. Len(found) : msgs[k + 1] = found[k] /\ k + 1 \in 1 .. Len(msgs)
      BY <2>6, <3>2
    <3>4. Room(q) \in Nat  BY <3>1, RoomType
    <3>5. ASSUME NEW i \in S
          PROVE  \E k \in 1 .. Len(msgs) : msgs[k] = RetainedMsg(retained_list[i])
      BY <2>6, <3>3
    <3>6. QED  BY <2>7, <3>1, <3>3, <3>4, <3>5
  <2> HIDE DEF msgs
  <2>9. /\ n \in Mem /\ ~n.fault /\ n.client[c].msgQueue = q \o msgs
    <3>1. Puts(q, msgs) = q \o msgs  BY <2>8 DEF Puts
    <3>2. n \in Mem  BY <2>4, <2>8, QueueKeeps
    <3>3. n.fault = added.fault  BY <2>4 DEF Queue, Mem
    <3>4. n.client[c].msgQueue = Puts(q, msgs)
      <4>1. client[c] \in ClientCon  BY <2>1
      <4> DEFINE r == [client[c] EXCEPT !.msgQueue = Puts(@, msgs)]
      <4>2. r.msgQueue = Puts(q, msgs)  BY <4>1 DEF ClientCon
      <4>3. n = [added EXCEPT !.client[c] = r]  BY <2>4 DEF Queue
      <4> HIDE DEF r, n
      <4>4. n.client[c] = r  BY <2>4, <4>3 DEF Mem
      <4>5. QED  BY <4>2, <4>4
    <3>5. QED  BY <2>4, <3>1, <3>2, <3>3, <3>4
  <2> HIDE DEF n, S
  <2>10. client'[c].msgQueue = q \o msgs  BY <2>2, <2>9, EndQueues
  <2>11. ASSUME NEW i \in S PROVE Queued(c, RetainedMsg(retained_list[i]))
    <3>1. PICK k \in 1 .. Len(msgs) : msgs[k] = RetainedMsg(retained_list[i])  BY <2>8
    <3> DEFINE p == q \o msgs
    <3>2. p \in Seq(Message) /\ (\A j \in 1 .. Len(q) : p[j] = q[j])
          /\ Len(q) + k \in 1 .. Len(p) /\ Len(q) + k > Len(q) /\ p[Len(q) + k] = msgs[k]
      BY <2>8
    <3> HIDE DEF p
    <3>3. Copied(p, p[Len(q) + k]) > Copied(q, p[Len(q) + k])  BY <2>8, <3>2, CopiedBehind
    <3>4. QED  BY <2>10, <3>1, <3>2, <3>3 DEF Queued, p
  <2>12. QED  BY <2>11 DEF RetainedQueued, S, RetainedMatching
<1>2. SInv /\ [Next]_vars => [Step]_vars  BY <1>1
<1>3. Spec => [][Step]_vars  BY <1>2, Inductive, PTL DEF Spec
<1>4. QED  BY <1>3 DEF RetainedForLastFilter

-----------------------------------------------------------------------------
(* Whose will a step queues *)

\* Messages that only wills send: what is stored of a will, to the last topic
\* without a body, is told in a queue from every publication.
OwnBodies == \A w \in SentWill, p \in Publications :
                 WillMsg(w) # PublishMsg(p.topic, p.data, FALSE)

\* No will stands more often in the second queue than in the first.
NoNewWill(q, p) == \A w \in SentWill : Copied(p, WillMsg(w)) <= Copied(q, WillMsg(w))

\* Wills have bodies, so what the broker itself says is none of them.
LEMMA WillMsgKind ==
    ASSUME NEW w \in SentWill
    PROVE  /\ WillMsg(w) # TORN /\ WillMsg(w) # Reply
           /\ \A ok : WillMsg(w) # Connack(ok)
           /\ \A e : WillMsg(w) # RetainedMsg(e)
<1>1. WillMsg(w).type = "PUBLISH" /\ WillMsg(w).retain = FALSE  BY DEF WillMsg, PublishMsg
<1>2. TORN.type # "PUBLISH" /\ Reply.type # "PUBLISH"  BY DEF TORN, Reply
<1>3. \A ok : Connack(ok).type # "PUBLISH"  BY DEF Connack
<1>4. \A e : RetainedMsg(e).retain = TRUE  BY DEF RetainedMsg, PublishMsg
<1>5. QED  BY <1>1, <1>2, <1>3, <1>4

LEMMA NoNewWillSame ==
    ASSUME NEW q \in Seq(Message)
    PROVE  NoNewWill(q, q)
<1>1. \A msg : Copied(q, msg) \in Nat  BY CopiedType
<1>2. QED  BY <1>1 DEF NoNewWill

LEMMA CopiedFewer ==
    ASSUME NEW q \in Seq(Message), NEW p \in Seq(Message), NEW msg, NEW k \in Nat,
           \A i \in DOMAIN p : p[i] = msg => i + k \in DOMAIN q /\ q[i + k] = msg
    PROVE  Copied(p, msg) <= Copied(q, msg)
<1> DEFINE S == {i \in DOMAIN p : p[i] = msg}
           T == {i \in DOMAIN q : q[i] = msg}
           f == [i \in S |-> i + k]
<1>1. /\ IsFiniteSet(T) /\ Cardinality(T) = Copied(q, msg) /\ Cardinality(S) = Copied(p, msg)
  BY CopiedType DEF Copied
<1>2. \A i \in S : i \in Int /\ i + k \in T  OBVIOUS
<1> HIDE DEF S, T
<1>3. f \in [S -> T]  BY <1>2
<1>4. \A i, j \in S : f[i] = f[j] => i = j  BY <1>2
<1> HIDE DEF f
<1>5. f \in Injection(S, T)  BY <1>3, <1>4 DEF Injection, IsInjective
<1>6. Cardinality(S) <= Cardinality(T)  BY <1>1, <1>5, FS_Injection
<1>7. QED  BY <1>1, <1>6

\* What is queued is no will.
LEMMA PutsNoWill ==
    ASSUME NEW q \in Seq(Message), NEW ms \in Seq(Message),
           \A w \in SentWill : \A i \in DOMAIN ms : ms[i] # WillMsg(w)
    PROVE  NoNewWill(q, Puts(q, ms))
<1> SUFFICES ASSUME NEW w \in SentWill
             PROVE  Copied(Puts(q, ms), WillMsg(w)) <= Copied(q, WillMsg(w))
  BY DEF NoNewWill
<1> DEFINE p == Puts(q, ms)
           msg == WillMsg(w)
<1>1. p \in Seq(Message)  BY PutsType
<1>2. msg # TORN  BY WillMsgKind
<1>3. \A i \in DOMAIN p : p[i] = msg => i \in DOMAIN q /\ q[i] = msg
  BY <1>2, PutsParts
<1>4. \A i \in DOMAIN p : i + 0 = i  BY <1>1
<1>5. 0 \in Nat  OBVIOUS
<1> HIDE DEF p, msg
<1>6. Copied(p, msg) <= Copied(q, msg)
  <2>1. \A i \in DOMAIN p : p[i] = msg => i + 0 \in DOMAIN q /\ q[i + 0] = msg
    BY <1>3, <1>4
  <2>2. QED  BY <1>1, <1>5, <2>1, CopiedFewer
<1>7. QED  BY <1>6 DEF p, msg

\* What is taken from the head of a queue is no addition to it.
LEMMA TakenNoWill ==
    ASSUME NEW q \in Seq(Message), Readable(q) # <<>>
    PROVE  NoNewWill(q, Tail(Readable(q)))
<1> DEFINE p == Tail(Readable(q))
<1>1. PICK k \in {1, 2} : Len(q) >= k /\ p = SubSeq(q, k + 1, Len(q))
  <2>1. CASE Readable(q) = q
    <3>1. Len(q) >= 1 /\ p = SubSeq(q, 1 + 1, Len(q))  BY <2>1
    <3>2. QED  BY <3>1
  <2>2. CASE Readable(q) # q
    <3>1. q # <<>> /\ Tail(q) # <<>> /\ p = Tail(Tail(q))  BY <2>2 DEF Readable
    <3> HIDE DEF p
    <3>2. Len(q) >= 2 /\ Tail(Tail(q)) = SubSeq(q, 2 + 1, Len(q))  BY <3>1
    <3>3. QED  BY <3>1, <3>2
  <2>3. QED  BY <2>1, <2>2
<1> HIDE DEF p
<1>2. /\ p \in Seq(Message) /\ Len(p) = Len(q) - k /\ Len(q) \in Nat
      /\ \A i \in 1 .. Len(q) - k : p[i] = q[i + k]
  BY <1>1
<1>3. \A i \in DOMAIN p : i + k \in DOMAIN q /\ p[i] = q[i + k]
  <2>1. DOMAIN p = 1 .. Len(q) - k /\ DOMAIN q = 1 .. Len(q)  BY <1>2
  <2>2. \A i \in 1 .. Len(q) - k : i + k \in 1 .. Len(q)  BY <1>1, <1>2
  <2>3. QED  BY <1>2, <2>1, <2>2
<1>4. k \in Nat  BY <1>1
<1>5. \A msg : Copied(p, msg) <= Copied(q, msg)  BY <1>2, <1>3, <1>4, CopiedFewer
<1>6. QED  BY <1>5 DEF NoNewWill, p

LEMMA EmptyNoWill ==
    ASSUME NEW q \in Seq(Message)
    PROVE  NoNewWill(q, <<>>)
<1>1. \A msg : {i \in DOMAIN <<>> : <<>>[i] = msg} = {}  OBVIOUS
<1>2. \A msg : Copied(<<>>, msg) = 0  BY <1>1, FS_EmptySet DEF Copied
<1>3. \A msg : Copied(q, msg) \in Nat  BY CopiedType
<1>4. QED  BY <1>2, <1>3 DEF NoNewWill

\* A publication that find_topic queues is no will.
LEMMA CopiesNoWill ==
    ASSUME NEW q \in Seq(Message), NEW topics, NEW d, NEW msg \in Message,
           \A w \in SentWill : WillMsg(w) # msg
    PROVE  NoNewWill(q, Puts(q, Copies(topics, d, msg)))
<1> DEFINE ms == Copies(topics, d, msg)
<1>1. ms \in Seq(Message)  BY CopiesType
<1>2. \A i \in DOMAIN ms : ms[i] = msg  BY DEF Copies
<1> HIDE DEF ms
<1>3. NoNewWill(q, Puts(q, ms))  BY <1>1, <1>2, PutsNoWill
<1>4. QED  BY <1>3 DEF ms

\* The will of the client that is ended is the only one.
LEMMA WilledOnly ==
    ASSUME NEW topics, NEW d, NEW v \in StoredWill \cup {NoWill}, NEW q \in Seq(Message),
           NEW w \in SentWill, ~SameWill(v, w)
    PROVE  Copied(Willed(topics, d, v, q), WillMsg(w)) <= Copied(q, WillMsg(w))
<1>1. CASE v = NoWill \/ v.data = NULL
  <2>1. Willed(topics, d, v, q) = q  BY <1>1 DEF Willed
  <2>2. Copied(q, WillMsg(w)) \in Nat  BY CopiedType
  <2>3. QED  BY <2>1, <2>2
<1>2. CASE v # NoWill /\ v.data # NULL
  <2> DEFINE ms == Copies(topics, d, WillMsg(v))
             p == Puts(q, ms)
             msg == WillMsg(w)
  <2>1. v.topic \in Topic /\ v.data \in Payload  BY <1>2, WholeBody
  <2>2. WillMsg(v) \in Message  BY <2>1, PublishMsgType DEF WillMsg
  <2>3. ms \in Seq(Message)  BY <2>2, CopiesType
  <2>4. \A i \in DOMAIN ms : ms[i] = WillMsg(v)  BY DEF Copies
  <2>5. WillMsg(w) # WillMsg(v)  BY <1>2 DEF SameWill
  <2>6. msg # TORN  BY WillMsgKind
  <2>7. Willed(topics, d, v, q) = p  BY <1>2 DEF Willed
  <2> HIDE DEF ms
  <2>8. p \in Seq(Message) /\ \A i \in DOMAIN p : p[i] = msg => i \in DOMAIN q /\ q[i] = msg
    BY <2>3, <2>4, <2>5, <2>6, PutsType, PutsParts
  <2> HIDE DEF p, msg
  <2>9. \A i \in DOMAIN p : p[i] = msg => i + 0 \in DOMAIN q /\ q[i + 0] = msg
    <3>1. \A i \in DOMAIN p : i + 0 = i  BY <2>8
    <3>2. QED  BY <2>8, <3>1
  <2>10. Copied(p, msg) <= Copied(q, msg)  BY <2>8, <2>9, 0 \in Nat, CopiedFewer
  <2>11. QED  BY <2>7, <2>10 DEF msg
<1>3. QED  BY <1>1, <1>2

\* A will of which n has more than there was is that of a client n has freed.
Owed(n) ==
    ~n.fault => \A d \in Conn : \A w \in SentWill :
        \/ Copied(n.client[d].msgQueue, WillMsg(w)) <= Copied(client[d].msgQueue, WillMsg(w))
        \/ \E c \in Conn : n.client[c].connState = "FREED" /\ SameWill(client[c].will, w)

\* No will is queued at all.
Silent(n) == \A d \in Conn : NoNewWill(client[d].msgQueue, n.client[d].msgQueue)

LEMMA SilentOwed ==
    ASSUME NEW n, Silent(n)
    PROVE  Owed(n)
BY DEF Silent, Owed, NoNewWill

LEMMA QueueTypes ==
    ASSUME NEW m \in Mem
    PROVE  \A x \in Conn : /\ m.client[x] \in ClientCon /\ m.client[x].msgQueue \in Seq(Message)
                           /\ m.client[x].will \in StoredWill \cup {NoWill}
<1>1. m.client \in [Conn -> ClientCon]  BY DEF Mem
<1>2. QED  BY <1>1 DEF ClientCon

LEMMA SameSilent ==
    ASSUME IInv, NEW n, \A x \in Conn : n.client[x].msgQueue = client[x].msgQueue
    PROVE  Silent(n)
<1>1. \A x \in Conn : client[x].msgQueue \in Seq(Message)
  <2>1. mem \in Mem /\ mem.client = client  BY Before
  <2>2. QED  BY <2>1, QueueTypes
<1>2. QED  BY <1>1, NoNewWillSame DEF Silent

\* A part of a step that queues no will and revives nobody.
LEMMA LaterOwed ==
    ASSUME IInv, NEW m \in Mem, NEW n \in Mem, Owed(m), ~n.fault => ~m.fault,
           \A x \in Conn : m.client[x].connState = "FREED" => n.client[x].connState = "FREED",
           \A x \in Conn : NoNewWill(m.client[x].msgQueue, n.client[x].msgQueue)
    PROVE  Owed(n)
<1> SUFFICES ASSUME ~n.fault, NEW d \in Conn, NEW w \in SentWill,
                    ~ \E c \in Conn : n.client[c].connState = "FREED" /\ SameWill(client[c].will, w)
             PROVE  Copied(n.client[d].msgQueue, WillMsg(w)) <= Copied(client[d].msgQueue, WillMsg(w))
  BY DEF Owed
<1>1. /\ client[d].msgQueue \in Seq(Message) /\ m.client[d].msgQueue \in Seq(Message)
      /\ n.client[d].msgQueue \in Seq(Message)
  <2>1. mem \in Mem /\ mem.client = client  BY Before
  <2>2. QED  BY <2>1, QueueTypes
<1> DEFINE k == Copied(client[d].msgQueue, WillMsg(w))
           l == Copied(m.client[d].msgQueue, WillMsg(w))
           o == Copied(n.client[d].msgQueue, WillMsg(w))
<1>2. k \in Nat /\ l \in Nat /\ o \in Nat  BY <1>1, CopiedType
<1>3. l <= k  BY DEF Owed
<1>4. o <= l  BY DEF NoNewWill
<1> HIDE DEF k, l, o
<1>5. o <= k  BY <1>2, <1>3, <1>4
<1>6. QED  BY <1>5 DEF k, o

LEMMA SameOwed ==
    ASSUME IInv, NEW m \in Mem, NEW n \in Mem, Owed(m), n.fault = m.fault,
           \A x \in Conn : /\ n.client[x].connState = m.client[x].connState
                           /\ n.client[x].msgQueue = m.client[x].msgQueue
    PROVE  Owed(n)
<1>1. \A x \in Conn : NoNewWill(m.client[x].msgQueue, n.client[x].msgQueue)
  BY QueueTypes, NoNewWillSame
<1>2. QED  BY <1>1, LaterOwed

\* The record that is freed has an empty queue.
LEMMA FreedQueue ==
    ASSUME NEW m \in Mem, NEW c \in Conn
    PROVE  /\ deleteClientCon(m, c) \in Mem
           /\ deleteClientCon(m, c).client[c] = Freed
<1> DEFINE unlinked == [m EXCEPT !.list = Unlink(@, c)]
           willed == PublishWill(unlinked, c)
           topics == delete_topics(willed.topics, c, Filter)
           n == [willed EXCEPT !.client[c] = Freed, !.topics = topics]
<1>1. Unlink(m.list, c) \in Seq(Conn)  BY DEF Mem, Unlink, RemoveAt
<1>2. unlinked \in Mem  BY <1>1 DEF Mem
<1> HIDE DEF unlinked
<1>3. willed \in Mem  BY <1>2, WillKeeps
<1>4. topics \in [Slots -> TopicEntry]
  <2>1. willed.topics \in [Slots -> TopicEntry]  BY <1>3 DEF Mem
  <2>2. QED  BY <2>1 DEF delete_topics, TopicEntry
<1>5. Freed \in ClientCon  BY DEF Freed, ClientCon, ConnState
<1>6. deleteClientCon(m, c) = n
  <2>1. deleteClientCon(m, c) =
            [willed EXCEPT !.client[c] = Freed, !.topics = delete_topics(@, c, Filter)]
    BY DEF deleteClientCon, unlinked
  <2> HIDE DEF willed
  <2>2. QED  BY <1>3, <2>1 DEF Mem
<1> HIDE DEF willed, topics
<1>7. n \in Mem /\ n.client[c] = Freed  BY <1>3, <1>4, <1>5 DEF Mem
<1>8. QED  BY <1>6, <1>7

LEMMA DroppedQueue ==
    ASSUME NEW m \in Mem, NEW c \in Conn
    PROVE  disconnectClientCon(m, c).client[c] = Freed
<1> DEFINE handed == [m EXCEPT !.dummy = c, !.reverse[c] = "dummy"]
           o == deleteClientCon(handed, c)
<1>1. handed \in Mem  BY DEF Mem
<1>2. disconnectClientCon(m, c) = system_os_post(o, dummy_clientcon)  BY DEF disconnectClientCon
<1> HIDE DEF handed
<1>3. o \in Mem /\ o.client[c] = Freed  BY <1>1, FreedQueue
<1> HIDE DEF o
<1>4. system_os_post(o, dummy_clientcon).client = o.client  BY <1>3 DEF system_os_post, Mem
<1>5. QED  BY <1>2, <1>3, <1>4

\* The end of a client queues its will and no other.
LEMMA EndedOwed ==
    ASSUME IInv, OwnBodies, NEW m \in Mem, NEW c \in Conn, Near(m, c), NEW n,
           n.client[c] = Freed,
           ~n.fault => \A d \in Conn \ {c} : n.client[d].msgQueue =
                           Willed(m.topics, d, m.client[c].will, m.client[d].msgQueue)
    PROVE  Owed(n)
<1>0. n.client[c].connState = "FREED" /\ n.client[c].msgQueue = <<>>
  <2>1. Freed.connState = "FREED" /\ Freed.msgQueue = <<>>  BY DEF Freed
  <2>2. QED  BY <2>1
<1> SUFFICES ASSUME ~n.fault, NEW d \in Conn, NEW w \in SentWill, ~SameWill(client[c].will, w)
             PROVE  Copied(n.client[d].msgQueue, WillMsg(w)) <= Copied(client[d].msgQueue, WillMsg(w))
  BY <1>0 DEF Owed
<1>1. client[d].msgQueue \in Seq(Message) /\ m.client[c].will \in StoredWill \cup {NoWill}
  <2>1. mem \in Mem /\ mem.client = client  BY Before
  <2>2. QED  BY <2>1, QueueTypes
<1>2. CASE d = c
  <2>1. n.client[d].msgQueue = <<>>  BY <1>0, <1>2
  <2>2. QED  BY <1>1, <2>1, EmptyNoWill DEF NoNewWill
<1>3. CASE d # c
  <2>1. n.client[d].msgQueue = Willed(m.topics, d, m.client[c].will, client[d].msgQueue)
    BY <1>3 DEF Near
  <2>2. ~SameWill(m.client[c].will, w)  BY DEF Near
  <2>3. QED  BY <1>1, <2>1, <2>2, WilledOnly
<1>4. QED  BY <1>2, <1>3

LEMMA DropOwed ==
    ASSUME IInv, OwnBodies, NEW m \in Mem, NEW c \in Conn, Near(m, c), Sessions(m)
    PROVE  Owed(disconnectClientCon(m, c))
<1> DEFINE n == disconnectClientCon(m, c)
<1>1. n.client[c] = Freed  BY DroppedQueue
<1>2. ~n.fault => \A d \in Conn \ {c} : n.client[d].msgQueue =
                      Willed(m.topics, d, m.client[c].will, m.client[d].msgQueue)
  BY DisconnectQueues
<1> HIDE DEF n
<1>3. Owed(n)  BY <1>1, <1>2, EndedOwed
<1>4. QED  BY <1>3 DEF n

LEMMA NothingQueued ==
    ASSUME NEW d \in Conn, client[d].msgQueue \in Seq(Message), NEW msg,
           client'[d].msgQueue = client[d].msgQueue
    PROVE  ~Queued(d, msg)
<1> DEFINE k == Copied(client[d].msgQueue, msg)
<1>1. k \in Nat /\ Copied(client'[d].msgQueue, msg) = k  BY CopiedType
<1> HIDE DEF k
<1>2. ~(k > k)  BY <1>1
<1>3. QED  BY <1>1, <1>2 DEF Queued, k

LEMMA NothingInEmpty ==
    ASSUME NEW d \in Conn, client[d].msgQueue \in Seq(Message), NEW w \in SentWill,
           client'[d].msgQueue = <<>>
    PROVE  ~Queued(d, WillMsg(w))
<1> DEFINE k == Copied(client[d].msgQueue, WillMsg(w))
           o == Copied(<<>>, WillMsg(w))
<1>1. o <= k  BY EmptyNoWill DEF NoNewWill
<1>2. k \in Nat  BY CopiedType
<1>3. o \in Nat
  <2>1. <<>> \in Seq(Message)  OBVIOUS
  <2>2. QED  BY <2>1, CopiedType
<1>4. Queued(d, WillMsg(w)) <=> o > k  BY DEF Queued
<1> HIDE DEF k, o
<1>5. QED  BY <1>1, <1>2, <1>3, <1>4

\* What is asked of a step.
Borne ==
    \A d \in Conn, w \in SentWill : Queued(d, WillMsg(w)) =>
        \E c \in Conn : client'[c].connState = "FREED" /\ SameWill(client[c].will, w)

LEMMA BecomeOwed ==
    ASSUME IInv, NEW n \in Mem, NEW t, NEW f, NEW b, Owed(n), Become(n, t, f, b)
    PROVE  Borne
<1>0. \A d \in Conn : client[d].msgQueue \in Seq(Message) /\ n.client[d].msgQueue \in Seq(Message)
  <2>1. mem \in Mem /\ mem.client = client  BY Before
  <2>2. QED  BY <2>1, QueueTypes
<1> SUFFICES ASSUME NEW d \in Conn, NEW w \in SentWill, Queued(d, WillMsg(w))
             PROVE  \E c \in Conn : client'[c].connState = "FREED" /\ SameWill(client[c].will, w)
  BY DEF Borne
<1> DEFINE old == Copied(client[d].msgQueue, WillMsg(w))
<1>1. old \in Nat  BY <1>0, CopiedType
<1>2. CASE n.fault
  <2>1. client' = Started.client  BY <1>2 DEF Become, Load
  <2>2. client'[d].msgQueue = <<>>  BY <2>1 DEF Started, Freed
  <2>3. QED  BY <1>0, <2>2, NothingInEmpty
<1>3. CASE ~n.fault
  <2>1. client' = n.client  BY <1>3 DEF Become, Load
  <2> DEFINE new == Copied(n.client[d].msgQueue, WillMsg(w))
  <2>2. new \in Nat  BY <1>0, CopiedType
  <2>3. new > old  BY <2>1 DEF Queued
  <2>4. new <= old \/ \E c \in Conn : n.client[c].connState = "FREED" /\ SameWill(client[c].will, w)
    BY <1>3 DEF Owed
  <2> HIDE DEF new, old
  <2>5. ~(new <= old)  BY <1>1, <2>2, <2>3
  <2>6. QED  BY <2>1, <2>4, <2>5
<1>4. QED  BY <1>2, <1>3

\* A step that ends by disconnecting a client.
LEMMA DropBorne ==
    ASSUME IInv, OwnBodies, NEW m \in Mem, NEW c \in Conn, Near(m, c), Sound(m, tcp),
           client[c].connState # "FREED", DropClient(m, c)
    PROVE  Borne
<1> DEFINE n == disconnectClientCon(m, c)
<1>1. tcp[c] # "NONE"  BY Before
<1>2. Owed(n)  BY DropOwed DEF Sound
<1>3. n \in Mem  BY <1>1, DisconnectEffect DEF Sound
<1>4. Become(n, tcp, inflight, NULL)  BY DEF DropClient
<1> HIDE DEF n
<1>5. QED  BY <1>2, <1>3, <1>4, BecomeOwed

\* The broker's own messages are no wills.
LEMMA QueueNoWill ==
    ASSUME NEW m \in Mem, NEW c \in Conn, NEW ms \in Seq(Message),
           \A w \in SentWill : \A i \in DOMAIN ms : ms[i] # WillMsg(w)
    PROVE  LET n == Queue(m, c, ms)
           IN  /\ n \in Mem /\ n.fault = m.fault
               /\ \A x \in Conn : /\ n.client[x].connState = m.client[x].connState
                                  /\ NoNewWill(m.client[x].msgQueue, n.client[x].msgQueue)
<1> DEFINE q == Puts(m.client[c].msgQueue, ms)
           r == [m.client[c] EXCEPT !.msgQueue = q]
           n == [m EXCEPT !.client[c] = r]
<1>1. /\ \A x \in Conn : m.client[x].msgQueue \in Seq(Message)
      /\ m.client[c] \in ClientCon
  BY QueueTypes
<1>2. NoNewWill(m.client[c].msgQueue, q)  BY <1>1, PutsNoWill
<1>3. Queue(m, c, ms) \in Mem /\ SameSessions(m, Queue(m, c, ms))  BY QueueKeeps
<1>4. Queue(m, c, ms) = n  BY DEF Queue
<1> HIDE DEF q
<1>5. r.msgQueue = q  BY <1>1 DEF ClientCon
<1> HIDE DEF r
<1>6. /\ n.fault = m.fault /\ n.client[c] = r
      /\ \A x \in Conn \ {c} : n.client[x] = m.client[x]
  BY DEF Mem
<1> HIDE DEF n
<1>7. \A x \in Conn : NoNewWill(m.client[x].msgQueue, n.client[x].msgQueue)
  BY <1>1, <1>2, <1>5, <1>6, NoNewWillSame
<1>8. QED  BY <1>3, <1>4, <1>6, <1>7 DEF SameSessions

\* A packet that is not the client's last.
LEMMA EndBorne ==
    ASSUME IInv, NEW m \in Mem, NEW c \in Conn, Owed(m), NEW isPublish, NEW more,
           EndOfPacket(m, c, isPublish, more)
    PROVE  Borne
<1> DEFINE r == [m.client[c] EXCEPT !.connectionTimeout = KeepAliveTicks]
           alive == [m EXCEPT !.client[c] = r]
<1>1. m.client[c] \in ClientCon  BY DEF Mem
<1>2. /\ r \in ClientCon /\ r.connState = m.client[c].connState
      /\ r.msgQueue = m.client[c].msgQueue
  BY <1>1, BoundsAssumption DEF ClientCon
<1>3. alive = [m EXCEPT !.client[c].connectionTimeout = KeepAliveTicks]  OBVIOUS
<1> HIDE DEF r
<1>4. /\ alive \in Mem /\ alive.fault = m.fault /\ alive.client[c] = r
      /\ \A x \in Conn \ {c} : alive.client[x] = m.client[x]
  BY <1>2 DEF Mem
<1>5. PICK n, b : /\ n = alive \/ n = activate_next_client(alive) \/ n = system_os_post(alive, c)
                  /\ Become(n, tcp, inflight, b)
  BY <1>3 DEF EndOfPacket
<1> HIDE DEF alive
<1>6. n \in Mem /\ n.client = alive.client /\ n.fault = alive.fault
  <2>1. system_os_post(alive, c) \in Mem /\ activate_next_client(alive) \in Mem
    BY <1>4, PostKeeps, ActivateKeeps
  <2>2. /\ activate_next_client(alive).client = alive.client
        /\ activate_next_client(alive).fault = alive.fault
        /\ system_os_post(alive, c).client = alive.client
        /\ system_os_post(alive, c).fault = alive.fault
    BY <1>4, ActivateQueues DEF system_os_post, Mem
  <2>3. QED  BY <1>4, <1>5, <2>1, <2>2
<1>7. n.fault = m.fault /\ \A x \in Conn : /\ n.client[x].connState = m.client[x].connState
                                           /\ n.client[x].msgQueue = m.client[x].msgQueue
  BY <1>2, <1>4, <1>6
<1>8. Owed(n)  BY <1>6, <1>7, SameOwed
<1>9. QED  BY <1>5, <1>6, <1>8, BecomeOwed

\* The packet is answered, and nobody ended.
LEMMA ReplyBorne ==
    ASSUME IInv, NEW m \in Mem, NEW c \in Conn, Owed(m), NEW ms \in Seq(Message),
           \A w \in SentWill : \A i \in DOMAIN ms : ms[i] # WillMsg(w),
           NEW isPublish, NEW more, EndOfPacket(Queue(m, c, ms), c, isPublish, more)
    PROVE  Borne
<1> DEFINE n == Queue(m, c, ms)
<1>1. /\ n \in Mem /\ n.fault = m.fault
      /\ \A x \in Conn : /\ n.client[x].connState = m.client[x].connState
                         /\ NoNewWill(m.client[x].msgQueue, n.client[x].msgQueue)
  BY QueueNoWill
<1> HIDE DEF n
<1>2. Owed(n)  BY <1>1, LaterOwed
<1>3. QED  BY <1>1, <1>2, EndBorne DEF n

\* The client that is taken over leaves its will.
LEMMA AloneOwed ==
    ASSUME IInv, OwnBodies, NEW id, NEW terminated
    PROVE  Owed(Alone(id, terminated))
<1>1. mem \in Mem /\ Sound(mem, tcp) /\ mem.client = client  BY Before
<1>2. Owed(mem)  BY <1>1, SameSilent, SilentOwed
<1>3. CASE id = "" \/ SameId(mem, id) = {} \/ ~terminated
  <2>1. Alone(id, terminated) = mem  BY <1>3 DEF Alone, delete_client_by_id
  <2>2. QED  BY <1>2, <2>1
<1>4. CASE id # "" /\ ~(SameId(mem, id) = {} \/ ~terminated)
  <2> DEFINE x == CHOOSE y \in SameId(mem, id) : TRUE
  <2>1. Alone(id, terminated) = disconnectClientCon(mem, x)
    BY <1>4 DEF Alone, delete_client_by_id
  <2>2. x \in SameId(mem, id)  BY <1>4
  <2> HIDE DEF x
  <2>3. x \in Conn  BY <2>2 DEF SameId
  <2>4. Near(mem, x)  BY MemNear
  <2>5. QED  BY <1>1, <2>1, <2>3, <2>4, DropOwed DEF Sound
<1>5. QED  BY <1>3, <1>4

\* So it is when the client that asks has its id and will.
LEMMA IdentifiedOwed ==
    ASSUME IInv, OwnBodies, NEW c \in Conn, In(c, "TCP_CONNECTED"), NEW id \in ClientId \cup {""},
           NEW w \in StoredWill \cup {NoWill}, NEW terminated \in BOOLEAN
    PROVE  LET n == Identified(c, id, w, terminated)
           IN  Owed(n) /\ n \in Mem /\ n.client[c].connState = "TCP_CONNECTED"
<1> DEFINE m == Alone(id, terminated)
           r == [m.client[c] EXCEPT !.client_id = id, !.will = w]
           n == [m EXCEPT !.client[c] = r]
<1>1. m \in Mem /\ m.client[c].connState = "TCP_CONNECTED" /\ Owed(m)
  BY AloneEffect, AloneOwed
<1>2. m.client \in [Conn -> ClientCon]  BY <1>1 DEF Mem
<1>3. Identified(c, id, w, terminated) = n
  <2>1. Identified(c, id, w, terminated) =
          [m EXCEPT !.client[c].client_id = id, !.client[c].will = w]
    BY DEF Identified, Alone
  <2> HIDE DEF m
  <2>2. QED  BY <1>1, <1>2, <2>1 DEF Mem
<1> HIDE DEF m
<1>4. /\ r \in ClientCon /\ r.connState = "TCP_CONNECTED"
      /\ r.msgQueue = m.client[c].msgQueue
  BY <1>1, <1>2 DEF ClientCon, ConnState
<1> HIDE DEF r
<1>5. /\ n \in Mem /\ n.fault = m.fault /\ n.client[c] = r
      /\ \A x \in Conn \ {c} : n.client[x] = m.client[x]
  BY <1>1, <1>4 DEF Mem
<1> HIDE DEF n
<1>6. \A x \in Conn : /\ n.client[x].connState = m.client[x].connState
                      /\ n.client[x].msgQueue = m.client[x].msgQueue
  BY <1>1, <1>4, <1>5
<1>7. Owed(n)  BY <1>1, <1>5, <1>6, SameOwed
<1>8. QED  BY <1>3, <1>4, <1>5, <1>7

LEMMA ConnackNoWill ==
    ASSUME NEW ok
    PROVE  \A w \in SentWill : \A i \in DOMAIN <<Connack(ok)>> : <<Connack(ok)>>[i] # WillMsg(w)
<1>1. DOMAIN <<Connack(ok)>> = {1} /\ <<Connack(ok)>>[1] = Connack(ok)  OBVIOUS
<1>2. QED  BY <1>1, WillMsgKind

\* Every CONNECT that is answered once the id has been read.
LEMMA AnswerBorne ==
    ASSUME IInv, OwnBodies, NEW c \in Conn, In(c, "TCP_CONNECTED"), NEW id \in ClientId \cup {""},
           NEW w \in StoredWill \cup {NoWill}, NEW terminated \in BOOLEAN,
           NEW state \in {"MQTT_DATA", "TCP_DISCONNECTING"}, NEW ok \in BOOLEAN, NEW more,
           Answer(Identified(c, id, w, terminated), c, state, ok, more)
    PROVE  Borne
<1> DEFINE m == Identified(c, id, w, terminated)
           r == [m.client[c] EXCEPT !.connState = state]
           n == [m EXCEPT !.client[c] = r]
<1>1. m \in Mem /\ Owed(m) /\ m.client[c].connState = "TCP_CONNECTED"
  BY IdentifiedOwed
<1>2. EndOfPacket(Queue(n, c, <<Connack(ok)>>), c, FALSE, more)  BY DEF Answer
<1> HIDE DEF m
<1>3. m.client[c] \in ClientCon  BY <1>1, QueueTypes
<1>4. r \in ClientCon /\ r.msgQueue = m.client[c].msgQueue  BY <1>3 DEF ClientCon, ConnState
<1> HIDE DEF r
<1>5. /\ n \in Mem /\ n.fault = m.fault /\ n.client[c] = r
      /\ \A x \in Conn \ {c} : n.client[x] = m.client[x]
  BY <1>1, <1>4 DEF Mem
<1> HIDE DEF n
<1>6. \A x \in Conn : /\ m.client[x].connState = "FREED" => n.client[x].connState = "FREED"
                      /\ n.client[x].msgQueue = m.client[x].msgQueue
  BY <1>1, <1>4, <1>5
<1>7. \A x \in Conn : NoNewWill(m.client[x].msgQueue, n.client[x].msgQueue)
  BY <1>5, <1>6, QueueTypes, NoNewWillSame
<1>8. Owed(n)  BY <1>1, <1>5, <1>6, <1>7, LaterOwed
<1>9. <<Connack(ok)>> \in Seq(Message)
  <2>1. Connack(ok) \in Message  BY ReplyTypes, Zenon
  <2>2. QED  BY <2>1, OneElement
<1>10. \A w2 \in SentWill : \A i \in DOMAIN <<Connack(ok)>> : <<Connack(ok)>>[i] # WillMsg(w2)
  BY ConnackNoWill
<1>11. QED  BY <1>2, <1>5, <1>8, <1>9, <1>10, ReplyBorne

\* From m to n client c is ended, and the others get the will v.
EndedWith(m, n, c, v) ==
    /\ Ended(m, n, c) /\ n.client[c] = Freed
    /\ ~n.fault => /\ ~m.fault
                   /\ \A x \in Conn \ {c} : n.client[x].msgQueue =
                          Willed(m.topics, x, v, m.client[x].msgQueue)

\* A second will in one step, that of a client c which was never accepted.
LEMMA SecondWill ==
    ASSUME IInv, OwnBodies, NEW m \in Mem, Owed(m), NEW c \in Conn, NEW v \in StoredWill \cup {NoWill},
           NEW n \in Mem, EndedWith(m, n, c, v), Become(n, tcp, inflight, NULL),
           NEW d \in Conn, NEW w \in SentWill, Queued(d, WillMsg(w))
    PROVE  \E x \in Conn : /\ client'[x].connState = "FREED"
                           /\ SameWill(client[x].will, w) \/ (x = c /\ SameWill(v, w))
<1> DEFINE k == Copied(client[d].msgQueue, WillMsg(w))
           l == Copied(m.client[d].msgQueue, WillMsg(w))
           o == Copied(n.client[d].msgQueue, WillMsg(w))
<1>1. /\ client[d].msgQueue \in Seq(Message) /\ m.client[d].msgQueue \in Seq(Message)
      /\ n.client[d].msgQueue \in Seq(Message)
  <2>1. mem \in Mem /\ mem.client = client  BY Before
  <2>2. QED  BY <2>1, QueueTypes
<1>2. k \in Nat /\ l \in Nat /\ o \in Nat  BY <1>1, CopiedType
<1>3. CASE ~n.fault /\ ~SameWill(v, w)
  <2>1. client' = n.client  BY <1>3 DEF Become, Load
  <2>2. o > k  BY <2>1 DEF Queued
  <2>3. o <= l
    <3>1. CASE d = c
      <4>1. Freed.msgQueue = <<>> /\ n.client[c] = Freed  BY DEF Freed, EndedWith
      <4>2. n.client[d].msgQueue = <<>>  BY <3>1, <4>1
      <4>3. QED  BY <1>1, <4>2, EmptyNoWill DEF NoNewWill
    <3>2. CASE d # c
      <4>1. n.client[d].msgQueue = Willed(m.topics, d, v, m.client[d].msgQueue)
        BY <1>3, <3>2 DEF EndedWith
      <4>2. QED  BY <1>1, <1>3, <4>1, WilledOnly
    <3>3. QED  BY <3>1, <3>2
  <2>4. l <= k \/ \E x \in Conn : m.client[x].connState = "FREED" /\ SameWill(client[x].will, w)
    BY <1>3 DEF Owed, EndedWith
  <2>5. \A x \in Conn : m.client[x].connState = "FREED" => n.client[x].connState = "FREED"
    BY DEF Ended, EndedWith
  <2> HIDE DEF k, l, o
  <2>6. ~(l <= k)  BY <1>2, <2>2, <2>3
  <2>7. QED  BY <2>1, <2>4, <2>5, <2>6
<1>4. CASE ~n.fault /\ SameWill(v, w)
  <2>1. client' = n.client  BY <1>4 DEF Become, Load
  <2>2. QED  BY <1>4, <2>1 DEF Ended, EndedWith
<1>5. CASE n.fault
  <2>1. Owed(n)  BY <1>5 DEF Owed
  <2>2. Borne  BY <2>1, BecomeOwed
  <2>3. QED  BY <2>2 DEF Borne
<1>6. QED  BY <1>3, <1>4, <1>5

AnyId == ClientId \cup {""}

\* Two wills in one step: that of the older session, then that of the newcomer.
LEMMA MalformedBorne ==
    ASSUME IInv, OwnBodies, NEW c \in Conn, NEW id \in AnyId,
           NEW v \in StoredWill \cup {NoWill}, ConnectMalformed(c, id, v),
           NEW d \in Conn, NEW w \in SentWill, Queued(d, WillMsg(w))
    PROVE  \E x \in Conn : /\ client'[x].connState = "FREED"
                           /\ SameWill(client[x].will, w) \/ (x = c /\ SameWill(v, w))
<1>1. PICK more \in More : \E t \in Terminated(v, more) : DropClient(Identified(c, id, v, t), c)
  BY DEF ConnectMalformed
<1>2. PICK t \in Terminated(v, more) : DropClient(Identified(c, id, v, t), c)  BY <1>1
<1>3. t \in BOOLEAN  BY TerminatedType
<1>4. In(c, "TCP_CONNECTED") /\ tcp[c] # "NONE"
  <2>1. In(c, "TCP_CONNECTED") /\ client[c].connState = "TCP_CONNECTED"
    BY DEF ConnectMalformed, In
  <2>2. QED  BY <2>1, Before
<1> DEFINE m == Identified(c, id, v, t)
           n == disconnectClientCon(m, c)
<1>5. /\ m \in Mem /\ Sessions(m) /\ Pointers(m, tcp)
      /\ \A x \in Conn \ {c} : Unnamed(m.client[x])
      /\ m.client[c].will = v
  BY ZenonT(60), <1>3, <1>4, IdentifiedFinal DEF AnyId
<1>6. Owed(m)  BY ZenonT(60), <1>3, <1>4, IdentifiedOwed DEF AnyId
<1>7. Become(n, tcp, inflight, NULL)  BY <1>2 DEF DropClient
<1> HIDE DEF m
<1>8. n \in Mem /\ EndedWith(m, n, c, v)
  <2>1. n \in Mem /\ Ended(m, n, c) /\ n.client[c] = Freed
    BY <1>4, <1>5, DisconnectEffect, DroppedQueue
  <2>2. ~n.fault => /\ ~m.fault
                    /\ \A x \in Conn \ {c} : n.client[x].msgQueue =
                           Willed(m.topics, x, v, m.client[x].msgQueue)
    BY <1>5, DisconnectQueues
  <2>3. QED  BY <2>1, <2>2 DEF EndedWith
<1> HIDE DEF n
<1>9. ASSUME NEW m2 \in Mem, NEW n2 \in Mem, Owed(m2), EndedWith(m2, n2, c, v),
             Become(n2, tcp, inflight, NULL)
      PROVE  \E x \in Conn : /\ client'[x].connState = "FREED"
                             /\ SameWill(client[x].will, w) \/ (x = c /\ SameWill(v, w))
  BY <1>9, SecondWill
<1>10. QED  BY <1>5, <1>6, <1>7, <1>8, <1>9

\* A publication queues no will.
LEMMA DistributeOwed ==
    ASSUME IInv, OwnBodies, NEW p \in Publications
    PROVE  Distribute(mem, p) \in Mem /\ Owed(Distribute(mem, p))
<1> DEFINE msg == PublishMsg(p.topic, p.data, FALSE)
           sent == find_topic(mem, msg)
           n == Distribute(mem, p)
<1>1. mem \in Mem /\ mem.client = client  BY Before
<1>2. p \in [topic : Topic, data : Payload, retain : BOOLEAN]  BY InputsAssumption
<1>3. n \in Mem  BY <1>1, <1>2, DistributeKeeps
<1>4. msg \in Message /\ \A w \in SentWill : WillMsg(w) # msg
  BY <1>2, PublishMsgType DEF OwnBodies
<1>5. n = sent \/ n = update_retainedtopic(sent, p.topic, p.data)  BY DEF Distribute
<1> HIDE DEF msg
<1>6. sent \in Mem  BY <1>1, <1>4, FindKeeps
<1>7. \A d \in Conn : sent.client[d].msgQueue = Puts(client[d].msgQueue, Copies(mem.topics, d, msg))
  <2> SUFFICES ASSUME NEW d \in Conn
               PROVE  sent.client[d].msgQueue = Puts(client[d].msgQueue, Copies(mem.topics, d, msg))
    OBVIOUS
  <2>1. sent.client[d] = [mem.client[d] EXCEPT !.msgQueue = Puts(@, Copies(mem.topics, d, msg))]
    BY <1>1 DEF find_topic, Mem
  <2>2. mem.client[d] \in ClientCon  BY <1>1, QueueTypes
  <2>3. QED  BY <1>1, <2>1, <2>2 DEF ClientCon
<1> HIDE DEF sent, n
<1>8. n.client = sent.client  BY <1>5, <1>6, UpdateQueues
<1>9. \A d \in Conn : client[d].msgQueue \in Seq(Message)  BY <1>1, QueueTypes
<1>10. Silent(n)  BY <1>4, <1>7, <1>8, <1>9, CopiesNoWill DEF Silent
<1>11. QED  BY <1>3, <1>10, SilentOwed DEF n

\* What the theorem asks of a step.
Announced ==
    \A d \in Conn, w \in SentWill : Queued(d, WillMsg(w)) =>
        \E c \in Conn :
            /\ client'[c].connState = "FREED"
            /\ \/ SameWill(client[c].will, w)
               \/ \E id \in ClientId \cup {""}, v \in SentWill :
                     SameWill(v, w) /\ ConnectMalformed(c, id, v)

LEMMA BorneAnnounced ==
    ASSUME Borne
    PROVE  Announced
BY DEF Borne, Announced

LEMMA MalformedAnnounced ==
    ASSUME IInv, OwnBodies, NEW c \in Conn, NEW id \in AnyId,
           NEW v \in SentWill \cup {NoWill}, ConnectMalformed(c, id, v)
    PROVE  Announced
<1>1. ASSUME NEW d \in Conn, NEW w \in SentWill, Queued(d, WillMsg(w))
      PROVE  \E x \in Conn : /\ client'[x].connState = "FREED"
                             /\ SameWill(client[x].will, w) \/ (x = c /\ SameWill(v, w))
  BY <1>1, CarriedWills, MalformedBorne
<1>2. ASSUME NEW w, SameWill(v, w) PROVE v \in SentWill  BY <1>2 DEF SameWill
<1>3. QED  BY <1>1, <1>2, Zenon DEF Announced, AnyId

LEMMA ReceiveAnnounced ==
    ASSUME IInv, OwnBodies, NEW c \in Conn, Receive(c), ~Disconnect(c)
    PROVE  Announced
<1> DEFINE id0 == ClientId \cup {""}
<1>0. /\ mem \in Mem /\ Sound(mem, tcp) /\ mem.client = client /\ mem.topics = topic_list
      /\ Near(mem, c) /\ Owed(mem)
  BY Before, MemNear, SameSilent, SilentOwed
<1>1. ASSUME client[c].connState # "FREED", DropClient(mem, c) PROVE Borne
  BY <1>0, <1>1, DropBorne
<1>2. CASE RecvInvalid(c)
  <2>1. client[c].connState # "FREED" /\ DropClient(mem, c)  BY <1>2 DEF RecvInvalid
  <2>2. QED  BY <2>1, <1>1, BorneAnnounced
<1>3. CASE RecvMalformedList(c)
  <2>1. client[c].connState = "MQTT_DATA"  BY <1>3 DEF RecvMalformedList, In
  <2>2. ASSUME NEW topics, NEW m \in Mem, Sound(m, tcp), m.client = client, m.topics = topics,
               \A i \in Slots : topic_list[i].owner \in Conn \ {c} => topics[i] = topic_list[i],
               DropClient(m, c)
        PROVE  Borne
    <3>1. Near(m, c)  BY <2>2 DEF Near
    <3>2. QED  BY <2>1, <2>2, <3>1, DropBorne
  <2>3. ASSUME NEW fs \in FilterList,
               DropClient([mem EXCEPT !.topics = add_topics(@, c, fs)], c)
        PROVE  Borne
    <3> DEFINE topics == add_topics(topic_list, c, fs)
               m == [mem EXCEPT !.topics = add_topics(@, c, fs)]
    <3>1. fs \in Seq(Filter)  BY InputsAssumption
    <3>2. m \in Mem /\ Sound(m, tcp) /\ m.client = client
      BY <1>0, <2>1, <3>1, AddKeeps
    <3>3. m.topics = topics  BY <1>0 DEF Mem
    <3>4. \A i \in Slots : topic_list[i].owner \in Conn \ {c} => topics[i] = topic_list[i]
      BY NamesAssumption DEF add_topics, FreeSlots
    <3> HIDE DEF m, topics
    <3>5. DropClient(m, c)  BY <2>3 DEF m
    <3>6. QED  BY <2>2, <3>2, <3>3, <3>4, <3>5
  <2>4. ASSUME NEW F \in SUBSET Filter,
               DropClient([mem EXCEPT !.topics = delete_topics(@, c, F)], c)
        PROVE  Borne
    <3> DEFINE topics == delete_topics(topic_list, c, F)
               m == [mem EXCEPT !.topics = delete_topics(@, c, F)]
    <3>1. m \in Mem /\ Sound(m, tcp) /\ m.client = client  BY <1>0, DeleteKeeps
    <3>2. m.topics = topics  BY <1>0 DEF Mem
    <3>3. \A i \in Slots : topic_list[i].owner \in Conn \ {c} => topics[i] = topic_list[i]
      BY DEF delete_topics
    <3> HIDE DEF m, topics
    <3>4. DropClient(m, c)  BY <2>4 DEF m
    <3>5. QED  BY <2>2, <3>1, <3>2, <3>3, <3>4
  <2>5. QED  BY <1>3, <2>3, <2>4, BorneAnnounced DEF RecvMalformedList
<1>4. CASE RecvPartial(c)
  <2>1. Load(mem, tcp, inflight, NULL) /\ up' = up
    BY <1>4 DEF RecvPartial, Load, mem, memory, stack
  <2>2. ~mem.fault  BY DEF mem
  <2>3. Become(mem, tcp, inflight, NULL)  BY <2>1, <2>2 DEF Become
  <2>4. QED  BY <1>0, <2>3, BecomeOwed, BorneAnnounced
<1>5. CASE RecvWithoutBuffer(c)
  <2> DEFINE n == [mem EXCEPT !.fault = TRUE]
  <2>1. Become(n, tcp, inflight, busy)
    BY <1>5 DEF RecvWithoutBuffer
  <2>2. n \in Mem /\ n.fault  BY <1>0 DEF Mem
  <2> HIDE DEF n
  <2>3. Owed(n)  BY <2>2 DEF Owed
  <2>4. QED  BY <2>1, <2>2, <2>3, BecomeOwed, BorneAnnounced
<1>6. CASE RecvTooShortWhenRefused(c)
  <2>1. client[c].connState # "FREED" /\ DropClient(mem, c)
    BY <1>6 DEF RecvTooShortWhenRefused, In
  <2>2. QED  BY <2>1, <1>1, BorneAnnounced
<1>7. CASE RecvTooShortByDummy(c)
  <2> DEFINE m == [mem EXCEPT !.reverse[dummy_pCon] = "dummy"]
             n == system_os_post(m, dummy_clientcon)
  <2>1. Become(n, tcp, inflight, NULL)  BY <1>7 DEF RecvTooShortByDummy
  <2>2. m \in Mem /\ m.client = client  BY <1>0 DEF Mem
  <2> HIDE DEF m
  <2>3. n \in Mem /\ n.client = client  BY <2>2, PostKeeps DEF system_os_post, Mem
  <2> HIDE DEF n
  <2>4. Owed(n)  BY <2>3, SameSilent, SilentOwed
  <2>5. QED  BY <2>1, <2>3, <2>4, BecomeOwed, BorneAnnounced
<1>8. ASSUME NEW more, ConnectRefused(c, more) PROVE Announced
  <2> DEFINE r == [mem.client[c] EXCEPT !.connState = "TCP_DISCONNECTING"]
             refused == [mem EXCEPT !.client[c] = r]
             n == Queue(refused, c, <<Connack(FALSE)>>)
  <2>1. mem.client[c] \in ClientCon  BY <1>0 DEF Mem
  <2>2. r \in ClientCon /\ r.msgQueue = mem.client[c].msgQueue
    BY <2>1 DEF ClientCon, ConnState
  <2>3. EndOfPacket(n, c, FALSE, more)  BY <1>8 DEF ConnectRefused
  <2> HIDE DEF r
  <2>4. /\ refused \in Mem /\ refused.client[c] = r
        /\ \A x \in Conn \ {c} : refused.client[x] = client[x]
    BY <1>0, <2>2 DEF Mem
  <2> HIDE DEF refused
  <2>5. Owed(refused)
    <3>1. \A x \in Conn : refused.client[x].msgQueue = client[x].msgQueue
      BY <1>0, <2>2, <2>4
    <3>2. QED  BY <3>1, SameSilent, SilentOwed
  <2>6. Connack(FALSE) \in Message  BY ReplyTypes, Zenon
  <2>7. <<Connack(FALSE)>> \in Seq(Message)  BY <2>6, OneElement
  <2>8. QED  BY <2>3, <2>4, <2>5, <2>7, ConnackNoWill, ReplyBorne, BorneAnnounced
<1>9. ASSUME NEW id \in id0, NEW more, ConnectNotAuthorized(c, id, more) PROVE Announced
  <2>1. PICK t \in Terminated(NoWill, more) :
             Answer(Identified(c, id, NoWill, t), c, "TCP_DISCONNECTING", FALSE, more)
    BY <1>9 DEF ConnectNotAuthorized
  <2>2. In(c, "TCP_CONNECTED")  BY <1>9 DEF ConnectNotAuthorized
  <2>3. t \in BOOLEAN  BY TerminatedType
  <2>4. QED  BY <1>9, <2>1, <2>2, <2>3, AnswerBorne, BorneAnnounced
<1>10. ASSUME NEW id \in id0, NEW w \in StoredWill \cup {NoWill}, NEW more,
              ConnectAccepted(c, id, w, more)
       PROVE  Announced
  <2>1. PICK t \in Terminated(w, more) :
             Answer(Identified(c, id, w, t), c, "MQTT_DATA", TRUE, more)
    BY <1>10 DEF ConnectAccepted
  <2>2. In(c, "TCP_CONNECTED")  BY <1>10 DEF ConnectAccepted
  <2>3. t \in BOOLEAN  BY TerminatedType
  <2>4. QED  BY <1>10, <2>1, <2>2, <2>3, AnswerBorne, BorneAnnounced
<1>11. ASSUME NEW id \in id0, NEW w \in StoredWill \cup {NoWill}, NEW more,
              ConnectNoMemory(c, id, w, more)
       PROVE  Announced
  <2>1. Answer(Identified(c, id, w, TRUE), c, "TCP_DISCONNECTING", FALSE, more)
    BY <1>11 DEF ConnectNoMemory
  <2>2. In(c, "TCP_CONNECTED")  BY <1>11 DEF ConnectNoMemory
  <2>3. QED  BY <1>11, <2>1, <2>2, AnswerBorne, BorneAnnounced
<1>12. ASSUME NEW id \in id0, NEW w \in SentWill \cup {NoWill}, ConnectMalformed(c, id, w)
       PROVE  Announced
  BY <1>12, MalformedAnnounced DEF AnyId
<1>13. ASSUME NEW m \in Mem, m.client = client, NEW ms \in Seq(Message),
              \A w \in SentWill : \A i \in DOMAIN ms : ms[i] # WillMsg(w), NEW more,
              EndOfPacket(Queue(m, c, ms), c, FALSE, more)
       PROVE  Announced
  <2>1. Owed(m)  BY <1>13, SameSilent, SilentOwed
  <2>2. QED  BY <1>13, <2>1, ReplyBorne, BorneAnnounced
<1>14. /\ <<Reply>> \in Seq(Message)
       /\ \A w \in SentWill : \A i \in DOMAIN <<Reply>> : <<Reply>>[i] # WillMsg(w)
  <2>1. DOMAIN <<Reply>> = {1} /\ <<Reply>>[1] = Reply  OBVIOUS
  <2>2. QED  BY <2>1, ReplyTypes, OneElement, WillMsgKind
<1>15. ASSUME NEW fs \in FilterList, NEW more, Subscribe(c, fs, more) PROVE Announced
  <2> DEFINE n == [mem EXCEPT !.topics = add_topics(@, c, fs)]
             found == RetainedFor(retained_list, fs[Len(fs)])
             ms == <<Reply>> \o found
  <2>1. client[c].connState = "MQTT_DATA"  BY <1>15 DEF Subscribe, In
  <2>2. fs \in Seq(Filter)  BY InputsAssumption
  <2>3. n \in Mem /\ n.client = client  BY <1>0, <2>1, <2>2, AddKeeps
  <2>4. retained_list \in [RetainedSlots -> RetainedEntry]  BY DEF IInv, TypeOK
  <2>5. found \in Seq(Message)  BY <2>4, RetainedForType
  <2>6. EndOfPacket(Queue(n, c, ms), c, FALSE, more)
    BY <1>15 DEF Subscribe
  <2>7. \A w \in SentWill : \A i \in DOMAIN found : found[i] # WillMsg(w)
    BY WillMsgKind DEF RetainedFor
  <2> HIDE DEF n, found
  <2>8. ms \in Seq(Message)  BY <1>14, <2>5
  <2>9. \A w \in SentWill : \A i \in DOMAIN ms : ms[i] # WillMsg(w)
    <3>1. /\ DOMAIN ms = 1 .. 1 + Len(found) /\ DOMAIN found = 1 .. Len(found)
          /\ Len(found) \in Nat /\ ms[1] = Reply
          /\ \A i \in 1 .. Len(found) : ms[i + 1] = found[i]
      BY <1>14, <2>5
    <3>2. \A i \in 1 .. 1 + Len(found) : i = 1 \/ (i - 1 \in 1 .. Len(found) /\ (i - 1) + 1 = i)
      BY <3>1
    <3>3. \A i \in DOMAIN ms : ms[i] = Reply \/ \E j \in DOMAIN found : ms[i] = found[j]
      BY <3>1, <3>2
    <3>4. QED  BY <2>7, <3>3, WillMsgKind
  <2> HIDE DEF ms
  <2>10. QED  BY <1>13, <2>3, <2>6, <2>8, <2>9
<1>16. ASSUME NEW F, NEW more, Unsubscribe(c, F, more) PROVE Announced
  <2> DEFINE n == [mem EXCEPT !.topics = delete_topics(@, c, F)]
  <2>1. n \in Mem /\ n.client = client  BY <1>0, DeleteKeeps
  <2>2. EndOfPacket(Queue(n, c, <<Reply>>), c, FALSE, more)  BY <1>16 DEF Unsubscribe
  <2> HIDE DEF n
  <2>3. QED  BY <1>13, <1>14, <2>1, <2>2
<1>17. ASSUME NEW p \in Publications, NEW more, Publish(c, p, more) PROVE Announced
  <2>1. EndOfPacket(Distribute(mem, p), c, TRUE, more)  BY <1>17 DEF Publish
  <2>2. QED  BY <2>1, DistributeOwed, EndBorne, BorneAnnounced
<1>18. ASSUME NEW more, PingReq(c, more) PROVE Announced
  <2>1. EndOfPacket(Queue(mem, c, <<Reply>>), c, FALSE, more)  BY <1>18 DEF PingReq
  <2>2. QED  BY <1>0, <1>13, <1>14, <2>1
<1>19. ASSUME NEW p, NEW more, Ignored(c, p, more) PROVE Announced
  <2>1. EndOfPacket(mem, c, p, more)  BY <1>19 DEF Ignored
  <2>2. QED  BY <1>0, <2>1, EndBorne, BorneAnnounced
<1>20. QED
  BY <1>2, <1>3, <1>4, <1>5, <1>6, <1>7, <1>8, <1>9, <1>10, <1>11, <1>12, <1>15, <1>16,
     <1>17, <1>18, <1>19, CarriedWills DEF Receive

\* A memory with the queues there were.
LEMMA QuietBorne ==
    ASSUME IInv, NEW n \in Mem, \A x \in Conn : NoNewWill(client[x].msgQueue, n.client[x].msgQueue),
           NEW t, NEW f, NEW b, Become(n, t, f, b)
    PROVE  Borne
<1>1. Owed(n)  BY SilentOwed DEF Silent
<1>2. QED  BY <1>1, BecomeOwed

LEMMA SameBorne ==
    ASSUME IInv, NEW n \in Mem, \A x \in Conn : n.client[x].msgQueue = client[x].msgQueue,
           NEW t, NEW f, NEW b, Become(n, t, f, b)
    PROVE  Borne
<1>1. Owed(n)  BY SameSilent, SilentOwed
<1>2. QED  BY <1>1, BecomeOwed

LEMMA NetworkBorne ==
    ASSUME IInv, NEW c \in Conn,
           Accept(c) \/ AcceptRefused(c) \/ AcceptNoMemory(c) \/ Break(c)
    PROVE  Borne
<1>1. /\ mem \in Mem /\ mem.client = client /\ client \in [Conn -> ClientCon]
      /\ mem.list = clientcon_list /\ clientcon_list \in Seq(Conn)
      /\ \A x \in Conn : client[x].msgQueue \in Seq(Message)
  <2>1. mem \in Mem /\ mem.client = client  BY Before
  <2>2. QED  BY <2>1, QueueTypes, Before
<1>2. CASE Accept(c)
  <2> DEFINE r == [Freed EXCEPT !.connState = "TCP_CONNECTED", !.connectionTimeout = ConnectTicks]
             list == <<c>> \o clientcon_list
             n == [mem EXCEPT !.reverse[c] = "own", !.list = list, !.client[c] = r]
  <2>1. Become(n, [tcp EXCEPT ![c] = "CONNECT"], inflight, NULL)  BY <1>1, <1>2 DEF Accept
  <2>2. r \in ClientCon /\ r.msgQueue = <<>>
    <3>1. ConnectTicks \in Nat  BY BoundsAssumption
    <3>2. r \in ClientCon /\ r.msgQueue = Freed.msgQueue
      BY <3>1, FreedType DEF ClientCon, ConnState
    <3>3. Freed.msgQueue = <<>>  BY DEF Freed
    <3>4. QED  BY <3>2, <3>3
  <2> HIDE DEF r
  <2>3. list \in Seq(Conn)  BY <1>1
  <2> HIDE DEF list
  <2>4. n \in Mem /\ n.client = [client EXCEPT ![c] = r]  BY <1>1, <2>2, <2>3 DEF Mem
  <2> HIDE DEF n
  <2>5. \A x \in Conn : NoNewWill(client[x].msgQueue, n.client[x].msgQueue)
    <3> SUFFICES ASSUME NEW x \in Conn PROVE NoNewWill(client[x].msgQueue, n.client[x].msgQueue)
      OBVIOUS
    <3>1. CASE x = c
      <4>1. n.client[x].msgQueue = <<>>  BY <1>1, <2>2, <2>4, <3>1
      <4>2. QED  BY <1>1, <4>1, EmptyNoWill
    <3>2. CASE x # c
      <4>1. n.client[x] = client[x]  BY <1>1, <2>4, <3>2
      <4>2. QED  BY <1>1, <4>1, NoNewWillSame
    <3>3. QED  BY <3>1, <3>2
  <2>6. QED  BY <2>1, <2>4, <2>5, QuietBorne
<1>3. CASE AcceptRefused(c)
  <2> DEFINE r == [client[c] EXCEPT !.connState = "TCP_DISCONNECT"]
             m == [mem EXCEPT !.reverse[c] = "own", !.client[c] = r]
             n == system_os_post(m, c)
  <2>1. Become(n, [tcp EXCEPT ![c] = "CONNECT"], inflight, NULL)  BY <1>1, <1>3 DEF AcceptRefused
  <2>2. r \in ClientCon /\ r.msgQueue = client[c].msgQueue
    <3>1. client[c] \in ClientCon  BY <1>1
    <3>2. QED  BY <3>1 DEF ClientCon, ConnState
  <2> HIDE DEF r
  <2>3. m \in Mem /\ m.client = [client EXCEPT ![c] = r]  BY <1>1, <2>2 DEF Mem
  <2> HIDE DEF m
  <2>4. n \in Mem /\ n.client = m.client  BY <2>3, PostKeeps DEF system_os_post, Mem
  <2> HIDE DEF n
  <2>5. \A x \in Conn : n.client[x].msgQueue = client[x].msgQueue
    BY <1>1, <2>2, <2>3, <2>4
  <2>6. QED  BY <2>1, <2>4, <2>5, SameBorne
<1>4. CASE AcceptNoMemory(c) \/ Break(c)
  <2>1. \E t, f : Become(mem, t, f, NULL)  BY <1>4 DEF AcceptNoMemory, Break
  <2>2. QED  BY <1>1, <2>1, SameBorne
<1>5. QED  BY <1>2, <1>3, <1>4

\* A memory with the record of one client rewritten.
With(m, c, r) == [m EXCEPT !.client[c] = r]

LEMMA WithType ==
    ASSUME NEW m \in Mem, NEW c \in Conn, NEW r \in ClientCon
    PROVE  With(m, c, r) \in Mem /\ With(m, c, r).client = [m.client EXCEPT ![c] = r]
<1> DEFINE f == [m.client EXCEPT ![c] = r]
           n == With(m, c, r)
<1>1. f \in [Conn -> ClientCon]  BY DEF Mem
<1>2. n = [m EXCEPT !.client = f]  BY DEF Mem, With
<1> HIDE DEF f, n
<1>3. n \in Mem /\ n.client = f  BY <1>1, <1>2 DEF Mem
<1>4. QED  BY <1>3 DEF f, n

LEMMA WithTwice ==
    ASSUME NEW m \in Mem, NEW c \in Conn, NEW r, NEW s
    PROVE  With(With(m, c, r), c, s) = With(m, c, s)
BY DEF Mem, With

LEMMA SentBorne ==
    ASSUME IInv, OwnBodies, NEW c \in Conn, Sent(c)
    PROVE  Borne
<1> DEFINE acked == CASE reverse[c] = "own" -> [mem EXCEPT !.client[c].sendTimeout = 0]
                      [] reverse[c] = "dummy" -> mem
                      [] reverse[c] = "NULL" -> [mem EXCEPT !.fault = TRUE]
           left == IF client[c].connState = "TCP_DISCONNECTING"
                   THEN disconnectClientCon(acked, c) ELSE acked
           f == [inflight EXCEPT ![c] = FALSE]
<1>1. /\ mem \in Mem /\ Sound(mem, tcp) /\ mem.client = client /\ mem.reverse = reverse
      /\ mem.topics = topic_list
      /\ client \in [Conn -> ClientCon] /\ reverse \in [Conn -> {"own", "dummy", "NULL"}]
      /\ client[c].connState # "FREED" => reverse[c] = "own" /\ tcp[c] # "NONE"
  BY Before
<1>2. Become(activate_next_client(left), tcp, f, NULL)  BY DEF Sent
<1> DEFINE r == [client[c] EXCEPT !.sendTimeout = 0]
<1>3. /\ r \in ClientCon /\ r.connState = client[c].connState /\ r.will = client[c].will
      /\ r.msgQueue = client[c].msgQueue /\ r.client_id = client[c].client_id
  <2>1. client[c] \in ClientCon  BY <1>1
  <2>2. QED  BY <2>1 DEF ClientCon
<1>4. /\ reverse[c] = "own" => acked = [mem EXCEPT !.client[c] = r]
      /\ reverse[c] = "dummy" => acked = mem
      /\ reverse[c] = "NULL" => acked = [mem EXCEPT !.fault = TRUE]
  BY <1>1
<1> HIDE DEF r, acked
<1>5. acked \in Mem /\ \A x \in Conn : acked.client[x].msgQueue = client[x].msgQueue
  <2>1. CASE reverse[c] = "own"
    <3>1. acked = [mem EXCEPT !.client[c] = r]  BY <1>4, <2>1
    <3>2. acked \in Mem /\ acked.client = [client EXCEPT ![c] = r]
      <4>1. mem \in Mem /\ r \in ClientCon /\ mem.client = client  BY <1>1, <1>3
      <4>2. acked = With(mem, c, r)  BY <3>1 DEF With
      <4>3. QED  BY <4>1, <4>2, WithType
    <3>3. QED  BY <1>1, <1>3, <3>2
  <2>2. CASE reverse[c] = "dummy"  BY <1>1, <1>4, <2>2
  <2>3. CASE reverse[c] = "NULL"  BY <1>1, <1>4, <2>3 DEF Mem
  <2>4. QED  BY <1>1, <2>1, <2>2, <2>3
<1>6. left \in Mem /\ Owed(left)
  <2>1. CASE client[c].connState = "TCP_DISCONNECTING"
    <3>1. acked = [mem EXCEPT !.client[c] = r]  BY <1>1, <1>4, <2>1
    <3>2. Sound(acked, tcp)
      <4>1. Unnamed(client[c])  BY <1>1 DEF Sound
      <4>2. Unnamed(r)  BY <1>3, <4>1 DEF Unnamed
      <4>3. Begun(r) <=> Begun(mem.client[c])  BY <1>1, <1>3 DEF Begun
      <4>4. QED  BY <1>1, <1>3, <3>1, <4>2, <4>3, RecordChange
    <3>3. Near(acked, c)  BY <1>1, <1>3, <3>1 DEF Near, Mem
    <3>4. left = disconnectClientCon(acked, c) /\ tcp[c] # "NONE"  BY <1>1, <2>1
    <3> HIDE DEF left
    <3>5. Owed(left)  BY <1>5, <3>2, <3>3, <3>4, DropOwed DEF Sound
    <3>6. left \in Mem  BY <1>5, <3>2, <3>4, DisconnectEffect DEF Sound
    <3>7. QED  BY <3>5, <3>6
  <2>2. CASE client[c].connState # "TCP_DISCONNECTING"
    BY <1>5, <2>2, SameSilent, SilentOwed
  <2>3. QED  BY <2>1, <2>2
<1> HIDE DEF left
<1> DEFINE n == activate_next_client(left)
<1>7. n \in Mem /\ n.client = left.client /\ n.fault = left.fault
  BY <1>6, ActivateKeeps, ActivateQueues
<1> HIDE DEF n
<1>8. Owed(n)  BY <1>6, <1>7, SameOwed
<1>9. QED  BY <1>2, <1>7, <1>8, BecomeOwed DEF n

\* What deleteClientCon leaves, whatever the connection points to afterwards.
LEMMA DeletedOwed ==
    ASSUME IInv, OwnBodies, NEW c \in Conn
    PROVE  LET n == [deleteClientCon(mem, c) EXCEPT !.reverse[c] = "NULL"]
           IN  n \in Mem /\ Owed(n)
<1> DEFINE n == deleteClientCon(mem, c)
           o == [n EXCEPT !.reverse[c] = "NULL"]
<1>1. mem \in Mem /\ Near(mem, c)  BY Before, MemNear
<1>2. n \in Mem /\ n.client[c] = Freed  BY <1>1, FreedQueue
<1>3. ~n.fault => \A d \in Conn \ {c} : n.client[d].msgQueue =
                      Willed(mem.topics, d, mem.client[c].will, mem.client[d].msgQueue)
  BY <1>1, DeleteQueues
<1> HIDE DEF n
<1>4. Owed(n)  BY <1>1, <1>2, <1>3, EndedOwed
<1>5. o \in Mem /\ o.client = n.client /\ o.fault = n.fault  BY <1>2 DEF Mem
<1> HIDE DEF o
<1>6. Owed(o)  BY <1>2, <1>4, <1>5, SameOwed
<1>7. QED  BY <1>5, <1>6 DEF o, n

LEMMA DisconBorne ==
    ASSUME IInv, OwnBodies, NEW c \in Conn, Discon(c)
    PROVE  Borne
<1> DEFINE gone == CASE reverse[c] = "own" -> deleteClientCon(mem, c)
                     [] reverse[c] = "dummy" -> [mem EXCEPT !.dummy = NULL]
                     [] reverse[c] = "NULL" -> mem
           n == [gone EXCEPT !.reverse[c] = "NULL"]
           t == [tcp EXCEPT ![c] = "NONE"]
           f == [inflight EXCEPT ![c] = FALSE]
<1>1. /\ mem \in Mem /\ mem.client = client /\ mem.reverse = reverse
      /\ reverse \in [Conn -> {"own", "dummy", "NULL"}]
  BY Before
<1>2. Become(n, t, f, NULL)  BY DEF Discon
<1>3. CASE reverse[c] = "own"
  <2>1. n = [deleteClientCon(mem, c) EXCEPT !.reverse[c] = "NULL"]  BY <1>3
  <2> HIDE DEF n
  <2>2. n \in Mem /\ Owed(n)  BY <2>1, DeletedOwed
  <2>3. QED  BY <1>2, <2>2, BecomeOwed
<1>4. CASE reverse[c] # "own"
  <2>1. gone = mem \/ gone = [mem EXCEPT !.dummy = NULL]  BY <1>1, <1>4
  <2> HIDE DEF gone
  <2>2. n \in Mem /\ n.client = client  BY <1>1, <2>1 DEF Mem
  <2> HIDE DEF n
  <2>3. QED  BY <1>2, <2>2, SameBorne
<1>5. QED  BY <1>3, <1>4

LEMMA TimerBorne ==
    ASSUME IInv, OwnBodies, NEW c \in Conn, Timer(c)
    PROVE  Borne
<1> DEFINE s == IF client[c].sendTimeout > 0 THEN client[c].sendTimeout - 1 ELSE 0
           r == [client[c] EXCEPT !.sendTimeout = s]
           ticked == [mem EXCEPT !.client[c].sendTimeout = IF @ > 0 THEN @ - 1 ELSE 0]
<1>1. /\ mem \in Mem /\ Sound(mem, tcp) /\ mem.client = client /\ mem.topics = topic_list
      /\ client \in [Conn -> ClientCon]
      /\ client[c].connState # "FREED" => tcp[c] # "NONE"
  BY Before
<1>2. client[c].connState # "FREED"  BY DEF Timer, Initialised
<1>3. /\ r \in ClientCon /\ r.connState = client[c].connState /\ r.will = client[c].will
      /\ r.client_id = client[c].client_id /\ r.msgQueue = client[c].msgQueue
  <2>1. client[c] \in ClientCon  BY <1>1
  <2>2. s \in Nat
    <3>1. client[c].sendTimeout \in Nat  BY <2>1 DEF ClientCon
    <3>2. QED  BY <3>1
  <2> HIDE DEF s
  <2>3. QED  BY <2>1, <2>2 DEF ClientCon
<1>4. ticked = [mem EXCEPT !.client[c] = r]  BY <1>1
<1>5. CASE client[c].connectionTimeout > 0
  <2> DEFINE k == r.connectionTimeout - 1
             r2 == [r EXCEPT !.connectionTimeout = k]
             n == [ticked EXCEPT !.client[c].connectionTimeout = @ - 1]
  <2>1. Become(n, tcp, inflight, NULL)  BY <1>5 DEF Timer
  <2>2. r2 \in ClientCon /\ r2.msgQueue = client[c].msgQueue
    <3>1. r.connectionTimeout = client[c].connectionTimeout /\ client[c].connectionTimeout \in Nat
      <4>1. client[c] \in ClientCon  BY <1>1
      <4>2. QED  BY <4>1 DEF ClientCon
    <3>2. k \in Nat  BY <1>5, <3>1
    <3> HIDE DEF r, k
    <3>3. QED  BY <1>3, <3>2 DEF ClientCon
  <2>3. n = With(mem, c, r2)
    <3> HIDE DEF r, ticked
    <3>1. ticked \in Mem /\ ticked.client = [client EXCEPT ![c] = r]
      <4>1. mem \in Mem /\ r \in ClientCon /\ mem.client = client  BY <1>1, <1>3
      <4>2. ticked = With(mem, c, r)  BY <1>4 DEF With
      <4>3. QED  BY <4>1, <4>2, WithType
    <3>2. ticked.client[c] = r  BY <1>1, <3>1
    <3>3. n = With(ticked, c, r2)  BY <3>2 DEF With
    <3> HIDE DEF n, r2
    <3>4. ticked = With(mem, c, r) /\ mem \in Mem  BY <1>1, <1>4 DEF With
    <3>5. QED  BY <3>3, <3>4, WithTwice
  <2> HIDE DEF n, r2
  <2>4. n \in Mem /\ n.client = [client EXCEPT ![c] = r2]
    <3>1. mem \in Mem /\ r2 \in ClientCon /\ mem.client = client  BY <1>1, <2>2
    <3>2. QED  BY <2>3, <3>1, WithType
  <2>5. \A x \in Conn : n.client[x].msgQueue = client[x].msgQueue  BY <1>1, <2>2, <2>4
  <2>6. QED  BY <2>1, <2>4, <2>5, SameBorne
<1>6. CASE ~(client[c].connectionTimeout > 0)
  <2>1. DropClient(ticked, c)  BY <1>6 DEF Timer, DropClient
  <2> HIDE DEF s, r, ticked
  <2>2. ticked \in Mem /\ Sound(ticked, tcp)
    <3>1. Unnamed(client[c])  BY <1>1 DEF Sound
    <3>2. Unnamed(r)  BY <1>3, <3>1 DEF Unnamed
    <3>3. Begun(r) <=> Begun(mem.client[c])  BY <1>1, <1>3 DEF Begun
    <3>4. QED  BY <1>1, <1>3, <1>4, <3>2, <3>3, RecordChange
  <2>3. Near(ticked, c)  BY <1>1, <1>3, <1>4 DEF Near, Mem
  <2>4. QED  BY <1>2, <2>1, <2>2, <2>3, DropBorne
<1>7. QED  BY <1>5, <1>6


LEMMA TaskBorne ==
    ASSUME IInv, OwnBodies, ServerTask
    PROVE  Borne
<1>1. /\ Taken \in Mem /\ Sound(Taken, tcp) /\ Taken.client = client
      /\ mem \in Mem /\ mem.client = client /\ client \in [Conn -> ClientCon]
      /\ Taken.topics = topic_list
      /\ \A x \in Conn : client[x].connState # "FREED" => tcp[x] # "NONE"
  <2>1. Taken.topics = mem.topics  BY Before DEF Taken, Mem
  <2>2. QED  BY <2>1, TakenSound, Before
<1>2. \A x \in Conn : client[x] \in ClientCon /\ client[x].msgQueue \in Seq(Message)
  BY <1>1, QueueTypes
<1>3. CASE TaskDisconnect
  <2>1. \E t, f : Become(Taken, t, f, NULL)  BY <1>3 DEF TaskDisconnect
  <2>2. QED  BY <1>1, <2>1, SameBorne
<1>4. ASSUME NEW c \in Conn, TaskSend(c) PROVE Borne
  <2> DEFINE q == Tail(Readable(client[c].msgQueue))
             r == [client[c] EXCEPT !.msgQueue = q, !.sendTimeout = SendTicks]
             n == [Taken EXCEPT !.client[c] = r]
  <2>1. /\ Become([Taken EXCEPT !.client[c].msgQueue = q, !.client[c].sendTimeout = SendTicks],
                  tcp, Sending(c), NULL)
        /\ Readable(client[c].msgQueue) # <<>>
    BY <1>4 DEF TaskSend
  <2>2. q \in Seq(Message) /\ NoNewWill(client[c].msgQueue, q)
    BY <1>2, <2>1, ReadableType, TakenNoWill
  <2> HIDE DEF q
  <2>3. [Taken EXCEPT !.client[c].msgQueue = q, !.client[c].sendTimeout = SendTicks] = n
    BY <1>1, <1>2 DEF Mem
  <2>4. r \in ClientCon /\ r.msgQueue = q  BY <1>2, <2>2, BoundsAssumption DEF ClientCon
  <2> HIDE DEF r
  <2>5. n \in Mem /\ n.client = [client EXCEPT ![c] = r]  BY <1>1, <2>4 DEF Mem
  <2>6. Become(n, tcp, Sending(c), NULL)  BY <2>1, <2>3
  <2> HIDE DEF n
  <2>7. \A x \in Conn : NoNewWill(client[x].msgQueue, n.client[x].msgQueue)
    BY <1>1, <1>2, <2>2, <2>4, <2>5, NoNewWillSame
  <2>8. QED  BY <2>5, <2>6, <2>7, QuietBorne
<1>5. ASSUME NEW c \in Conn, TaskNothingToSend(c) PROVE Borne
  <2> DEFINE waiting == client[c].sendTimeout > 0
             q == IF waiting THEN client[c].msgQueue ELSE <<>>
             r == [client[c] EXCEPT !.msgQueue = q]
             read == [Taken EXCEPT !.client[c].msgQueue = IF waiting THEN @ ELSE <<>>]
             left == IF client[c].connState = "TCP_DISCONNECTING"
                     THEN disconnectClientCon(read, c) ELSE read
  <2>1. Become(left, tcp, inflight, NULL)  BY <1>5 DEF TaskNothingToSend
  <2>2. q \in Seq(Message) /\ NoNewWill(client[c].msgQueue, q)
    <3>1. client[c].msgQueue \in Seq(Message)  BY <1>2
    <3>2. QED  BY <3>1, NoNewWillSame, EmptyNoWill
  <2>3. read = [Taken EXCEPT !.client[c] = r]  BY <1>1
  <2> HIDE DEF q
  <2>4. /\ r \in ClientCon /\ r.connState = client[c].connState /\ r.will = client[c].will
        /\ r.client_id = client[c].client_id /\ r.msgQueue = q
    BY <1>2, <2>2 DEF ClientCon
  <2> HIDE DEF r, read
  <2>5. read \in Mem /\ Sound(read, tcp)
    <3>1. Unnamed(client[c])  BY <1>1 DEF Sound
    <3>2. Unnamed(r)  BY <2>4, <3>1 DEF Unnamed
    <3>3. Begun(r) <=> Begun(Taken.client[c])  BY <1>1, <2>4 DEF Begun
    <3>4. QED  BY <1>1, <2>3, <2>4, <3>2, <3>3, RecordChange
  <2>6. CASE client[c].connState = "TCP_DISCONNECTING"
    <3>1. DropClient(read, c)  BY <2>1, <2>6 DEF DropClient
    <3>2. Near(read, c)  BY <1>1, <2>3, <2>4 DEF Near, Mem
    <3>3. client[c].connState # "FREED"  BY <2>6
    <3>4. QED  BY <2>5, <3>1, <3>2, <3>3, DropBorne
  <2>7. CASE client[c].connState # "TCP_DISCONNECTING"
    <3>1. Become(read, tcp, inflight, NULL)  BY <2>1, <2>7
    <3>2. read.client = [client EXCEPT ![c] = r]  BY <1>1, <2>3 DEF Mem
    <3>3. \A x \in Conn : NoNewWill(client[x].msgQueue, read.client[x].msgQueue)
      BY <1>1, <1>2, <2>2, <2>4, <3>2, NoNewWillSame
    <3>4. QED  BY <2>5, <3>1, <3>3, QuietBorne
  <2>8. QED  BY <2>6, <2>7
<1>6. ASSUME NEW c \in Conn, TaskTooEarly(c) PROVE Borne
  <2>1. Become(Taken, tcp, inflight, NULL)  BY <1>6 DEF TaskTooEarly
  <2>2. QED  BY <1>1, <2>1, SameBorne
<1>7. ASSUME NEW c \in Conn, TaskFreed(c) PROVE Borne
  <2>1. ASSUME NEW n, NEW t, NEW f, Become(n, t, f, NULL),
               \/ n = Taken \/ n = [Taken EXCEPT !.fault = TRUE]
               \/ \E d \in Conn : n = [mem EXCEPT !.task = d]
        PROVE  Borne
    <3>1. n \in Mem /\ n.client = client
      <4>1. CASE n = Taken  BY <1>1, <4>1
      <4>2. CASE n = [Taken EXCEPT !.fault = TRUE]  BY <1>1, <4>2 DEF Mem
      <4>3. CASE \E d \in Conn : n = [mem EXCEPT !.task = d]  BY <1>1, <4>3 DEF Mem
      <4>4. QED  BY <2>1, <4>1, <4>2, <4>3
    <3>2. QED  BY <2>1, <3>1, SameBorne
  <2>2. ASSUME NEW p \in Conn, DisconnectFreed(p) PROVE Borne
    <3> DEFINE tied == [Taken EXCEPT !.dummy = p, !.reverse[p] = "dummy"]
    <3>1. tied \in Mem /\ tied.client = client  BY <1>1, <2>2 DEF Mem
    <3>2. client' = system_os_post(tied, dummy_clientcon).client
      BY <2>2 DEF DisconnectFreed, Load
    <3> HIDE DEF tied
    <3>3. client' = client  BY <3>1, <3>2 DEF system_os_post, Mem
    <3>4. QED  BY <1>2, <3>3, NothingQueued DEF Borne
  <2>3. StalePCon(c) \subseteq Conn  BY DEF StalePCon
  <2>4. QED  BY <1>7, <2>1, <2>2, <2>3 DEF TaskFreed
<1>8. QED  BY <1>3, <1>4, <1>5, <1>6, <1>7 DEF ServerTask

\* A memory without the subscriptions of owner to the filters F.
Without(m, owner, F) == [m EXCEPT !.topics = delete_topics(@, owner, F)]

LEMMA WithoutType ==
    ASSUME NEW m \in Mem, NEW t, Sound(m, t), NEW owner, NEW F
    PROVE  Without(m, owner, F) \in Mem /\ Without(m, owner, F).client = m.client
BY DeleteKeeps, ZenonT(60) DEF Without

LEMMA SketchBorne ==
    ASSUME IInv, OwnBodies, Sketch
    PROVE  Borne
<1>1. /\ mem \in Mem /\ Sound(mem, tcp) /\ mem.client = client /\ mem.list = clientcon_list
      /\ mem.topics = topic_list /\ clientcon_list \in Seq(Conn)
  BY Before
<1>2. ASSUME NEW p \in Publications, LocalPublish(p) PROVE Borne
  <2> DEFINE n == Distribute(mem, p)
             o == activate_next_client(n)
  <2>1. n \in Mem /\ Owed(n)  BY DistributeOwed
  <2>2. Become(o, tcp, inflight, NULL)  BY <1>2 DEF LocalPublish
  <2> HIDE DEF n
  <2>3. o \in Mem /\ o.client = n.client /\ o.fault = n.fault
    BY <2>1, ActivateKeeps, ActivateQueues
  <2> HIDE DEF o
  <2>4. Owed(o)  BY <2>1, <2>3, SameOwed
  <2>5. QED  BY <2>2, <2>3, <2>4, BecomeOwed
<1>3. ASSUME NEW f \in LocalFilters, LocalSubscribe(f) \/ LocalUnsubscribe(f) PROVE Borne
  <2>1. f \in Filter /\ <<f>> \in Seq(Filter)  BY InputsAssumption
  <2>2. LOCAL_MQTT_CLIENT \notin Conn  BY NamesAssumption
  <2>3. PICK n : /\ n = [mem EXCEPT !.topics = add_topics(@, LOCAL_MQTT_CLIENT, <<f>>)]
                    \/ n = [mem EXCEPT !.topics = delete_topics(@, LOCAL_MQTT_CLIENT, {f})]
                 /\ Become(n, tcp, inflight, NULL)
    BY <1>3 DEF LocalSubscribe, LocalUnsubscribe
  <2>4. n \in Mem /\ n.client = client
    <3>1. LET k == [mem EXCEPT !.topics = add_topics(@, LOCAL_MQTT_CLIENT, <<f>>)]
          IN  k \in Mem /\ k.client = client
      BY <1>1, <2>1, <2>2, AddKeeps, ZenonT(60)
    <3>2. LET k == Without(mem, LOCAL_MQTT_CLIENT, {f}) IN k \in Mem /\ k.client = client
      BY <1>1, WithoutType
    <3>3. QED  BY <2>3, <3>1, <3>2 DEF Without
  <2>5. QED  BY <2>3, <2>4, SameBorne
<1>4. CASE Cleanup
  <2> DEFINE broken == Broken(clientcon_list)
             c == clientcon_list[FirstOf(broken)]
             n == [deleteClientCon(mem, c) EXCEPT !.reverse[c] = "NULL"]
  <2>1. broken # {} /\ \E t, b : Become(n, t, inflight, b)  BY <1>4 DEF Cleanup
  <2>2. Len(clientcon_list) \in Nat /\ broken \in SUBSET (1 .. Len(clientcon_list))
    BY <1>1 DEF Broken
  <2>3. FirstOf(broken) \in DOMAIN clientcon_list
    <3>1. FirstOf(broken) \in broken  BY <2>1, <2>2, FirstOfMember
    <3>2. QED  BY <1>1, <2>2, <3>1
  <2> HIDE DEF broken
  <2>4. c \in Conn  BY <1>1, <2>3
  <2> HIDE DEF c
  <2>5. n \in Mem /\ Owed(n)  BY <2>4, DeletedOwed
  <2> HIDE DEF n
  <2>6. QED  BY <2>1, <2>5, BecomeOwed
<1>5. QED  BY <1>2, <1>3, <1>4 DEF Sketch

\* A clean session close queues no will: there is none any more.
LEMMA DisconnectQuiet ==
    ASSUME IInv, NEW c \in Conn, Disconnect(c), NEW d \in Conn, NEW w \in SentWill
    PROVE  ~Queued(d, WillMsg(w))
<1> DEFINE r == [mem.client[c] EXCEPT !.will = NoWill]
           m == [mem EXCEPT !.client[c] = r]
           n == disconnectClientCon(m, c)
<1>1. /\ mem \in Mem /\ Sound(mem, tcp) /\ mem.client = client
      /\ client[c].connState # "FREED" => tcp[c] # "NONE"
  BY Before
<1>2. client[c].connState = "MQTT_DATA" /\ DropClient(m, c)  BY DEF Disconnect, In
<1>3. mem.client[c] \in ClientCon /\ client[d].msgQueue \in Seq(Message)  BY <1>1, QueueTypes
<1>4. r \in ClientCon /\ r.connState = "MQTT_DATA" /\ r.will = NoWill
  BY <1>1, <1>2, <1>3 DEF ClientCon
<1>5. Become(n, tcp, inflight, NULL)  BY <1>2 DEF DropClient
<1> HIDE DEF r
<1>6. /\ m \in Mem /\ Sound(m, tcp) /\ m.client[c].will = NoWill
      /\ \A x \in Conn \ {c} : m.client[x] = client[x]
  <2>1. m \in Mem /\ Sound(m, tcp)
    BY <1>1, <1>2, <1>4, RecordChange DEF Begun, Unnamed
  <2>2. QED  BY <1>1, <1>4, <2>1 DEF Mem
<1> HIDE DEF m
<1>7. n \in Mem /\ n.client[c] = Freed
  BY <1>1, <1>2, <1>6, DisconnectEffect, DroppedQueue DEF Sound
<1>8. ~n.fault => \A x \in Conn \ {c} : n.client[x].msgQueue = client[x].msgQueue
  <2>1. ~n.fault => \A x \in Conn \ {c} :
            n.client[x].msgQueue = Willed(m.topics, x, NoWill, m.client[x].msgQueue)
    BY <1>6, DisconnectQueues DEF Sound
  <2>2. QED  BY <1>6, <2>1 DEF Willed
<1> HIDE DEF n
<1>9. client'[d].msgQueue = <<>> \/ client'[d].msgQueue = client[d].msgQueue
  <2>1. CASE n.fault
    <3>1. client' = Started.client  BY <1>5, <2>1 DEF Become, Load
    <3>2. QED  BY <3>1 DEF Started, Freed
  <2>2. CASE ~n.fault
    <3>1. client' = n.client  BY <1>5, <2>2 DEF Become, Load
    <3>2. Freed.msgQueue = <<>>  BY DEF Freed
    <3>3. QED  BY <1>7, <1>8, <2>2, <3>1, <3>2
  <2>3. QED  BY <2>1, <2>2
<1>10. QED  BY <1>3, <1>9, NothingQueued, NothingInEmpty

\* One step per action of Next.
LEMMA StepAnnounced ==
    ASSUME SInv, OwnBodies, [Next]_vars
    PROVE  Announced \/ \E x \in Conn : Disconnect(x)
<1>1. ASSUME NEW c \in Conn, Receive(c), ~Disconnect(c) PROVE Announced
  BY <1>1, ReceiveUp, UpAndDown, ReceiveAnnounced
<1>2. ASSUME NEW c \in Conn,
             Accept(c) \/ AcceptRefused(c) \/ AcceptNoMemory(c) \/ Break(c)
      PROVE  Announced
  BY <1>2, NetworkUp, UpAndDown, NetworkBorne, BorneAnnounced
<1>3. ASSUME NEW c \in Conn, Sent(c) PROVE Announced
  BY <1>3, NetworkUp, UpAndDown, SentBorne, BorneAnnounced
<1>4. ASSUME NEW c \in Conn, Discon(c) PROVE Announced
  BY <1>4, NetworkUp, UpAndDown, DisconBorne, BorneAnnounced
<1>5. ASSUME NEW c \in Conn, Timer(c) PROVE Announced
  BY <1>5, NetworkUp, UpAndDown, TimerBorne, BorneAnnounced
<1>6. CASE ServerTask  BY <1>6, TaskUp, UpAndDown, TaskBorne, BorneAnnounced
<1>7. CASE Sketch  BY <1>7, SketchUp, UpAndDown, SketchBorne, BorneAnnounced
<1>8. \A d \in Conn : client[d].msgQueue \in Seq(Message)
  <2>1. mem \in Mem /\ mem.client = client  BY MemType DEF SInv, mem
  <2>2. QED  BY <2>1, QueueTypes
<1>9. CASE Reset
  <2>1. client' = Started.client  BY <1>9 DEF Reset, Load
  <2>2. \A d \in Conn : client'[d].msgQueue = <<>>  BY <2>1 DEF Started, Freed
  <2>3. QED  BY <1>8, <2>2, NothingInEmpty DEF Announced
<1>10. CASE UNCHANGED vars
  <2>1. client' = client  BY <1>10 DEF vars, memory
  <2>2. QED  BY <1>8, <2>1, NothingQueued DEF Announced
<1>11. QED
  BY <1>1, <1>2, <1>3, <1>4, <1>5, <1>6, <1>7, <1>9, <1>10 DEF Next

\* What is stored of a will enters a queue only in the step that frees the client
\* which left it, and not by a DISCONNECT (MQTT_server_deleteClientCon), or in that
\* which frees a client whose CONNECT is malformed in its will or behind it
\* (MQTT_ClientCon_recv_cb).  The hypothesis is what it takes to tell a will from
\* what is published; two clients may leave the same one.
THEOREM WillsOfTheDead == OwnBodies => (Spec => WillsOnlyFromTheDead)
<1> SUFFICES ASSUME OwnBodies PROVE Spec => WillsOnlyFromTheDead  OBVIOUS
<1> DEFINE Step == \A d \in Conn, w \in SentWill : Queued(d, WillMsg(w)) =>
                       \E c \in Conn :
                         /\ client'[c].connState = "FREED"
                         /\ \/ SameWill(client[c].will, w) /\ ~Disconnect(c)
                            \/ \E id \in ClientId \cup {""}, v \in SentWill :
                                  SameWill(v, w) /\ ConnectMalformed(c, id, v)
<1>1. SInv /\ [Next]_vars => [Step]_vars
  <2> SUFFICES ASSUME SInv, [Next]_vars PROVE Step  OBVIOUS
  <2>1. ASSUME NEW x \in Conn, Disconnect(x) PROVE Step
    <3>1. IInv  BY <2>1, UpAndDown DEF Disconnect, In, Receives
    <3>2. \A d \in Conn, w \in SentWill : ~Queued(d, WillMsg(w))
      BY <2>1, <3>1, DisconnectQuiet
    <3>3. QED  BY <3>2
  <2>2. CASE ~ \E x \in Conn : Disconnect(x)
    <3>1. Announced  BY <2>2, StepAnnounced
    <3>2. QED  BY <2>2, <3>1, Zenon DEF Announced
  <2>3. QED  BY <2>1, <2>2
<1>2. Spec => [][Step]_vars  BY <1>1, Inductive, PTL DEF Spec
<1>3. QED  BY <1>2 DEF WillsOnlyFromTheDead
=============================================================================
