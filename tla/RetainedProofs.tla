--------------------------- MODULE RetainedProofs ---------------------------
(***************************************************************************)
(* The list of retained topics is the store that RetainedStore promises:   *)
(* for any number of entries, any topics and bodies, whichever allocation  *)
(* fails and wherever the image of the list is cut off.                    *)
(***************************************************************************)
EXTENDS RetainedList, SequenceLemmas

-----------------------------------------------------------------------------
(* The list, its heap, and what update_retainedtopic does to them *)

Value == [data : Data, qos : Qos]
EntryType == [topic : Topic, data : Data \ {<<>>}, qos : Qos]
ListType == [Entries -> {Free} \cup EntryType]
OneEach(l) == \A i, j \in Entries : l[i].topic = l[j].topic => i = j \/ l[i].topic = NULL
Used(l) == {i \in Entries : l[i].topic # NULL}
Unused(l) == {i \in Entries : l[i].topic = NULL}

\* A list with the blocks that belong to it.
MemoryType == {m \in [list : ListType, heap : Nat, ok : BOOLEAN] :
                  OneEach(m.list) /\ m.heap = 2 * Cardinality(Used(m.list))}

\* The records these functions work on, field by field.
Mem(l, h, o) == [list |-> l, heap |-> h, ok |-> o]
Place(t, d, q) == [topic |-> t, data |-> d, qos |-> q]
Named(m, i, t) == [m EXCEPT !.list[i].topic = t, !.heap = @ + 1]
With(l, i, t, d, q) == [l EXCEPT ![i] = Place(t, d, q)]
Without(l, i) == [l EXCEPT ![i] = Free]
Bound(f, t, d, q) == [f EXCEPT ![t] = [data |-> d, qos |-> q]]
Unbound(f, t) == [f EXCEPT ![t] = NULL]
Stored(m, i, d, q, h) == [m EXCEPT !.list[i].data = d, !.list[i].qos = q, !.heap = h]
Failed(m) == [m EXCEPT !.ok = FALSE]

ValueOf(e) == [data |-> e.data, qos |-> e.qos]

\* A place holds nothing, or a topic with data.
LEMMA PlaceType ==
    ASSUME NEW l \in ListType, NEW i \in Entries
    PROVE  \/ l[i] = Free /\ l[i].topic = NULL /\ l[i].data = NULL /\ l[i].qos = 0
           \/ /\ l[i] \in EntryType /\ l[i].topic \in Topic /\ l[i].topic # NULL
              /\ l[i].data \in Data /\ l[i].data # NULL /\ l[i].data # <<>> /\ l[i].qos = 0
              /\ l[i] = [topic |-> l[i].topic, data |-> l[i].data, qos |-> 0]
<1>1. l[i] \in {Free} \cup EntryType
    BY DEF ListType
<1>2. CASE l[i] = Free
    BY <1>2 DEF Free
<1>3. CASE l[i] \in EntryType
    BY <1>3, BytesAssumption DEF EntryType, Qos
<1> QED BY <1>1, <1>2, <1>3

\* The value of a topic that has an entry, and of one that has none.
LEMMA MapOfEntry ==
    ASSUME NEW l \in ListType, OneEach(l), NEW t \in Topic
    PROVE  /\ \A i \in Entries : l[i].topic = t => MapOf(l)[t] = ValueOf(l[i])
           /\ (\A i \in Entries : l[i].topic # t) => MapOf(l)[t] = NULL
<1>1. ASSUME NEW i \in Entries, l[i].topic = t PROVE MapOf(l)[t] = ValueOf(l[i])
    <2>1. \A j \in Entries : l[j].topic = t => j = i
        BY <1>1, BytesAssumption DEF OneEach
    <2>2. (CHOOSE j \in Entries : l[j].topic = t) = i
        BY <1>1, <2>1
    <2> QED BY <1>1, <2>2 DEF MapOf, ValueOf
<1>2. ASSUME \A i \in Entries : l[i].topic # t PROVE MapOf(l)[t] = NULL
    BY <1>2 DEF MapOf
<1> QED BY <1>1, <1>2

LEMMA MapOfType ==
    ASSUME NEW l \in ListType, OneEach(l)
    PROVE  MapOf(l) \in [Topic -> Value \cup {NULL}]
<1>1. MapOf(l) = [t \in Topic |-> MapOf(l)[t]]
    BY DEF MapOf
<1>2. ASSUME NEW t \in Topic PROVE MapOf(l)[t] \in Value \cup {NULL}
    <2>1. CASE \A i \in Entries : l[i].topic # t
        BY <2>1, MapOfEntry
    <2>2. ASSUME NEW i \in Entries, l[i].topic = t PROVE MapOf(l)[t] \in Value \cup {NULL}
        <3>1. MapOf(l)[t] = ValueOf(l[i])
            BY <2>2, MapOfEntry
        <3>2. l[i].data \in Data /\ l[i].qos \in Qos
            BY <2>2, PlaceType, BytesAssumption DEF Qos
        <3> QED BY <3>1, <3>2 DEF ValueOf, Value
    <2> QED BY <2>1, <2>2
<1> QED BY <1>1, <1>2

\* An entry is freed.
LEMMA FreeEntry ==
    ASSUME NEW l \in ListType, OneEach(l), NEW i \in Entries, l[i].topic # NULL
    PROVE  LET k == Without(l, i)
           IN  /\ k \in ListType /\ OneEach(k) /\ Used(k) = Used(l) \ {i}
               /\ MapOf(k) = Unbound(MapOf(l), l[i].topic)
<1> DEFINE k == Without(l, i)
<1>1. k \in ListType /\ k[i].topic = NULL /\ \A j \in Entries : j # i => k[j] = l[j]
    BY DEF ListType, Free, Without
<1> HIDE DEF k
<1>2. OneEach(k)
    BY <1>1 DEF OneEach
<1>3. Used(k) = Used(l) \ {i}
    BY <1>1 DEF Used
<1>4. l[i].topic \in Topic
    BY PlaceType
<1>5. ASSUME NEW t \in Topic
      PROVE  MapOf(k)[t] = IF t = l[i].topic THEN NULL ELSE MapOf(l)[t]
    <2>1. CASE t = l[i].topic
        <3>1. \A j \in Entries : k[j].topic # t
            BY <1>1, <1>4, <2>1, BytesAssumption DEF OneEach
        <3> QED BY <1>1, <1>2, <2>1, <3>1, MapOfEntry
    <2>2. CASE t # l[i].topic /\ \A j \in Entries : l[j].topic # t
        <3>1. \A j \in Entries : k[j].topic # t
            BY <1>1, <2>2, BytesAssumption
        <3> QED BY <1>1, <1>2, <2>2, <3>1, MapOfEntry
    <2>3. ASSUME t # l[i].topic, NEW j \in Entries, l[j].topic = t PROVE MapOf(k)[t] = MapOf(l)[t]
        <3>1. k[j] = l[j]
            BY <1>1, <2>3
        <3> QED BY <1>1, <1>2, <2>3, <3>1, MapOfEntry
    <2> QED BY <2>1, <2>2, <2>3
<1>6. MapOf(k) = Unbound(MapOf(l), l[i].topic)
    <2>1. MapOf(k) \in [Topic -> Value \cup {NULL}] /\ MapOf(l) \in [Topic -> Value \cup {NULL}]
        BY <1>1, <1>2, MapOfType
    <2> QED BY <1>4, <1>5, <2>1 DEF Unbound
<1> QED BY <1>1, <1>2, <1>3, <1>6 DEF k

\* An entry is filled or overwritten.
LEMMA PutEntry ==
    ASSUME NEW l \in ListType, OneEach(l), NEW i \in Entries,
           NEW t \in Topic, NEW d \in Data, d # <<>>, NEW q \in Qos,
           l[i].topic = t \/ (l[i].topic = NULL /\ \A j \in Entries : l[j].topic # t)
    PROVE  LET k == With(l, i, t, d, q)
           IN  /\ k \in ListType /\ OneEach(k) /\ Used(k) = Used(l) \cup {i}
               /\ MapOf(k) = Bound(MapOf(l), t, d, q)
<1> DEFINE e == Place(t, d, q)
           k == [l EXCEPT ![i] = e]
<1>0. e \in EntryType /\ e.topic = t /\ e.data = d /\ e.qos = q
    BY DEF EntryType, Place
<1> HIDE DEF e
<1>1. k \in ListType /\ k[i] = e /\ \A j \in Entries : j # i => k[j] = l[j]
    BY <1>0 DEF ListType
<1> HIDE DEF k
<1>2. \A j \in Entries : j # i => l[j].topic # t
    BY BytesAssumption DEF OneEach
<1>3. OneEach(k)
    BY <1>0, <1>1, <1>2 DEF OneEach
<1>4. Used(k) = Used(l) \cup {i}
    BY <1>0, <1>1, BytesAssumption DEF Used
<1>5. ASSUME NEW u \in Topic
      PROVE  MapOf(k)[u] = IF u = t THEN ValueOf(e) ELSE MapOf(l)[u]
    <2>1. CASE u = t
        BY <1>0, <1>1, <1>3, <2>1, MapOfEntry
    <2>2. CASE u # t /\ \A j \in Entries : l[j].topic # u
        <3>1. \A j \in Entries : k[j].topic # u
            BY <1>0, <1>1, <2>2
        <3> QED BY <1>1, <1>3, <2>2, <3>1, MapOfEntry
    <2>3. ASSUME u # t, NEW j \in Entries, l[j].topic = u PROVE MapOf(k)[u] = MapOf(l)[u]
        <3>1. j # i
            BY <2>3, BytesAssumption
        <3>2. k[j] = l[j]
            BY <1>1, <3>1
        <3> QED BY <1>1, <1>3, <2>3, <3>2, MapOfEntry
    <2> QED BY <2>1, <2>2, <2>3
<1>6. MapOf(k) = [MapOf(l) EXCEPT ![t] = ValueOf(e)]
    <2>1. MapOf(k) \in [Topic -> Value \cup {NULL}] /\ MapOf(l) \in [Topic -> Value \cup {NULL}]
        BY <1>1, <1>3, MapOfType
    <2> QED BY <1>5, <2>1
<1>7. ValueOf(e) = [data |-> d, qos |-> q]
    BY <1>0 DEF ValueOf
<1> QED BY <1>1, <1>3, <1>4, <1>6, <1>7 DEF k, e, With, Bound

LEMMA FirstOfEntries ==
    ASSUME NEW S \in SUBSET Entries, S # {}
    PROVE  FirstOf(S) \in S /\ \A j \in S : FirstOf(S) <= j
<1>1. S \in SUBSET Nat
    BY EntriesAssumption DEF Entries
<1> QED BY <1>1, LeastElement DEF FirstOf

LEMMA ForgetIs ==
    ASSUME NEW m, NEW l, NEW h, NEW o, m = Mem(l, h, o),
           NEW i \in DOMAIN l, NEW t, NEW d, NEW q, l[i] = Place(t, d, q)
    PROVE  Forget(m, i) = Mem([l EXCEPT ![i] = Place(NULL, NULL, q)], h - 1, o)
<1> DEFINE l1 == [l EXCEPT ![i] = Place(NULL, d, q)]
           l2 == [l EXCEPT ![i] = Place(NULL, NULL, q)]
           m1 == [m EXCEPT !.list[i].topic = NULL]
           m2 == [m1 EXCEPT !.list[i].data = NULL]
           m3 == [m2 EXCEPT !.heap = m.heap - 1]
<1>1. Forget(m, i) = m3
    BY DEF Forget
<1>2. m1 = Mem(l1, h, o)
    BY DEF Mem, Place
<1>3. l1[i] = Place(NULL, d, q) /\ DOMAIN l1 = DOMAIN l /\ [l1 EXCEPT ![i] = Place(NULL, NULL, q)] = l2
    OBVIOUS
<1> HIDE DEF m1, l1
<1>4. m2 = Mem([l1 EXCEPT ![i] = Place(NULL, NULL, q)], h, o)
    BY <1>2, <1>3 DEF Mem, Place
<1> HIDE DEF m2
<1>5. m3 = Mem([l1 EXCEPT ![i] = Place(NULL, NULL, q)], h - 1, o)
    BY <1>4 DEF Mem
<1> QED BY <1>1, <1>3, <1>5

LEMMA StoreIs ==
    ASSUME NEW m, NEW l, NEW h, NEW o, m = Mem(l, h, o),
           NEW i \in DOMAIN l, NEW t, NEW d, NEW q, l[i] = Place(t, d, q), NEW dn, NEW qn, NEW hn
    PROVE  Stored(m, i, dn, qn, hn) = Mem(With(l, i, t, dn, qn), hn, o)
<1> DEFINE l1 == [l EXCEPT ![i] = Place(t, dn, q)]
           l2 == [l EXCEPT ![i] = Place(t, dn, qn)]
           m1 == [m EXCEPT !.list[i].data = dn]
           m2 == [m1 EXCEPT !.list[i].qos = qn]
           m3 == [m2 EXCEPT !.heap = hn]
<1>1. Stored(m, i, dn, qn, hn) = m3
    BY DEF Stored
<1>2. m1 = Mem(l1, h, o)
    BY DEF Mem, Place
<1>3. l1[i] = Place(t, dn, q) /\ DOMAIN l1 = DOMAIN l /\ [l1 EXCEPT ![i] = Place(t, dn, qn)] = l2
    OBVIOUS
<1> HIDE DEF m1, l1
<1>4. m2 = Mem([l1 EXCEPT ![i] = Place(t, dn, qn)], h, o)
    BY <1>2, <1>3 DEF Mem, Place
<1> HIDE DEF m2
<1>5. m3 = Mem([l1 EXCEPT ![i] = Place(t, dn, qn)], hn, o)
    BY <1>4 DEF Mem
<1> QED BY <1>1, <1>3, <1>5 DEF With

LEMMA FailedIs ==
    ASSUME NEW l, NEW h, NEW o
    PROVE  Failed(Mem(l, h, o)) = Mem(l, h, FALSE)
<1>1. ASSUME NEW v PROVE [Mem(l, h, o) EXCEPT !.ok = v] = Mem(l, h, v)
    BY DEF Mem
<1> QED BY <1>1, Zenon DEF Failed

\* What the list of a memory holds at i.
LEMMA MemoryIs ==
    ASSUME NEW m \in MemoryType, NEW i \in Entries
    PROVE  /\ m = Mem(m.list, m.heap, m.ok) /\ m.list \in ListType /\ m.heap \in Nat /\ m.ok \in BOOLEAN
           /\ i \in DOMAIN m.list
           /\ m.list[i] = Place(m.list[i].topic, m.list[i].data, 0)
           /\ m.list[i].topic = NULL <=> m.list[i].data = NULL
           /\ Free = Place(NULL, NULL, 0)
           /\ m.list[i].topic = NULL => m.list[i] = Free
<1>1. m = Mem(m.list, m.heap, m.ok) /\ m.list \in ListType /\ m.heap \in Nat /\ m.ok \in BOOLEAN
    BY DEF MemoryType, Mem
<1> QED BY <1>1, PlaceType DEF ListType, Free, Place

\* The entry that update_retainedtopic deletes loses its topic and its data, both of which
\* are freed.
LEMMA DeleteEffect ==
    ASSUME NEW m \in MemoryType, NEW i \in Entries
    PROVE  Delete(m, i) = Mem(Without(m.list, i), m.heap - 2, m.ok)
<1> DEFINE n == [m EXCEPT !.heap = m.heap - 1]
<1>1. n = Mem(m.list, m.heap - 1, m.ok)
    BY MemoryIs DEF Mem
<1>2. Delete(m, i) = Forget(n, i)
    BY DEF Delete
<1> HIDE DEF n
<1>3. Forget(n, i) = Mem([m.list EXCEPT ![i] = Place(NULL, NULL, 0)], m.heap - 1 - 1, m.ok)
    BY <1>1, MemoryIs, ForgetIs
<1>4. m.heap - 1 - 1 = m.heap - 2
    BY MemoryIs
<1> QED BY <1>2, <1>3, <1>4, MemoryIs DEF Without

\* What SetData does to an entry that has data: new data, or, when there is no memory for
\* it, none, and no entry.
LEMMA OverwriteEffect ==
    ASSUME NEW m \in MemoryType, NEW i \in Entries, m.list[i].topic # NULL,
           NEW d \in Data, NEW q \in Qos, NEW fail \in Fails
    PROVE  \/ SetData(m, i, d, q, fail) =
                 Mem(With(m.list, i, m.list[i].topic, d, q), m.heap, m.ok)
           \/ /\ fail = "data"
              /\ SetData(m, i, d, q, fail) = Mem(Without(m.list, i), m.heap - 2, FALSE)
<1> DEFINE old == m.list[i].data
           n == [m EXCEPT !.heap = m.heap - 1]
           f == Forget(n, i)
<1>1. old # NULL
    BY MemoryIs
<1>2. ASSUME NEW h
      PROVE  Stored(m, i, d, q, h) = Mem(With(m.list, i, m.list[i].topic, d, q), h, m.ok)
    BY MemoryIs, StoreIs
<1>3. n = Mem(m.list, m.heap - 1, m.ok)
    BY MemoryIs DEF Mem
<1>4. CASE Len(old) = Len(d)
    <2>1. SetData(m, i, d, q, fail) = Stored(m, i, d, q, m.heap)
        BY <1>1, <1>4 DEF SetData, Stored
    <2> QED BY <1>2, <2>1
<1>5. CASE Len(old) # Len(d) /\ fail # "data"
    <2>1. SetData(m, i, d, q, fail) = Stored(m, i, d, q, m.heap - 1 + 1)
        BY <1>1, <1>5 DEF SetData, Stored
    <2>2. m.heap - 1 + 1 = m.heap
        BY MemoryIs
    <2> QED BY <1>2, <2>1, <2>2
<1>6. CASE Len(old) # Len(d) /\ fail = "data"
    <2>1. SetData(m, i, d, q, fail) = Failed(f)
        BY <1>1, <1>6 DEF SetData, Failed
    <2> HIDE DEF n
    <2>2. f = Mem([m.list EXCEPT ![i] = Place(NULL, NULL, 0)], m.heap - 1 - 1, m.ok)
        BY <1>3, MemoryIs, ForgetIs
    <2> HIDE DEF f
    <2>3. Failed(f) = Mem(Without(m.list, i), m.heap - 2, FALSE)
        <3>1. m.heap - 1 - 1 = m.heap - 2 /\ Place(NULL, NULL, 0) = Free
            BY MemoryIs
        <3> QED BY <2>2, <3>1, FailedIs, Zenon DEF Without
    <2> QED BY <1>6, <2>1, <2>3
<1> QED BY <1>4, <1>5, <1>6

\* The same where the topic has just been written to a free place.
LEMMA FillEffect ==
    ASSUME NEW m \in MemoryType, NEW i \in Entries, m.list[i].topic = NULL, NEW t \in Topic,
           NEW d \in Data, NEW q \in Qos, NEW fail \in Fails
    PROVE  LET n == SetData(Named(m, i, t), i, d, q, fail)
           IN  \/ n = Mem(With(m.list, i, t, d, q), m.heap + 2, m.ok)
               \/ fail = "data" /\ n = Mem(m.list, m.heap, FALSE)
<1> DEFINE l1 == [m.list EXCEPT ![i] = Place(t, NULL, 0)]
           m0 == [m EXCEPT !.list[i].topic = t]
           m1 == [m0 EXCEPT !.heap = m.heap + 1]
           m2 == [m1 EXCEPT !.heap = m1.heap]
           f == Forget(m2, i)
<1>1. m0 = Mem(l1, m.heap, m.ok)
    <2>1. [m.list[i] EXCEPT !.topic = t] = Place(t, NULL, 0)
        <3>1. m.list[i] = Place(NULL, NULL, 0)
            BY MemoryIs
        <3> QED BY <3>1 DEF Place
    <2>2. m = Mem(m.list, m.heap, m.ok) /\ i \in DOMAIN m.list
        BY MemoryIs
    <2>3. m0 = Mem([m.list EXCEPT ![i] = [m.list[i] EXCEPT !.topic = t]], m.heap, m.ok)
        BY <2>2 DEF Mem
    <2> QED BY <2>1, <2>3
<1>2. /\ l1[i] = Place(t, NULL, 0) /\ i \in DOMAIN l1
      /\ With(l1, i, t, d, q) = With(m.list, i, t, d, q)
      /\ [l1 EXCEPT ![i] = Place(NULL, NULL, 0)] = m.list
    <2>1. m.list[i] = Place(NULL, NULL, 0) /\ i \in DOMAIN m.list
        BY MemoryIs
    <2>2. [l1 EXCEPT ![i] = Place(NULL, NULL, 0)] = [m.list EXCEPT ![i] = Place(NULL, NULL, 0)]
        BY <2>1
    <2>3. [m.list EXCEPT ![i] = Place(NULL, NULL, 0)] = m.list
        BY <2>1, MemoryIs DEF ListType
    <2> QED BY <2>1, <2>2, <2>3 DEF With
<1>3. SetData(Named(m, i, t), i, d, q, fail) = SetData(m1, i, d, q, fail)
    BY DEF Named
<1> HIDE DEF l1, m0
<1>4. m1 = Mem(l1, m.heap + 1, m.ok)
    BY <1>1 DEF Mem
<1> HIDE DEF m1
<1>5. ASSUME NEW h
      PROVE  Stored(m1, i, d, q, h) = Mem(With(l1, i, t, d, q), h, m.ok)
    BY <1>2, <1>4, StoreIs
<1>6. m1.list[i].data = NULL /\ m1.heap = m.heap + 1
    BY <1>2, <1>4 DEF Mem, Place
<1>7. CASE fail # "data"
    <2>1. SetData(m1, i, d, q, fail) = Stored(m1, i, d, q, m1.heap + 1)
        BY <1>6, <1>7 DEF SetData, Stored
    <2>2. m1.heap + 1 = m.heap + 2
        BY <1>6, MemoryIs
    <2> QED BY <1>2, <1>3, <1>5, <2>1, <2>2
<1>8. CASE fail = "data"
    <2>1. SetData(m1, i, d, q, fail) = Failed(f)
        BY <1>6, <1>8 DEF SetData, Failed
    <2>2. m2 = Mem(l1, m.heap + 1, m.ok)
        BY <1>4 DEF Mem
    <2> HIDE DEF m2
    <2>3. PICK h : h = m.heap + 1
        OBVIOUS
    <2>4. f = Mem([l1 EXCEPT ![i] = Place(NULL, NULL, 0)], h - 1, m.ok)
        <3>1. i \in DOMAIN l1 /\ l1[i] = Place(t, NULL, 0) /\ m2 = Mem(l1, h, m.ok)
            BY <1>2, <2>2, <2>3
        <3> QED BY <3>1, ForgetIs
    <2>5. h - 1 = m.heap
        BY <2>3, MemoryIs
    <2> HIDE DEF f
    <2>6. Failed(f) = Mem(m.list, m.heap, FALSE)
        <3>1. f = Mem(m.list, m.heap, m.ok)
            BY <1>2, <2>4, <2>5
        <3> QED BY <3>1, FailedIs, Zenon
    <2> QED BY <1>3, <1>8, <2>1, <2>6
<1> QED BY <1>7, <1>8

\* Everything update_retainedtopic may do: nothing, as a topic without an entry is deleted
\* or there is no memory or no room for its entry; delete the entry, also when there is no
\* memory for the new data; overwrite it; or fill the first free one.
Effect(m, t, d, q, fail, u) ==
    \/ u = m /\ d = <<>> /\ \A i \in Entries : m.list[i].topic # t
    \/ /\ u = Mem(m.list, m.heap, FALSE) /\ (fail # "none" \/ Unused(m.list) = {})
       /\ \A i \in Entries : m.list[i].topic # t
    \/ \E i \in Entries :
          /\ m.list[i].topic = t
          /\ \/ u = Mem(Without(m.list, i), m.heap - 2, m.ok) /\ d = <<>>
             \/ u = Mem(Without(m.list, i), m.heap - 2, FALSE) /\ fail # "none"
             \/ d # <<>> /\ u = Mem(With(m.list, i, t, d, q), m.heap, m.ok)
    \/ /\ Unused(m.list) # {} /\ d # <<>> /\ \A i \in Entries : m.list[i].topic # t
       /\ u = Mem(With(m.list, FirstOf(Unused(m.list)), t, d, q), m.heap + 2, m.ok)

LEMMA UpdateEffect ==
    ASSUME NEW m \in MemoryType, NEW t \in Topic, NEW d \in Data \cup {<<>>}, NEW q \in Qos,
           NEW fail \in Fails, NEW u, u = update_retainedtopic(m, t, d, q, fail)
    PROVE  Effect(m, t, d, q, fail, u)
<1> DEFINE found == {i \in Entries : m.list[i].topic = t}
           free == Unused(m.list)
<1>1. t # NULL /\ found \in SUBSET Entries /\ free \in SUBSET Entries
    BY BytesAssumption DEF Unused
<1>2. CASE found # {} /\ d = <<>>
    <2>1. u = Delete(m, FirstOf(found))
        BY <1>2 DEF update_retainedtopic, Unused
    <2>2. FirstOf(found) \in found
        BY <1>1, <1>2, FirstOfEntries
    <2> QED BY <1>2, <2>1, <2>2, DeleteEffect DEF Effect
<1>3. CASE found # {} /\ d # <<>>
    <2>1. u = SetData(m, FirstOf(found), d, q, fail)
        BY <1>3 DEF update_retainedtopic, Unused
    <2>2. FirstOf(found) \in found
        BY <1>1, <1>3, FirstOfEntries
    <2>3. d \in Data
        BY <1>3
    <2>4. PICK i \in Entries : m.list[i].topic = t /\ u = SetData(m, i, d, q, fail)
        BY <2>1, <2>2
    <2>5. \/ u = Mem(With(m.list, i, t, d, q), m.heap, m.ok)
          \/ fail = "data" /\ u = Mem(Without(m.list, i), m.heap - 2, FALSE)
        BY <1>1, <2>3, <2>4, OverwriteEffect, Zenon
    <2>6. CASE u = Mem(With(m.list, i, t, d, q), m.heap, m.ok)
        BY <1>3, <2>4, <2>6, Zenon DEF Effect
    <2>7. CASE fail = "data" /\ u = Mem(Without(m.list, i), m.heap - 2, FALSE)
        <3>1. fail # "none"
            BY <2>7
        <3> QED BY <2>4, <2>7, <3>1, Zenon DEF Effect
    <2> QED BY <2>5, <2>6, <2>7, Zenon
<1>4. CASE found = {} /\ d = <<>>
    <2>1. u = m
        BY <1>4 DEF update_retainedtopic, Unused
    <2> QED BY <1>4, <2>1 DEF Effect
<1>5. CASE found = {} /\ d # <<>> /\ (free = {} \/ fail = "topic")
    <2>1. u = Failed(m)
        BY <1>5 DEF update_retainedtopic, Unused, Failed
    <2>2. m = Mem(m.list, m.heap, m.ok)
        BY DEF MemoryType, Mem
    <2>3. u = Mem(m.list, m.heap, FALSE)
        <3> QED BY <2>1, <2>2, FailedIs, Zenon
    <2> QED BY <1>5, <2>3 DEF Effect
<1>6. CASE found = {} /\ d # <<>> /\ free # {} /\ fail # "topic"
    <2> DEFINE i == FirstOf(free)
               n == SetData(Named(m, i, t), i, d, q, fail)
    <2>1. u = n
        BY <1>6 DEF update_retainedtopic, Unused, Named
    <2>2. i \in Entries /\ m.list[i].topic = NULL
        BY <1>1, <1>6, FirstOfEntries DEF Unused
    <2>3. d \in Data
        BY <1>6
    <2>4. \/ n = Mem(With(m.list, i, t, d, q), m.heap + 2, m.ok)
          \/ fail = "data" /\ n = Mem(m.list, m.heap, FALSE)
        <3> HIDE DEF i
        <3> QED BY <2>2, <2>3, FillEffect, Zenon
    <2> HIDE DEF n, i
    <2> QED BY <1>6, <2>1, <2>4 DEF i, Effect
<1> QED BY <1>2, <1>3, <1>4, <1>5, <1>6

\* A memory with an entry more or less has the blocks of its entries.
LEMMA UsedFinite ==
    ASSUME NEW l
    PROVE  IsFiniteSet(Used(l)) /\ Cardinality(Used(l)) \in Nat
<1>1. IsFiniteSet(Entries)
    BY EntriesAssumption, FS_Interval DEF Entries
<1>2. Used(l) \subseteq Entries
    BY DEF Used
<1> QED BY <1>1, <1>2, FS_Subset, FS_CardinalityType

LEMMA MemoryWithout ==
    ASSUME NEW m \in MemoryType, NEW i \in Entries, m.list[i].topic # NULL, NEW o \in BOOLEAN,
           NEW k, k = Without(m.list, i)
    PROVE  /\ Mem(k, m.heap - 2, o) \in MemoryType /\ Used(k) = Used(m.list) \ {i}
           /\ MapOf(k) = Unbound(MapOf(m.list), m.list[i].topic)
<1>1. m.list \in ListType /\ OneEach(m.list) /\ m.heap = 2 * Cardinality(Used(m.list))
    BY DEF MemoryType
<1>2. /\ k \in ListType /\ OneEach(k) /\ Used(k) = Used(m.list) \ {i}
      /\ MapOf(k) = Unbound(MapOf(m.list), m.list[i].topic)
    BY <1>1, FreeEntry
<1>3. i \in Used(m.list)
    BY DEF Used
<1>4. Cardinality(Used(k)) = Cardinality(Used(m.list)) - 1 /\ Cardinality(Used(k)) \in Nat
    BY <1>2, <1>3, UsedFinite, FS_RemoveElement, ZenonT(60)
<1>5. m.heap - 2 \in Nat /\ m.heap - 2 = 2 * Cardinality(Used(k))
    BY <1>1, <1>4, UsedFinite
<1>6. Mem(k, m.heap - 2, o) \in MemoryType
    BY <1>2, <1>5 DEF Mem, MemoryType
<1> QED BY <1>2, <1>6

LEMMA MemoryOver ==
    ASSUME NEW m \in MemoryType, NEW i \in Entries, NEW t \in Topic, m.list[i].topic = t,
           NEW d \in Data, d # <<>>, NEW q \in Qos,
           NEW k, k = With(m.list, i, t, d, q)
    PROVE  /\ Mem(k, m.heap, m.ok) \in MemoryType /\ Used(k) = Used(m.list)
           /\ MapOf(k) = Bound(MapOf(m.list), t, d, q)
<1>1. m.list \in ListType /\ OneEach(m.list) /\ m.heap = 2 * Cardinality(Used(m.list))
      /\ m.heap \in Nat /\ m.ok \in BOOLEAN
    BY DEF MemoryType
<1>2. /\ k \in ListType /\ OneEach(k) /\ Used(k) = Used(m.list) \cup {i}
      /\ MapOf(k) = Bound(MapOf(m.list), t, d, q)
    <2>1. m.list[i].topic = t \/ (m.list[i].topic = NULL /\ \A j \in Entries : m.list[j].topic # t)
        OBVIOUS
    <2> QED BY <1>1, <2>1, PutEntry
<1>3. Used(k) = Used(m.list)
    BY <1>2, BytesAssumption DEF Used
<1>4. Mem(k, m.heap, m.ok) \in MemoryType
    BY <1>1, <1>2, <1>3 DEF Mem, MemoryType
<1> QED BY <1>2, <1>3, <1>4

LEMMA MemoryWith ==
    ASSUME NEW m \in MemoryType, NEW i \in Entries, NEW t \in Topic, m.list[i].topic = NULL,
           \A j \in Entries : m.list[j].topic # t, NEW d \in Data, d # <<>>, NEW q \in Qos,
           NEW k, k = With(m.list, i, t, d, q)
    PROVE  /\ Mem(k, m.heap + 2, m.ok) \in MemoryType /\ Used(k) = Used(m.list) \cup {i}
           /\ MapOf(k) = Bound(MapOf(m.list), t, d, q)
<1>1. m.list \in ListType /\ OneEach(m.list) /\ m.heap = 2 * Cardinality(Used(m.list))
      /\ m.heap \in Nat /\ m.ok \in BOOLEAN
    BY DEF MemoryType
<1>2. /\ k \in ListType /\ OneEach(k) /\ Used(k) = Used(m.list) \cup {i}
      /\ MapOf(k) = Bound(MapOf(m.list), t, d, q)
    <2>1. m.list[i].topic = t \/ (m.list[i].topic = NULL /\ \A j \in Entries : m.list[j].topic # t)
        OBVIOUS
    <2> QED BY <1>1, <2>1, PutEntry
<1>3. i \notin Used(m.list)
    BY DEF Used
<1>4. Cardinality(Used(k)) = Cardinality(Used(m.list)) + 1
    BY <1>2, <1>3, UsedFinite, FS_AddElement
<1>5. m.heap + 2 \in Nat /\ m.heap + 2 = 2 * Cardinality(Used(k))
    BY <1>1, <1>4, UsedFinite
<1>6. Mem(k, m.heap + 2, m.ok) \in MemoryType
    BY <1>1, <1>2, <1>5 DEF Mem, MemoryType
<1> QED BY <1>2, <1>6

\* update_retainedtopic keeps the memory in order, and leaves the topic its old value, the
\* new one or none.
LEMMA UpdateMemory ==
    ASSUME NEW m \in MemoryType, NEW t \in Topic, NEW d \in Data \cup {<<>>}, NEW q \in Qos,
           NEW fail \in Fails, NEW u, u = update_retainedtopic(m, t, d, q, fail)
    PROVE  /\ u \in MemoryType
           /\ \/ MapOf(u.list) = MapOf(m.list)
              \/ MapOf(u.list) = Unbound(MapOf(m.list), t)
              \/ d # <<>> /\ MapOf(u.list) = Bound(MapOf(m.list), t, d, q)
<1> DEFINE free == Unused(m.list)
<1>1. m = Mem(m.list, m.heap, m.ok) /\ m.list \in ListType /\ m.ok \in BOOLEAN
    BY DEF MemoryType, Mem
<1>2. t # NULL
    BY BytesAssumption
<1>3. CASE u = m
    BY <1>3
<1>4. CASE u = Mem(m.list, m.heap, FALSE)
    <2>1. Mem(m.list, m.heap, FALSE) \in MemoryType /\ Mem(m.list, m.heap, FALSE).list = m.list
        BY DEF MemoryType, Mem
    <2> QED BY <1>4, <2>1
<1>5. ASSUME NEW i \in Entries, m.list[i].topic = t, NEW o \in BOOLEAN,
             u = Mem(Without(m.list, i), m.heap - 2, o)
      PROVE  u \in MemoryType /\ MapOf(u.list) = Unbound(MapOf(m.list), t)
    <2>1. u.list = Without(m.list, i)
        BY <1>5 DEF Mem
    <2> QED BY <1>2, <1>5, <2>1, MemoryWithout
<1>6. ASSUME NEW i \in Entries, m.list[i].topic = t, d # <<>>,
             u = Mem(With(m.list, i, t, d, q), m.heap, m.ok)
      PROVE  u \in MemoryType /\ MapOf(u.list) = Bound(MapOf(m.list), t, d, q)
    <2>1. u.list = With(m.list, i, t, d, q) /\ d \in Data
        BY <1>6 DEF Mem
    <2> QED BY <1>6, <2>1, MemoryOver
<1>7. ASSUME free # {}, d # <<>>, \A i \in Entries : m.list[i].topic # t,
             u = Mem(With(m.list, FirstOf(free), t, d, q), m.heap + 2, m.ok)
      PROVE  u \in MemoryType /\ MapOf(u.list) = Bound(MapOf(m.list), t, d, q)
    <2>1. PICK i \in free : i = FirstOf(free)
        BY <1>7, FirstOfEntries DEF Unused
    <2>2. u.list = With(m.list, i, t, d, q) /\ d \in Data
        BY <1>7, <2>1 DEF Mem
    <2>3. /\ m.list[i].topic = NULL /\ \A j \in Entries : m.list[j].topic # t
          /\ u = Mem(With(m.list, i, t, d, q), m.heap + 2, m.ok) /\ i \in Entries
        BY <1>7, <2>1 DEF Unused
    <2>4. /\ Mem(With(m.list, i, t, d, q), m.heap + 2, m.ok) \in MemoryType
          /\ MapOf(With(m.list, i, t, d, q)) = Bound(MapOf(m.list), t, d, q)
        BY <1>7, <2>2, <2>3, MemoryWith
    <2> QED BY <2>2, <2>3, <2>4
<1>8. \/ u = m
      \/ u = Mem(m.list, m.heap, FALSE)
      \/ \E i \in Entries :
            /\ m.list[i].topic = t
            /\ \/ u = Mem(Without(m.list, i), m.heap - 2, m.ok)
               \/ u = Mem(Without(m.list, i), m.heap - 2, FALSE)
               \/ d # <<>> /\ u = Mem(With(m.list, i, t, d, q), m.heap, m.ok)
      \/ /\ free # {} /\ d # <<>> /\ \A i \in Entries : m.list[i].topic # t
         /\ u = Mem(With(m.list, FirstOf(free), t, d, q), m.heap + 2, m.ok)
    <2>1. Effect(m, t, d, q, fail, u)
        BY UpdateEffect
    <2> QED BY <2>1, Zenon DEF Effect
<1>9. FALSE \in BOOLEAN
    OBVIOUS
<1> QED BY <1>1, <1>3, <1>4, <1>5, <1>6, <1>7, <1>8, <1>9, Zenon

-----------------------------------------------------------------------------
(* clear_retainedtopics *)

ClearStep(i, m) ==
    IF m.list[i].topic = NULL THEN m
    ELSE update_retainedtopic(m, m.list[i].topic, <<>>, m.list[i].qos, "none")

LEMMA ClearStepIs ==
    ASSUME NEW m \in MemoryType, NEW i \in Entries, NEW u, u = ClearStep(i, m)
    PROVE  /\ u \in MemoryType /\ u.list[i].topic = NULL
           /\ \A j \in Entries : m.list[j].topic = NULL => u.list[j].topic = NULL
<1>1. m.list \in ListType /\ OneEach(m.list)
    BY DEF MemoryType
<1>2. CASE m.list[i].topic = NULL
    BY <1>2 DEF ClearStep
<1>3. CASE m.list[i].topic # NULL
    <2> DEFINE t == m.list[i].topic
    <2>1. t \in Topic /\ m.list[i].qos \in Qos /\ "none" \in Fails
        BY <1>1, <1>3, PlaceType DEF Qos, Fails
    <2>2. u = update_retainedtopic(m, t, <<>>, m.list[i].qos, "none")
        BY <1>3 DEF ClearStep
    <2> HIDE DEF t
    <2>3. u \in MemoryType
        BY <2>1, <2>2, UpdateMemory
    <2>4. Effect(m, t, <<>>, m.list[i].qos, "none", u)
        BY <2>1, <2>2, UpdateEffect
    <2>5. PICK k \in Entries : m.list[k].topic = t /\ u = Mem(Without(m.list, k), m.heap - 2, m.ok)
        <3>1. m.list[i].topic = t
            BY DEF t
        <3> QED BY <2>4, <3>1, Zenon DEF Effect
    <2>6. k = i
        BY <1>1, <1>3, <2>5 DEF OneEach, t
    <2>7. u.list = [m.list EXCEPT ![i] = Free]
        BY <2>5, <2>6 DEF Mem, Without
    <2> QED BY <1>1, <2>3, <2>7 DEF ListType, Free
<1> QED BY <1>2, <1>3

LEMMA ClearedIs ==
    ASSUME Memory \in MemoryType
    PROVE  /\ Cleared[0] = Memory
           /\ \A i \in Entries : Cleared[i] = ClearStep(i, Cleared[i - 1])
<1> DEFINE D == 0..MaxEntry
           Equation(f) == [i \in D |-> IF i = 0 THEN Memory ELSE ClearStep(i, f[i - 1])]
           step == [x \in D \X MemoryType |-> IF x[1] = 0 THEN x[2] ELSE ClearStep(x[1], x[2])]
           rank == [i \in D |-> i]
           next == [i \in D |-> IF i = 0 THEN 0 ELSE i - 1]
           base == [i \in D |-> Memory]
           stop == {0}
<1>1. MaxEntry \in Nat
    BY EntriesAssumption
<1>2. step \in [D \X MemoryType -> MemoryType]
    <2>1. ASSUME NEW i \in D, NEW m \in MemoryType, i # 0 PROVE ClearStep(i, m) \in MemoryType
        BY <1>1, <2>1, ClearStepIs DEF Entries
    <2>2. ASSUME NEW x \in D \X MemoryType
          PROVE  (IF x[1] = 0 THEN x[2] ELSE ClearStep(x[1], x[2])) \in MemoryType
        BY <2>1
    <2> QED BY <2>2
<1>3. rank \in [D -> 0..MaxEntry] /\ next \in [D -> D] /\ base \in [D -> MemoryType]
    BY <1>1
<1>4. \A p \in D : p \notin stop => rank[next[p]] < rank[p]
    BY <1>1
<1>5. PICK f : Solution(D, MemoryType, stop, base, next, step, f)
    <2>1. IsRecursion(D, MemoryType, MaxEntry, rank, stop, base, next, step)
        <3> HIDE DEF D, step, rank, next, base, stop
        <3> QED BY <1>1, <1>2, <1>3, <1>4 DEF IsRecursion
    <2> HIDE DEF D, step, rank, next, base, stop
    <2> QED BY <2>1, Recursion
<1>6. f = Equation(f)
    <2>1. ASSUME NEW i \in D PROVE f[i] = IF i = 0 THEN Memory ELSE ClearStep(i, f[i - 1])
        <3>1. CASE i = 0
            BY <1>5, <3>1 DEF Solution
        <3>2. CASE i # 0
            <4>1. next[i] = i - 1 /\ i - 1 \in D
                BY <1>1, <3>2
            <4>2. f[i] = step[<<i, f[i - 1]>>]
                BY <1>5, <3>2, <4>1 DEF Solution
            <4>3. <<i, f[i - 1]>> \in D \X MemoryType
                BY <1>5, <4>1 DEF Solution
            <4> QED BY <3>2, <4>2, <4>3
        <3> QED BY <3>1, <3>2
    <2>2. f \in [D -> MemoryType]
        BY <1>5 DEF Solution
    <2> HIDE DEF D
    <2> QED BY <2>1, <2>2
<1>7. Cleared = Equation(Cleared)
    BY <1>6 DEF Cleared, ClearStep
<1> QED BY <1>1, <1>7 DEF Entries

\* All entries are deleted, one after the other.
LEMMA ClearedAll ==
    ASSUME Memory \in MemoryType
    PROVE  /\ Cleared[MaxEntry] \in MemoryType
           /\ MapOf(Cleared[MaxEntry].list) = [t \in Topic |-> NULL]
<1> DEFINE P == {i \in 0..MaxEntry : /\ Cleared[i] \in MemoryType
                                     /\ \A j \in 1..i : Cleared[i].list[j].topic = NULL}
<1>1. MaxEntry \in Nat
    BY EntriesAssumption
<1>2. 0 \in P
    BY <1>1, ClearedIs
<1>3. ASSUME NEW i \in 1..MaxEntry, i - 1 \in P PROVE i \in P
    <2>1. Cleared[i - 1] \in MemoryType /\ \A j \in 1..i - 1 : Cleared[i - 1].list[j].topic = NULL
        BY <1>3
    <2>2. Cleared[i] = ClearStep(i, Cleared[i - 1]) /\ i \in Entries
        BY ClearedIs DEF Entries
    <2>3. /\ Cleared[i] \in MemoryType /\ Cleared[i].list[i].topic = NULL
          /\ \A j \in Entries : Cleared[i - 1].list[j].topic = NULL => Cleared[i].list[j].topic = NULL
        BY <2>1, <2>2, ClearStepIs
    <2>4. ASSUME NEW j \in 1..i PROVE Cleared[i].list[j].topic = NULL
        <3>1. j \in Entries /\ (j = i \/ j \in 1..i - 1)
            BY <1>1 DEF Entries
        <3> QED BY <2>1, <2>3, <3>1
    <2> QED BY <1>1, <2>3, <2>4
<1>4. MaxEntry \in P
    <2> HIDE DEF P
    <2> QED BY <1>1, <1>2, <1>3, InductionTo
<1> DEFINE m == Cleared[MaxEntry]
<1>5. m \in MemoryType /\ \A j \in Entries : m.list[j].topic = NULL
    BY <1>4 DEF Entries
<1> HIDE DEF m
<1>6. m.list \in ListType /\ OneEach(m.list)
    BY <1>5 DEF MemoryType
<1>7. \A t \in Topic : MapOf(m.list)[t] = NULL
    BY <1>5, <1>6, MapOfEntry, BytesAssumption
<1>8. MapOf(m.list) = [t \in Topic |-> NULL]
    BY <1>7 DEF MapOf
<1> QED BY <1>5, <1>8 DEF m

-----------------------------------------------------------------------------
(* The image: the bytes of an entry *)

LEMMA LengthBytes ==
    ASSUME NEW n \in Nat
    PROVE  n % Radix \in Nat /\ n \div Radix \in Nat /\ (n % Radix) + Radix * (n \div Radix) = n
BY RadixAssumption

LEMMA LengthOfBytes ==
    ASSUME NEW a \in Nat, NEW b \in Nat
    PROVE  a + Radix * b \in Nat
BY RadixAssumption

\* a bytes of the topic, its end, two bytes of length, b bytes of data, the qos.
IsEntry(s, e, a, b) ==
    /\ a = Len(e.topic) /\ b = Len(e.data) /\ a \in Nat /\ b \in Nat
    /\ s \in Seq(Nat) /\ Len(s) = a + b + 4
    /\ \A j \in 1..a : s[j] = e.topic[j]
    /\ s[a + 1] = 0 /\ s[a + 2] = b % Radix /\ s[a + 3] = b \div Radix
    /\ \A j \in 1..b : s[a + 3 + j] = e.data[j]
    /\ s[a + b + 4] = e.qos

LEMMA EntryBytes ==
    ASSUME NEW e \in EntryType
    PROVE  IsEntry(Entry(e), e, Len(e.topic), Len(e.data))
<1> DEFINE a == Len(e.topic)
           b == Len(e.data)
           l == <<b % Radix, b \div Radix>>
           s1 == e.topic \o <<0>>
           s2 == s1 \o l
           s3 == s2 \o e.data
           s4 == s3 \o <<e.qos>>
<1>1. e.topic \in Seq(Nat) /\ e.data \in Seq(Nat) /\ e.qos \in Nat /\ a \in Nat /\ b \in Nat
    BY BytesAssumption DEF EntryType, Qos
<1>2. l \in Seq(Nat) /\ Len(l) = 2 /\ l[1] = b % Radix /\ l[2] = b \div Radix
    <2> DEFINE low == b % Radix
               high == b \div Radix
    <2>1. low \in Nat /\ high \in Nat
        BY <1>1, LengthBytes
    <2> HIDE DEF low, high
    <2>2. <<low, high>> \in Seq(Nat) /\ Len(<<low, high>>) = 2
          /\ <<low, high>>[1] = low /\ <<low, high>>[2] = high
        BY <2>1
    <2> QED BY <2>2 DEF low, high
<1>3. <<0>> \in Seq(Nat) /\ Len(<<0>>) = 1 /\ <<0>>[1] = 0
    OBVIOUS
<1>4. <<e.qos>> \in Seq(Nat) /\ Len(<<e.qos>>) = 1 /\ <<e.qos>>[1] = e.qos
    BY <1>1
<1>5. Entry(e) = s4
    BY DEF Entry
<1> HIDE DEF l
<1>6. IsJoin(s1, e.topic, <<0>>, a, 1)
    BY <1>1, <1>3, Join
<1> HIDE DEF s1
<1>7. IsJoin(s2, s1, l, a + 1, 2)
    <2>1. s1 \in Seq(Nat) /\ Len(s1) = a + 1
        BY <1>6 DEF IsJoin
    <2> QED BY <1>2, <2>1, Join
<1> HIDE DEF s2
<1>8. IsJoin(s3, s2, e.data, a + 3, b)
    <2>1. s2 \in Seq(Nat) /\ Len(s2) = (a + 1) + 2
        BY <1>7 DEF IsJoin
    <2>2. (a + 1) + 2 = a + 3
        BY <1>1
    <2> HIDE DEF a
    <2>3. Len(s2) = a + 3
        BY <2>1, <2>2
    <2>4. IsJoin(s2 \o e.data, s2, e.data, Len(s2), Len(e.data))
        BY <1>1, <2>1, Join
    <2> QED BY <2>3, <2>4 DEF s3
<1> HIDE DEF s3
<1>9. IsJoin(s4, s3, <<e.qos>>, a + 3 + b, 1)
    <2>1. s3 \in Seq(Nat) /\ Len(s3) = a + 3 + b
        BY <1>8 DEF IsJoin
    <2> QED BY <1>4, <2>1, Join
<1> HIDE DEF s4, a, b
<1>10. \A j \in 1..a : s4[j] = e.topic[j]
    <2> TAKE j \in 1..a
    <2>1. j \in 1..a + 3 + b /\ j \in 1..a + 3 /\ j \in 1..a + 1
        BY <1>1
    <2>2. s4[j] = s3[j]
        BY <1>9, <2>1 DEF IsJoin
    <2>3. s3[j] = s2[j]
        BY <1>8, <2>1 DEF IsJoin
    <2>4. s2[j] = s1[j]
        BY <1>7, <2>1 DEF IsJoin
    <2>5. s1[j] = e.topic[j]
        BY <1>6, <2>1 DEF IsJoin
    <2> QED BY <2>2, <2>3, <2>4, <2>5
<1>11. \A j \in 1..a + 3 : s4[j] = s2[j]
    <2> TAKE j \in 1..a + 3
    <2>1. j \in 1..a + 3 + b
        BY <1>1
    <2>2. s4[j] = s3[j]
        BY <1>9, <2>1 DEF IsJoin
    <2>3. s3[j] = s2[j]
        BY <1>8, <2>1 DEF IsJoin
    <2> QED BY <2>2, <2>3
<1>12. a + 1 \in 1..a + 3 /\ a + 2 \in 1..a + 3 /\ a + 3 \in 1..a + 3 /\ a + 1 \in 1..a + 1
       /\ (a + 1) + 1 = a + 2 /\ (a + 1) + 2 = a + 3 /\ 1 \in 1..2 /\ 2 \in 1..2 /\ 1 \in 1..1
       /\ (a + 3 + b) + 1 = a + b + 4
    BY <1>1
<1>13. s2[a + 1] = 0
    <2>1. s2[a + 1] = s1[a + 1]
        BY <1>7, <1>12 DEF IsJoin
    <2>2. s1[a + 1] = <<0>>[1]
        BY <1>6, <1>12 DEF IsJoin
    <2> QED BY <1>3, <2>1, <2>2
<1>14. s2[a + 2] = b % Radix /\ s2[a + 3] = b \div Radix
    <2>1. s2[(a + 1) + 1] = l[1] /\ s2[(a + 1) + 2] = l[2]
        BY <1>7, <1>12 DEF IsJoin
    <2> QED BY <1>2, <1>12, <2>1
<1>15. s4[a + 1] = 0 /\ s4[a + 2] = b % Radix /\ s4[a + 3] = b \div Radix
    BY <1>11, <1>12, <1>13, <1>14
<1>16. \A j \in 1..b : s4[a + 3 + j] = e.data[j]
    <2> TAKE j \in 1..b
    <2>1. a + 3 + j \in 1..a + 3 + b
        BY <1>1
    <2>2. s4[a + 3 + j] = s3[a + 3 + j]
        BY <1>9, <2>1 DEF IsJoin
    <2>3. s3[a + 3 + j] = e.data[j]
        BY <1>8 DEF IsJoin
    <2> QED BY <2>2, <2>3
<1>17. s4 \in Seq(Nat) /\ Len(s4) = a + b + 4 /\ s4[a + b + 4] = e.qos
    <2>1. s4[(a + 3 + b) + 1] = <<e.qos>>[1] /\ s4 \in Seq(Nat) /\ Len(s4) = (a + 3 + b) + 1
        BY <1>9, <1>12 DEF IsJoin
    <2> QED BY <1>4, <1>12, <2>1
<1>18. a = Len(e.topic) /\ b = Len(e.data)
    BY DEF a, b
<1>19. IsEntry(s4, e, a, b)
    BY <1>1, <1>10, <1>15, <1>16, <1>17, <1>18 DEF IsEntry
<1> QED BY <1>5, <1>18, <1>19

Pieces(l) == [i \in Entries |-> IF l[i].topic = NULL THEN <<>> ELSE Entry(l[i])]

\* Where the entries of l are in its image: used ones as they are, free ones not at all.
IsLayout(off, l) ==
    /\ off \in [0..MaxEntry -> Nat] /\ off[0] = 0
    /\ Serialized(l) \in Seq(Nat) /\ Len(Serialized(l)) = off[MaxEntry]
    /\ \A i \in Entries :
          /\ l[i].topic = NULL => off[i] = off[i - 1]
          /\ l[i].topic # NULL =>
                /\ l[i] \in EntryType
                /\ off[i] = off[i - 1] + Len(Entry(l[i]))
                /\ \A j \in 1..Len(Entry(l[i])) : Serialized(l)[off[i - 1] + j] = Entry(l[i])[j]

LEMMA Layout ==
    ASSUME NEW l \in ListType
    PROVE  \E off : IsLayout(off, l)
<1>1. MaxEntry \in Nat
    BY EntriesAssumption
<1>2. ASSUME NEW i \in Entries, l[i].topic # NULL
      PROVE  l[i] \in EntryType /\ Entry(l[i]) \in Seq(Nat) /\ Len(Entry(l[i])) \in Nat
    <2>1. l[i] \in EntryType
        BY <1>2, PlaceType
    <2> QED BY <2>1, EntryBytes, LenProperties DEF IsEntry
<1>3. Pieces(l) \in [1..MaxEntry -> Seq(Nat)]
    <2>1. ASSUME NEW i \in Entries
          PROVE  (IF l[i].topic = NULL THEN <<>> ELSE Entry(l[i])) \in Seq(Nat)
        BY <1>2
    <2> QED BY <2>1 DEF Pieces, Entries
<1>4. Serialized(l) = FlattenSeq(Pieces(l))
    BY DEF Serialized, Pieces
<1>5. PICK off : IsOffsets(off, Pieces(l), MaxEntry, Serialized(l))
    BY <1>1, <1>3, <1>4, Flattened
<1>6. ASSUME NEW i \in Entries, l[i].topic = NULL PROVE off[i] = off[i - 1]
    <2>1. Pieces(l)[i] = <<>> /\ i \in 1..MaxEntry /\ i - 1 \in 0..MaxEntry
        BY <1>1, <1>6 DEF Pieces, Entries
    <2>2. off[i] = off[i - 1] + Len(Pieces(l)[i]) /\ off[i - 1] \in Nat
        BY <1>5, <2>1 DEF IsOffsets
    <2> QED BY <2>1, <2>2
<1>7. ASSUME NEW i \in Entries, l[i].topic # NULL
      PROVE  /\ off[i] = off[i - 1] + Len(Entry(l[i]))
             /\ \A j \in 1..Len(Entry(l[i])) : Serialized(l)[off[i - 1] + j] = Entry(l[i])[j]
    <2>1. Pieces(l)[i] = Entry(l[i]) /\ i \in 1..MaxEntry
        BY <1>1, <1>7 DEF Pieces, Entries
    <2> QED BY <1>5, <2>1 DEF IsOffsets
<1>8. IsLayout(off, l)
    BY <1>2, <1>5, <1>6, <1>7 DEF IsLayout, IsOffsets
<1> QED BY <1>8

-----------------------------------------------------------------------------
(* deserialize_retainedtopics: the entries that are read from the image *)

LEMMA LeastOf ==
    ASSUME NEW S \in SUBSET Nat, S # {}
    PROVE  FirstOf(S) \in S /\ \A j \in S : FirstOf(S) <= j
BY LeastElement DEF FirstOf

\* The string at p ends with the first zero, or behind the image.
LEMMA BehindIs ==
    ASSUME image \in Seq(Nat), NEW p \in Nat \ {0}
    PROVE  /\ Behind(p) \in Nat \ {0}
           /\ p <= Len(image) => p < Behind(p)
           /\ \A z \in p..Len(image) :
                 image[z] = 0 /\ (\A j \in p..z - 1 : image[j] # 0) => Behind(p) = z + 1
           /\ (\A j \in p..Len(image) : image[j] # 0) => Behind(p) = Len(image) + 2
<1> DEFINE N == Len(image)
           zeros == {j \in p..N : image[j] = 0}
           z == FirstOf(zeros)
<1>1. N \in Nat
    BY LenProperties
<1>2. zeros \in SUBSET Nat
    BY <1>1
<1>3. Behind(p) = IF zeros = {} THEN N + 2 ELSE z + 1
    BY DEF Behind
<1> HIDE DEF N
<1>4. CASE zeros = {}
    <2>1. Behind(p) = N + 2 /\ \A y \in p..N : image[y] # 0
        BY <1>3, <1>4
    <2> HIDE DEF zeros
    <2> QED BY <1>1, <2>1 DEF N
<1>5. CASE zeros # {}
    <2>1. z \in zeros /\ \A j \in zeros : z <= j
        <3> HIDE DEF zeros
        <3> QED BY <1>2, <1>5, LeastOf
    <2>2. z \in p..N /\ image[z] = 0 /\ Behind(p) = z + 1
        BY <1>3, <1>5, <2>1
    <2>3. ASSUME NEW y \in p..N, image[y] = 0, \A j \in p..y - 1 : image[j] # 0
          PROVE  y = z
        <3>1. z <= y
            BY <2>1, <2>3
        <3>2. z \notin p..y - 1
            BY <2>2, <2>3
        <3> HIDE DEF z, zeros
        <3> QED BY <1>1, <2>2, <3>1, <3>2
    <2> HIDE DEF z, zeros
    <2> QED BY <1>1, <2>2, <2>3 DEF N
<1> QED BY <1>4, <1>5 DEF N

\* Where the qos of the entry at p is; the two ways to stop; and the entry.
QosAt(p) == Behind(p) + 2 + DataLen(Behind(p))
Ends(p) == p > Len(image) \/ image[p] = 0
Breaks(p) == Behind(p) > Len(image) \/ QosAt(p) > Len(image)
Stops(p) == Ends(p) \/ Breaks(p)
EntryAt(p) == [topic |-> SubSeq(image, p, Behind(p) - 2),
               data |-> SubSeq(image, Behind(p) + 2, QosAt(p) - 1), qos |-> image[QosAt(p)]]
NoMore(w) == [entries |-> <<>>, whole |-> w]
OneMore(e, r) == [r EXCEPT !.entries = <<e>> \o @]
AnyEntry == [topic : Seq(Nat), data : Seq(Nat), qos : Nat]
Reading == [entries : Seq(AnyEntry), whole : BOOLEAN]

LEMMA OneMoreType ==
    ASSUME NEW e \in AnyEntry, NEW r \in Reading
    PROVE  OneMore(e, r) \in Reading /\ OneMore(e, r).entries = <<e>> \o r.entries
<1> DEFINE es == <<e>> \o r.entries
<1>1. r.entries \in Seq(AnyEntry) /\ r.whole \in BOOLEAN /\ r = [entries |-> r.entries, whole |-> r.whole]
    BY DEF Reading
<1>2. <<e>> \in Seq(AnyEntry)
    OBVIOUS
<1>3. es \in Seq(AnyEntry)
    BY <1>1, <1>2, ConcatProperties
<1>4. OneMore(e, r) = [r EXCEPT !.entries = es]
    BY DEF OneMore
<1> HIDE DEF es
<1>5. [r EXCEPT !.entries = es] = [entries |-> es, whole |-> r.whole]
    BY <1>1
<1>6. [entries |-> es, whole |-> r.whole] \in Reading
    BY <1>1, <1>3 DEF Reading
<1> QED BY <1>4, <1>5, <1>6 DEF es

LEMMA EntryAtType ==
    ASSUME image \in Seq(Nat), NEW p \in Nat \ {0}, ~Stops(p)
    PROVE  EntryAt(p) \in AnyEntry /\ QosAt(p) \in p..Len(image)
<1> DEFINE N == Len(image)
           l == Behind(p)
           q == QosAt(p)
<1>1. N \in Nat /\ p <= N /\ l \in Nat \ {0} /\ p < l /\ l <= N /\ q <= N
    <2>1. N \in Nat
        BY LenProperties
    <2>2. l \in Nat \ {0} /\ p <= N
        BY <2>1, BehindIs DEF Stops, Ends
    <2>3. l <= N /\ p < l
        BY <2>1, <2>2, BehindIs DEF Stops, Breaks
    <2>4. image[l] \in Nat /\ (l < N => image[l + 1] \in Nat)
        BY <2>1, <2>2, <2>3, ElementOfSeq
    <2>5. q \in Nat
        <3>1. DataLen(l) \in Nat
            BY <2>2, <2>3, <2>4, LengthOfBytes DEF DataLen
        <3> QED BY <2>2, <3>1 DEF QosAt
    <2> HIDE DEF q, l, N
    <2>6. ~(q > N)
        BY DEF Stops, Breaks, q, N
    <2> QED BY <2>1, <2>2, <2>3, <2>5, <2>6
<1>2. q \in Nat /\ l + 2 <= q
    <2>1. image[l] \in Nat /\ (l < N => image[l + 1] \in Nat)
        BY <1>1, ElementOfSeq
    <2>2. DataLen(l) \in Nat
        BY <1>1, <2>1, LengthOfBytes DEF DataLen
    <2> QED BY <1>1, <2>2 DEF QosAt
<1> HIDE DEF q, l
<1>3. \A a, b \in 1..N : SubSeq(image, a, b) \in Seq(Nat)
    BY <1>1, SubSeqProperties
<1>4. SubSeq(image, p, l - 2) \in Seq(Nat)
    <2>1. CASE l - 2 \in 1..N
        BY <1>1, <1>3, <2>1
    <2>2. CASE l - 2 < p
        BY <1>1, <2>2, SubSeqProperties
    <2> QED BY <1>1, <2>1, <2>2
<1>5. SubSeq(image, l + 2, q - 1) \in Seq(Nat)
    <2>1. CASE l + 2 <= q - 1
        BY <1>1, <1>2, <1>3, <2>1
    <2>2. CASE q - 1 < l + 2
        BY <1>1, <1>2, <2>2, SubSeqProperties
    <2> QED BY <1>1, <1>2, <2>1, <2>2
<1>6. image[q] \in Nat
    BY <1>1, <1>2, ElementOfSeq
<1>7. EntryAt(p) \in AnyEntry
    BY <1>4, <1>5, <1>6 DEF EntryAt, AnyEntry, q, l
<1>8. q \in p..N
    BY <1>1, <1>2
<1> QED BY <1>7, <1>8 DEF q

\* What is read from p on.
LEMMA ReadFromIs ==
    ASSUME image \in Seq(Nat)
    PROVE  \A p \in Nat \ {0} :
              /\ Ends(p) => ReadFrom[p] = NoMore(TRUE)
              /\ Stops(p) /\ ~Ends(p) => ReadFrom[p] = NoMore(FALSE)
              /\ ~Stops(p) => ReadFrom[p] = OneMore(EntryAt(p), ReadFrom[QosAt(p) + 1])
<1> DEFINE N == Len(image)
           D == Nat \ {0}
           stop == {p \in D : Stops(p)}
           base == [p \in D |-> NoMore(Ends(p))]
           next == [p \in D |-> IF p \in stop THEN p ELSE QosAt(p) + 1]
           rank == [p \in D |-> IF p > N THEN 0 ELSE N + 1 - p]
           step == [x \in D \X Reading |->
                       IF x[1] \in stop THEN x[2] ELSE OneMore(EntryAt(x[1]), x[2])]
           Equation(f) == [p \in D |-> IF Ends(p) THEN NoMore(TRUE)
                                       ELSE IF Breaks(p) THEN NoMore(FALSE)
                                       ELSE OneMore(EntryAt(p), f[QosAt(p) + 1])]
<1>1. N \in Nat
    BY LenProperties
<1>2. \A p \in D : p \notin stop =>
         EntryAt(p) \in AnyEntry /\ QosAt(p) \in p..N
    BY EntryAtType
<1> HIDE DEF N
<1>3. base \in [D -> Reading]
    <2>1. ASSUME NEW p \in D PROVE NoMore(Ends(p)) \in Reading
        <3>1. Ends(p) \in BOOLEAN
            BY Zenon DEF Ends
        <3>2. <<>> \in Seq(AnyEntry)
            OBVIOUS
        <3>3. \A w \in BOOLEAN : [entries |-> <<>>, whole |-> w] \in Reading
            BY <3>2 DEF Reading
        <3> QED BY <3>1, <3>3, Zenon DEF NoMore
    <2> QED BY <2>1
<1>4. next \in [D -> D]
    <2> HIDE DEF stop
    <2> QED BY <1>2
<1>5. rank \in [D -> 0..N + 1]
    BY <1>1
<1>6. step \in [D \X Reading -> Reading]
    <2>1. ASSUME NEW x \in D \X Reading
          PROVE  (IF x[1] \in stop THEN x[2] ELSE OneMore(EntryAt(x[1]), x[2])) \in Reading
        <3>1. x[1] \in D /\ x[2] \in Reading
            OBVIOUS
        <3> HIDE DEF stop
        <3> QED BY <1>2, <3>1, OneMoreType
    <2> QED BY <2>1
<1>7. \A p \in D : p \notin stop => rank[next[p]] < rank[p]
    <2> TAKE p \in D
    <2> HIDE DEF stop
    <2> HAVE p \notin stop
    <2>1. QosAt(p) \in p..N /\ next[p] = QosAt(p) + 1
        BY <1>2
    <2>2. p <= N /\ next[p] \in D /\ next[p] > p
        BY <1>1, <2>1
    <2> HIDE DEF next
    <2> QED BY <1>1, <2>2
<1>8. PICK f : Solution(D, Reading, stop, base, next, step, f)
    <2>1. IsRecursion(D, Reading, N + 1, rank, stop, base, next, step)
        <3>1. N + 1 \in Nat
            BY <1>1
        <3> HIDE DEF D, stop, base, next, rank, step
        <3> QED BY <1>3, <1>4, <1>5, <1>6, <1>7, <3>1 DEF IsRecursion
    <2> HIDE DEF D, stop, base, next, rank, step
    <2> QED BY <2>1, Recursion
<1>9. f = Equation(f)
    <2>1. ASSUME NEW p \in D
          PROVE  f[p] = IF Ends(p) THEN NoMore(TRUE)
                        ELSE IF Breaks(p) THEN NoMore(FALSE)
                        ELSE OneMore(EntryAt(p), f[QosAt(p) + 1])
        <3>1. CASE p \in stop
            <4>1. f[p] = base[p]
                BY <1>8, <3>1, Zenon DEF Solution
            <4>2. f[p] = NoMore(Ends(p))
                BY <4>1
            <4>3. CASE Ends(p)
                <5>1. Ends(p) = TRUE
                    BY <4>3, Zenon DEF Ends
                <5>2. f[p] = NoMore(TRUE)
                    BY <4>2, <5>1, Zenon
                <5> QED BY <4>3, <5>2
            <4>4. CASE ~Ends(p)
                <5>1. Ends(p) = FALSE
                    BY <4>4, Zenon DEF Ends
                <5>2. f[p] = NoMore(FALSE)
                    BY <4>2, <5>1, Zenon
                <5>3. Breaks(p)
                    BY <3>1, <4>4 DEF Stops
                <5> QED BY <4>4, <5>2, <5>3
            <4> QED BY <4>3, <4>4
        <3>2. CASE p \notin stop
            <4>1. f[p] = step[<<p, f[next[p]]>>]
                BY <1>8, <3>2, Zenon DEF Solution
            <4>2. next[p] = QosAt(p) + 1 /\ next[p] \in D
                BY <1>4, <3>2
            <4>3. f[next[p]] \in Reading
                <5> HIDE DEF next, D
                <5> QED BY <1>8, <4>2 DEF Solution
            <4>4. f[p] = OneMore(EntryAt(p), f[next[p]])
                <5> HIDE DEF stop
                <5> QED BY <3>2, <4>1, <4>3
            <4>5. ~Ends(p) /\ ~Breaks(p)
                BY <3>2 DEF Stops
            <4> HIDE DEF next
            <4> QED BY <4>2, <4>4, <4>5
        <3> QED BY <3>1, <3>2
    <2>2. f \in [D -> Reading]
        BY <1>8 DEF Solution
    <2> HIDE DEF D
    <2> QED BY <2>1, <2>2
<1>10. ReadFrom = Equation(ReadFrom)
    BY <1>9 DEF ReadFrom, Ends, Breaks, NoMore, OneMore, EntryAt, QosAt
<1>11. \A p \in D : /\ Ends(p) => ReadFrom[p] = NoMore(TRUE)
                    /\ Stops(p) /\ ~Ends(p) => ReadFrom[p] = NoMore(FALSE)
                    /\ ~Stops(p) => ReadFrom[p] = OneMore(EntryAt(p), ReadFrom[QosAt(p) + 1])
    BY <1>10 DEF Stops
<1> QED BY <1>11

\* The image is what was written for l, or a beginning of that.
Written(l) == IF Serialized(l) = <<>> THEN <<0>> ELSE Serialized(l)
Holds(l) ==
    /\ image \in Seq(Nat) /\ Len(image) <= Len(Written(l))
    /\ \A j \in 1..Len(image) : image[j] = Written(l)[j]

\* The offsets grow.
LEMMA OffsetsGrow ==
    ASSUME NEW l \in ListType, NEW off, IsLayout(off, l)
    PROVE  \A i \in 0..MaxEntry : off[i] <= off[MaxEntry]
<1> DEFINE P == {k \in 0..MaxEntry : off[MaxEntry - k] <= off[MaxEntry]}
<1>1. MaxEntry \in Nat /\ off \in [0..MaxEntry -> Nat]
    BY EntriesAssumption DEF IsLayout
<1>2. 0 \in P
    BY <1>1
<1>3. ASSUME NEW k \in 1..MaxEntry, k - 1 \in P PROVE k \in P
    <2> DEFINE j == MaxEntry - (k - 1)
    <2>1. j \in Entries /\ j - 1 = MaxEntry - k /\ k \in 0..MaxEntry /\ j \in 0..MaxEntry
          /\ j - 1 \in 0..MaxEntry
        BY <1>1 DEF Entries
    <2>2. off[j - 1] <= off[j]
        <3>1. CASE l[j].topic = NULL
            <4>1. off[j] = off[j - 1]
                BY <2>1, <3>1 DEF IsLayout
            <4>2. off[j] \in Nat
                BY <1>1, <2>1
            <4> HIDE DEF j
            <4> QED BY <4>1, <4>2
        <3>2. CASE l[j].topic # NULL
            <4>1. off[j] = off[j - 1] + Len(Entry(l[j])) /\ l[j] \in EntryType
                BY <2>1, <3>2 DEF IsLayout
            <4>2. Len(Entry(l[j])) \in Nat
                BY <4>1, EntryBytes DEF IsEntry
            <4>3. off[j - 1] \in Nat /\ off[j] \in Nat
                BY <1>1, <2>1
            <4> HIDE DEF j
            <4> QED BY <4>1, <4>2, <4>3
        <3> QED BY <3>1, <3>2
    <2>3. off[j] <= off[MaxEntry]
        BY <1>3
    <2>4. off[j - 1] \in Nat /\ off[j] \in Nat /\ off[MaxEntry] \in Nat
        BY <1>1, <2>1
    <2>5. off[j - 1] <= off[MaxEntry]
        <3> HIDE DEF j
        <3> QED BY <2>2, <2>3, <2>4
    <2> QED BY <2>1, <2>5
<1>4. \A k \in 0..MaxEntry : k \in P
    <2> HIDE DEF P
    <2> QED BY <1>1, <1>2, <1>3, InductionTo
<1>5. ASSUME NEW i \in 0..MaxEntry PROVE off[i] <= off[MaxEntry]
    <2>1. MaxEntry - i \in P
        <3>1. MaxEntry - i \in 0..MaxEntry
            BY <1>1
        <3> HIDE DEF P
        <3> QED BY <1>4, <3>1
    <2>2. MaxEntry - (MaxEntry - i) = i
        BY <1>1
    <2> QED BY <2>1, <2>2
<1> QED BY <1>5

\* At the place of an entry that entry is read, unless the image is cut off before its end
\* or its topic is empty.
LEMMA ReadEntry ==
    ASSUME NEW l \in ListType, NEW off, IsLayout(off, l), Holds(l),
           NEW i \in Entries, l[i].topic # NULL, NEW p, p = off[i - 1] + 1
    PROVE  /\ p \in Nat \ {0}
           /\ \/ Stops(p) /\ (l[i].topic = <<>> \/ Len(image) < off[i])
              \/ ~Stops(p) /\ EntryAt(p) = l[i] /\ QosAt(p) = off[i]
<1> DEFINE N == Len(image)
           e == l[i]
           o == off[i - 1]
           a == Len(e.topic)
           b == Len(e.data)
           s == Entry(e)
<1>1. o \in Nat /\ off[i] \in Nat /\ N \in Nat /\ off[i] = o + Len(s) /\ e \in EntryType
      /\ off[MaxEntry] \in Nat /\ off[i] <= off[MaxEntry]
    <2>1. MaxEntry \in Nat /\ i - 1 \in 0..MaxEntry /\ i \in 0..MaxEntry /\ MaxEntry \in 0..MaxEntry
        BY EntriesAssumption DEF Entries
    <2>2. N \in Nat
        BY LenProperties DEF Holds
    <2>3. off[i] <= off[MaxEntry]
        BY <2>1, OffsetsGrow
    <2> QED BY <2>1, <2>2, <2>3 DEF IsLayout
<1>2. IsEntry(s, e, a, b)
    BY <1>1, EntryBytes
<1>3. a \in Nat /\ b \in Nat /\ Len(s) = a + b + 4 /\ e.topic \in Seq(Nat \ {0}) /\ e.data \in Seq(Nat)
    BY <1>1, <1>2, BytesAssumption DEF IsEntry, EntryType
<1>4. \A j \in 1..Len(s) : o + j <= N => image[o + j] = s[j]
    <2> TAKE j \in 1..Len(s)
    <2> HAVE o + j <= N
    <2>1. Serialized(l)[o + j] = s[j]
        BY DEF IsLayout
    <2>2. Serialized(l) # <<>>
        <3>0. Len(s) > 0
            <4> HIDE DEF s, a, b
            <4> QED BY <1>3
        <3>1. Len(Serialized(l)) = off[MaxEntry] /\ Len(s) > 0
            BY <3>0 DEF IsLayout
        <3>2. Len(Serialized(l)) > 0
            <4> HIDE DEF s, o
            <4> QED BY <1>1, <3>1
        <3> QED BY <3>2
    <2>3. o + j \in 1..N
        BY <1>1, <1>3
    <2> QED BY <2>1, <2>2, <2>3 DEF Holds, Written
<1> HIDE DEF s, o, e, N
<1>5. /\ \A j \in 1..a : o + j <= N => image[o + j] = e.topic[j]
      /\ o + a + 1 <= N => image[o + a + 1] = 0
      /\ o + a + 2 <= N => image[o + a + 2] = b % Radix
      /\ o + a + 3 <= N => image[o + a + 3] = b \div Radix
      /\ \A j \in 1..b : o + a + 3 + j <= N => image[o + a + 3 + j] = e.data[j]
      /\ o + a + b + 4 <= N => image[o + a + b + 4] = e.qos
    <2> DEFINE t == e.topic
               d == e.data
               q == e.qos
               low == b % Radix
               high == b \div Radix
    <2>1. /\ \A j \in 1..a : s[j] = t[j]
          /\ s[a + 1] = 0 /\ s[a + 2] = low /\ s[a + 3] = high
          /\ \A j \in 1..b : s[a + 3 + j] = d[j]
          /\ s[a + b + 4] = q
        BY <1>2 DEF IsEntry
    <2> HIDE DEF a, b, t, d, q, low, high
    <2>2. \A j \in 1..a + b + 4 : o + j <= N => image[o + j] = s[j]
        BY <1>3, <1>4
    <2>3. ASSUME NEW x \in 1..a + b + 4, NEW y, y = o + x PROVE y <= N => image[y] = s[x]
        BY <2>2, <2>3
    <2>4. a + 1 \in 1..a + b + 4 /\ a + 2 \in 1..a + b + 4 /\ a + 3 \in 1..a + b + 4
          /\ a + b + 4 \in 1..a + b + 4
          /\ o + a + 1 = o + (a + 1) /\ o + a + 2 = o + (a + 2) /\ o + a + 3 = o + (a + 3)
          /\ o + a + b + 4 = o + (a + b + 4)
        BY <1>1, <1>3
    <2>5. \A j \in 1..a : j \in 1..a + b + 4
        BY <1>3
    <2>6. \A j \in 1..b : a + 3 + j \in 1..a + b + 4 /\ o + a + 3 + j = o + (a + 3 + j)
        BY <1>1, <1>3
    <2>7. \A j \in 1..a : o + j <= N => image[o + j] = t[j]
        BY <2>1, <2>3, <2>5
    <2>8. \A j \in 1..b : o + a + 3 + j <= N => image[o + a + 3 + j] = d[j]
        BY <2>1, <2>3, <2>6
    <2>9. /\ o + a + 1 <= N => image[o + a + 1] = 0
          /\ o + a + 2 <= N => image[o + a + 2] = low
          /\ o + a + 3 <= N => image[o + a + 3] = high
          /\ o + a + b + 4 <= N => image[o + a + b + 4] = q
        BY <2>1, <2>3, <2>4
    <2> QED BY <2>7, <2>8, <2>9 DEF a, b, t, d, q, low, high
<1>6. p = o + 1 /\ p \in Nat \ {0} /\ off[i] = o + a + b + 4 /\ image \in Seq(Nat)
    <2>1. p = o + 1
        BY DEF o
    <2>2. image \in Seq(Nat)
        BY DEF Holds
    <2> HIDE DEF a, b
    <2> QED BY <1>1, <1>3, <2>1, <2>2
<1>7. \A j \in 1..a : e.topic[j] # 0
    BY <1>3, ElementOfSeq
<1>8. CASE a = 0
    <2>1. e.topic = <<>>
        BY <1>3, <1>8
    <2>2. Ends(p)
        <3> HIDE DEF a
        <3> QED BY <1>1, <1>5, <1>6, <1>8 DEF Ends, N
    <2> QED BY <1>6, <2>1, <2>2 DEF e, Stops
<1>9. CASE p > N
    <2>1. Ends(p)
        BY <1>9 DEF Ends, N
    <2>2. N < off[i]
        <3> HIDE DEF a, b
        <3> QED BY <1>1, <1>3, <1>6, <1>9
    <2> QED BY <1>6, <2>1, <2>2 DEF Stops, N
<1>10. CASE a # 0 /\ p <= N
    <2> HIDE DEF a, b
    <2>1. ~Ends(p)
        <3>1. image[o + 1] # 0
            <4>1. 1 \in 1..a /\ o + 1 <= N
                BY <1>3, <1>6, <1>10
            <4> QED BY <1>5, <1>7, <4>1
        <3> QED BY <1>6, <1>10, <3>1 DEF Ends, N
    <2>2. \A j \in p..N : j <= o + a => image[j] # 0
        <3> TAKE j \in p..N
        <3> HAVE j <= o + a
        <3>1. j - o \in 1..a /\ o + (j - o) = j /\ j <= N
            BY <1>1, <1>3, <1>6
        <3> QED BY <1>5, <1>7, <3>1
    <2>3. CASE N < o + a + 1
        <3>1. \A j \in p..N : image[j] # 0
            BY <1>1, <1>3, <1>6, <2>2, <2>3
        <3>2. Behind(p) = N + 2
            BY <1>6, <3>1, BehindIs DEF N
        <3>3. Breaks(p)
            BY <1>1, <3>2 DEF Breaks, N
        <3>4. N < off[i]
            BY <1>1, <1>3, <1>6, <2>3
        <3> QED BY <1>6, <3>3, <3>4 DEF Stops, N
    <2>4. CASE N >= o + a + 1
        <3>1. Behind(p) = o + a + 2
            <4> DEFINE z == o + a + 1
            <4>1. z \in p..N /\ z + 1 = o + a + 2
                BY <1>1, <1>3, <1>6, <2>4
            <4>2. image[z] = 0
                BY <1>5, <2>4
            <4>3. \A j \in p..z - 1 : image[j] # 0
                BY <1>1, <1>3, <1>6, <2>2, <2>4
            <4> HIDE DEF z
            <4> QED BY <1>6, <4>1, <4>2, <4>3, BehindIs DEF N
        <3> DEFINE v == Behind(p)
        <3>2. CASE N < o + a + 3
            <4>1. Breaks(p)
                <5>1. CASE N < v
                    BY <5>1, <1>1, <1>3, <3>1 DEF Breaks, N
                <5>2. CASE N = v
                    <6>1. image[v] \in Nat /\ DataLen(v) = image[v]
                        BY <1>1, <1>3, <1>6, <3>1, <5>2, ElementOfSeq, RadixAssumption DEF DataLen, N
                    <6>2. QosAt(p) > N
                        BY <1>1, <5>2, <6>1 DEF QosAt
                    <6> QED BY <6>2 DEF Breaks, N
                <5>3. v = o + a + 2
                    BY <3>1
                <5> HIDE DEF v
                <5>4. N < v \/ N = v
                    BY <1>1, <1>3, <3>2, <5>3
                <5> QED BY <5>1, <5>2, <5>4
            <4>2. N < off[i]
                BY <1>1, <1>3, <1>6, <3>2
            <4> QED BY <1>6, <4>1, <4>2 DEF Stops, N
        <3>3. CASE N >= o + a + 3
            <4>1. image[o + a + 2] = b % Radix /\ image[o + a + 3] = b \div Radix
                BY <1>1, <1>3, <1>5, <3>3
            <4>2. DataLen(v) = b
                <5>1. v < N /\ v = o + a + 2 /\ v + 1 = o + a + 3
                    BY <1>1, <1>3, <3>1, <3>3
                <5>2. DataLen(v) = (b % Radix) + Radix * (b \div Radix)
                    BY <4>1, <5>1 DEF DataLen, N
                <5> QED BY <1>3, <5>2, LengthBytes
            <4>3. QosAt(p) = o + a + b + 4
                BY <1>1, <1>3, <3>1, <4>2 DEF QosAt
            <4>4. CASE N < off[i]
                <5>1. Breaks(p)
                    BY <1>6, <4>3, <4>4 DEF Breaks, N
                <5> QED BY <1>6, <4>4, <5>1 DEF Stops, N
            <4>5. CASE N >= off[i]
                <5>1. ~Breaks(p)
                    BY <1>1, <1>3, <1>6, <3>1, <4>3, <4>5 DEF Breaks, N
                <5>2. SubSeq(image, p, v - 2) = e.topic
                    <6> DEFINE t == SubSeq(image, p, v - 2)
                    <6>1. v - 2 = o + a /\ p = o + 1 /\ v - 2 \in Int /\ p \in Int
                          /\ (v - 2) - p + 1 = a /\ o + a <= N
                        BY <1>1, <1>3, <1>6, <3>1, <2>4
                    <6>2. \A j \in p..v - 2 : image[j] \in Nat
                        <7>1. \A j \in p..v - 2 : j \in 1..N
                            BY <1>1, <1>3, <6>1
                        <7> QED BY <1>6, <7>1, ElementOfSeq DEF N
                    <6>3. t \in Seq(Nat) /\ Len(t) = a /\ \A j \in 1..a : t[j] = image[p + j - 1]
                        <7> DEFINE w == v - 2
                        <7>1. w \in Int /\ p \in Int /\ w - p + 1 = a /\ p <= w
                            BY <1>3, <1>10, <6>1
                        <7> HIDE DEF w
                        <7>2. \A j \in p..w : image[j] \in Nat
                            BY <6>2 DEF w
                        <7>3. /\ SubSeq(image, p, w) \in Seq(Nat)
                              /\ Len(SubSeq(image, p, w)) = w - p + 1
                              /\ \A j \in 1..w - p + 1 : SubSeq(image, p, w)[j] = image[p + j - 1]
                            BY <7>1, <7>2, SubSeqProperties
                        <7> QED BY <7>1, <7>3 DEF w
                    <6>4. \A j \in 1..a : p + j - 1 = o + j /\ o + j <= N
                        BY <1>1, <1>3, <6>1
                    <6>5. \A j \in 1..a : t[j] = e.topic[j]
                        BY <1>5, <6>3, <6>4
                    <6>6. e.topic \in Seq(Nat) /\ Len(e.topic) = a
                        BY <1>3 DEF a
                    <6> HIDE DEF t
                    <6> QED BY <6>3, <6>5, <6>6, SeqEqual DEF t
                <5>3. SubSeq(image, v + 2, QosAt(p) - 1) = e.data
                    <6> DEFINE x == v + 2
                               y == QosAt(p) - 1
                               t == SubSeq(image, x, y)
                    <6>1. x = o + a + 4 /\ y = o + a + 3 + b /\ x \in Int /\ y \in Int
                          /\ y - x + 1 = b /\ y <= N /\ (x <= y \/ b = 0)
                        <7>1. x = o + a + 4
                            BY <1>1, <1>3, <3>1
                        <7>2. y = o + a + 3 + b
                            BY <1>1, <1>3, <4>3
                        <7>3. o + a + b + 4 <= N
                            BY <1>6, <4>5
                        <7> HIDE DEF x, y
                        <7> QED BY <1>1, <1>3, <7>1, <7>2, <7>3
                    <6> HIDE DEF x, y
                    <6>2. \A j \in x..y : image[j] \in Nat
                        <7>1. \A j \in x..y : j \in 1..N
                            BY <1>1, <1>3, <6>1
                        <7> QED BY <1>6, <7>1, ElementOfSeq DEF N
                    <6>3. t \in Seq(Nat) /\ Len(t) = b /\ \A j \in 1..b : t[j] = image[x + j - 1]
                        BY <1>1, <1>3, <6>1, <6>2, SubSeqProperties
                    <6>4. \A j \in 1..b : x + j - 1 = o + a + 3 + j /\ o + a + 3 + j <= N
                        BY <1>1, <1>3, <6>1
                    <6>5. \A j \in 1..b : t[j] = e.data[j]
                        BY <1>5, <6>3, <6>4
                    <6>6. e.data \in Seq(Nat) /\ Len(e.data) = b
                        BY <1>3 DEF b
                    <6> HIDE DEF t
                    <6> QED BY <6>3, <6>5, <6>6, SeqEqual DEF t, x, y
                <5>4. image[QosAt(p)] = e.qos
                    BY <1>5, <1>6, <4>3, <4>5
                <5>5. EntryAt(p) = e
                    <6>1. e = [topic |-> e.topic, data |-> e.data, qos |-> e.qos]
                        BY <1>1 DEF EntryType
                    <6> QED BY <5>2, <5>3, <5>4, <6>1 DEF EntryAt
                <5> QED BY <1>6, <2>1, <4>3, <5>1, <5>5 DEF Stops, e
            <4> QED BY <1>1, <4>4, <4>5
        <3> QED BY <1>1, <1>3, <3>2, <3>3
    <2> QED BY <1>1, <1>3, <2>3, <2>4
<1> QED BY <1>1, <1>6, <1>8, <1>9, <1>10

\* Behind the last entry there is nothing to read.
LEMMA ReadEnd ==
    ASSUME NEW l \in ListType, NEW off, IsLayout(off, l), Holds(l), NEW p, p = off[MaxEntry] + 1
    PROVE  p \in Nat \ {0} /\ Ends(p)
<1>1. MaxEntry \in 0..MaxEntry
    BY EntriesAssumption
<1>2. off[MaxEntry] \in Nat /\ p \in Nat \ {0} /\ Len(image) \in Nat
    BY <1>1, LenProperties DEF IsLayout, Holds
<1>3. CASE Serialized(l) # <<>>
    <2>1. Len(image) <= off[MaxEntry]
        BY <1>3 DEF IsLayout, Holds, Written
    <2> QED BY <1>2, <2>1 DEF Ends
<1>4. CASE Serialized(l) = <<>>
    <2>1. p = 1
        <3>1. off[MaxEntry] = 0
            BY <1>4 DEF IsLayout
        <3> QED BY <3>1
    <2>2. Written(l) = <<0>>
        BY <1>4 DEF Written
    <2>3. 1 <= Len(image) => image[1] = 0
        BY <1>2, <2>2 DEF Holds
    <2> QED BY <1>2, <2>1, <2>3 DEF Ends
<1> QED BY <1>3, <1>4

\* es are entries of l behind the i-th; all of them, if the image is whole.
AreEntries(es, l, i) ==
    /\ es \in Seq(AnyEntry) /\ Len(es) <= MaxEntry - i
    /\ \A k \in 1..Len(es) : \E j \in i + 1..MaxEntry : l[j].topic # NULL /\ es[k] = l[j]
AreAll(es, l, i) ==
    \A j \in i + 1..MaxEntry : l[j].topic # NULL => \E k \in 1..Len(es) : es[k] = l[j]

LEMMA NoEntries ==
    ASSUME NEW l, NEW i \in 0..MaxEntry
    PROVE  AreEntries(<<>>, l, i)
BY EntriesAssumption DEF AreEntries

\* One entry more.
LEMMA EntriesMore ==
    ASSUME NEW l, NEW i \in Entries, l[i].topic # NULL, l[i] \in AnyEntry,
           NEW es, AreEntries(es, l, i), NEW fs, fs = <<l[i]>> \o es
    PROVE  AreEntries(fs, l, i - 1) /\ (AreAll(es, l, i) => AreAll(fs, l, i - 1))
<1> DEFINE e == l[i]
<1>1. MaxEntry \in Nat /\ i \in 1..MaxEntry
    BY EntriesAssumption DEF Entries
<1>2. es \in Seq(AnyEntry) /\ Len(es) \in Nat /\ Len(es) <= MaxEntry - i
    BY LenProperties DEF AreEntries
<1>3. /\ fs \in Seq(AnyEntry) /\ Len(fs) = 1 + Len(es) /\ fs[1] = e
      /\ \A k \in 1..Len(es) : fs[k + 1] = es[k]
    <2>1. e \in AnyEntry
        OBVIOUS
    <2> HIDE DEF e
    <2>2. <<e>> \in Seq(AnyEntry) /\ Len(<<e>>) = 1 /\ <<e>>[1] = e
        BY <2>1
    <2>3. fs = <<e>> \o es
        BY DEF e
    <2>4. /\ fs \in Seq(AnyEntry) /\ Len(fs) = 1 + Len(es)
          /\ \A k \in 1..1 + Len(es) : fs[k] = IF k <= 1 THEN <<e>>[k] ELSE es[k - 1]
        BY <1>2, <2>2, <2>3, ConcatProperties
    <2>5. \A k \in 1..Len(es) : k + 1 \in 1..1 + Len(es) /\ ~(k + 1 <= 1) /\ (k + 1) - 1 = k
        BY <1>2
    <2>6. 1 \in 1..1 + Len(es)
        BY <1>2
    <2> QED BY <2>2, <2>4, <2>5, <2>6
<1> HIDE DEF e
<1>4. ASSUME NEW k \in 1..Len(fs)
      PROVE  \E j \in (i - 1) + 1..MaxEntry : l[j].topic # NULL /\ fs[k] = l[j]
    <2>1. CASE k = 1
        <3>1. i \in (i - 1) + 1..MaxEntry
            BY <1>1
        <3> QED BY <1>3, <2>1, <3>1 DEF e
    <2>2. CASE k # 1
        <3>1. k - 1 \in 1..Len(es) /\ fs[k] = es[k - 1]
            BY <1>2, <1>3, <2>2
        <3>2. PICK j \in i + 1..MaxEntry : l[j].topic # NULL /\ es[k - 1] = l[j]
            BY <3>1 DEF AreEntries
        <3>3. j \in (i - 1) + 1..MaxEntry
            BY <1>1
        <3> QED BY <3>1, <3>2, <3>3
    <2> QED BY <2>1, <2>2
<1>5. AreEntries(fs, l, i - 1)
    <2>1. Len(fs) <= MaxEntry - (i - 1)
        BY <1>1, <1>2, <1>3
    <2> QED BY <1>3, <1>4, <2>1 DEF AreEntries
<1>6. ASSUME AreAll(es, l, i), NEW j \in (i - 1) + 1..MaxEntry, l[j].topic # NULL
      PROVE  \E k \in 1..Len(fs) : fs[k] = l[j]
    <2>1. CASE j = i
        <3>1. 1 \in 1..Len(fs) /\ fs[1] = l[j]
            BY <1>2, <1>3, <2>1 DEF e
        <3> QED BY <3>1
    <2>2. CASE j # i
        <3>1. j \in i + 1..MaxEntry
            BY <1>1, <2>2
        <3>2. PICK k \in 1..Len(es) : es[k] = l[j]
            BY <1>6, <3>1 DEF AreAll
        <3>3. k + 1 \in 1..Len(fs) /\ fs[k + 1] = l[j]
            BY <1>2, <1>3, <3>2
        <3> QED BY <3>3
    <2> QED BY <2>1, <2>2
<1>7. AreAll(es, l, i) => AreAll(fs, l, i - 1)
    BY <1>6 DEF AreAll
<1> QED BY <1>5, <1>7

\* What is read from the place behind the i-th entry: entries of the list the image was
\* made from; all of them, if it is whole and no topic is empty.
LEMMA ReadAll ==
    ASSUME NEW l \in ListType, NEW off, IsLayout(off, l), Holds(l), NEW i \in 0..MaxEntry
    PROVE  /\ AreEntries(ReadFrom[off[i] + 1].entries, l, i)
           /\ (<<>> \notin Topic /\ off[MaxEntry] <= Len(image)) =>
                 AreAll(ReadFrom[off[i] + 1].entries, l, i)
<1> DEFINE r(j) == ReadFrom[off[j] + 1]
           Q(j) == /\ r(j) \in Reading /\ AreEntries(r(j).entries, l, j)
                   /\ (<<>> \notin Topic /\ off[MaxEntry] <= Len(image)) => AreAll(r(j).entries, l, j)
           P == {k \in 0..MaxEntry : Q(MaxEntry - k)}
<1>1. MaxEntry \in Nat /\ image \in Seq(Nat) /\ Len(image) \in Nat
    BY EntriesAssumption, LenProperties DEF Holds
<1>2. \A w \in BOOLEAN : NoMore(w) \in Reading /\ NoMore(w).entries = <<>>
    <2>1. <<>> \in Seq(AnyEntry)
        OBVIOUS
    <2> QED BY <2>1 DEF NoMore, Reading
<1>3. ASSUME NEW j \in 0..MaxEntry, Stops(off[j] + 1), off[j] + 1 \in Nat \ {0}
      PROVE  r(j) \in Reading /\ r(j).entries = <<>>
    <2>1. r(j) = NoMore(TRUE) \/ r(j) = NoMore(FALSE)
        BY <1>1, <1>3, ReadFromIs
    <2> QED BY <1>2, <2>1
<1>4. 0 \in P
    <2>1. off[MaxEntry] + 1 \in Nat \ {0} /\ Stops(off[MaxEntry] + 1) /\ MaxEntry \in 0..MaxEntry
        BY <1>1, ReadEnd DEF Stops
    <2>2. r(MaxEntry) \in Reading /\ r(MaxEntry).entries = <<>>
        BY <1>3, <2>1
    <2>3. AreEntries(<<>>, l, MaxEntry)
        BY <2>1, NoEntries
    <2>4. AreAll(<<>>, l, MaxEntry)
        BY <1>1 DEF AreAll
    <2> HIDE DEF r
    <2>5. Q(MaxEntry)
        BY <2>2, <2>3, <2>4
    <2> HIDE DEF Q
    <2>6. MaxEntry - 0 = MaxEntry /\ 0 \in 0..MaxEntry
        BY <1>1
    <2> QED BY <2>5, <2>6
<1>5. ASSUME NEW j \in Entries, Q(j) PROVE Q(j - 1)
    <2>0. j \in 0..MaxEntry /\ j - 1 \in 0..MaxEntry
        BY <1>1 DEF Entries
    <2> DEFINE p == off[j - 1] + 1
    <2>1. CASE l[j].topic = NULL
        <3>1. off[j] = off[j - 1]
            BY <2>1 DEF IsLayout
        <3>2. r(j) = r(j - 1)
            BY <3>1
        <3> DEFINE es == r(j).entries
        <3>3. AreEntries(es, l, j) /\ r(j) \in Reading
            BY <1>5
        <3>4. (<<>> \notin Topic /\ off[MaxEntry] <= Len(image)) => AreAll(es, l, j)
            BY <1>5
        <3> HIDE DEF r, es
        <3>5. AreEntries(es, l, j - 1)
            <4>1. es \in Seq(AnyEntry) /\ Len(es) \in Nat /\ Len(es) <= MaxEntry - j
                BY <3>3, LenProperties DEF AreEntries
            <4>2. Len(es) <= MaxEntry - (j - 1)
                BY <1>1, <2>0, <4>1
            <4>3. \A k \in j + 1..MaxEntry : k \in (j - 1) + 1..MaxEntry
                BY <1>1, <2>0
            <4> QED BY <3>3, <4>1, <4>2, <4>3 DEF AreEntries
        <3>6. AreAll(es, l, j) => AreAll(es, l, j - 1)
            <4>1. \A k \in (j - 1) + 1..MaxEntry : k = j \/ k \in j + 1..MaxEntry
                BY <1>1, <2>0
            <4> QED BY <2>1, <4>1 DEF AreAll
        <3> QED BY <3>2, <3>3, <3>4, <3>5, <3>6 DEF es
    <2>2. CASE l[j].topic # NULL
        <3>1. /\ p \in Nat \ {0}
              /\ \/ Stops(p) /\ (l[j].topic = <<>> \/ Len(image) < off[j])
                 \/ ~Stops(p) /\ EntryAt(p) = l[j] /\ QosAt(p) = off[j]
            BY <2>2, ReadEntry
        <3>2. CASE Stops(p) /\ (l[j].topic = <<>> \/ Len(image) < off[j])
            <4>1. r(j - 1) \in Reading /\ r(j - 1).entries = <<>>
                BY <1>3, <2>0, <3>1, <3>2
            <4>2. ~(<<>> \notin Topic /\ off[MaxEntry] <= Len(image))
                <5>1. CASE l[j].topic = <<>>
                    BY <2>2, <5>1, PlaceType
                <5>2. CASE Len(image) < off[j]
                    <6>1. off[j] <= off[MaxEntry]
                        BY <2>0, OffsetsGrow
                    <6>2. off[j] \in Nat /\ off[MaxEntry] \in Nat
                        <7>1. MaxEntry \in 0..MaxEntry
                            BY <1>1
                        <7> QED BY <2>0, <7>1 DEF IsLayout
                    <6> QED BY <1>1, <5>2, <6>1, <6>2
                <5> QED BY <3>2, <5>1, <5>2
            <4>3. AreEntries(<<>>, l, j - 1)
                BY <2>0, NoEntries
            <4> HIDE DEF r
            <4> QED BY <4>1, <4>2, <4>3
        <3>3. CASE ~Stops(p) /\ EntryAt(p) = l[j] /\ QosAt(p) = off[j]
            <4> DEFINE es == r(j).entries
            <4>1. r(j - 1) = OneMore(l[j], r(j))
                BY <1>1, <3>1, <3>3, ReadFromIs
            <4>2. l[j] \in AnyEntry
                BY <1>1, <3>1, <3>3, EntryAtType
            <4>3. r(j) \in Reading /\ AreEntries(es, l, j)
                BY <1>5
            <4>4. (<<>> \notin Topic /\ off[MaxEntry] <= Len(image)) => AreAll(es, l, j)
                BY <1>5
            <4> HIDE DEF r
            <4>5. r(j - 1) \in Reading /\ r(j - 1).entries = <<l[j]>> \o es
                BY <4>1, <4>2, <4>3, OneMoreType
            <4> HIDE DEF es
            <4>6. AreEntries(r(j - 1).entries, l, j - 1)
                  /\ (AreAll(es, l, j) => AreAll(r(j - 1).entries, l, j - 1))
                BY <2>2, <4>2, <4>3, <4>5, EntriesMore
            <4> QED BY <4>4, <4>5, <4>6
        <3> QED BY <3>1, <3>2, <3>3
    <2> QED BY <2>1, <2>2
<1> HIDE DEF Q
<1>6. ASSUME NEW k \in 1..MaxEntry, k - 1 \in P PROVE k \in P
    <2> DEFINE j == MaxEntry - (k - 1)
    <2>1. j \in Entries /\ j - 1 = MaxEntry - k /\ k \in 0..MaxEntry
        BY <1>1 DEF Entries
    <2>2. Q(j)
        BY <1>6
    <2> HIDE DEF j
    <2>3. Q(j - 1)
        BY <1>5, <2>1, <2>2
    <2> QED BY <2>1, <2>3
<1>7. MaxEntry - i \in P
    <2>1. MaxEntry - i \in 0..MaxEntry
        BY <1>1
    <2> HIDE DEF P
    <2> QED BY <1>1, <1>4, <1>6, <2>1, InductionTo
<1>8. Q(i)
    <2>1. MaxEntry - (MaxEntry - i) = i
        BY <1>1
    <2> QED BY <1>7, <2>1
<1> QED BY <1>8 DEF Q

-----------------------------------------------------------------------------
(* deserialize_retainedtopics: the entries are put into the list *)

RestoreStep(es, fail, n, m) ==
    IF ~m.ok THEN m
    ELSE update_retainedtopic(m, es[n].topic, es[n].data, es[n].qos,
                              IF n = fail.at THEN fail.what ELSE "none")
\* f[n] is the list when n of es are in it.
IsRestoring(f, es, fail) ==
    /\ f[0] = Memory
    /\ \A n \in 1..Len(es) : f[n] = RestoreStep(es, fail, n, f[n - 1])

\* That entry's topic, data and qos can be put into a list.
Storable(e) == e.topic \in Topic /\ e.data \in Data \cup {<<>>} /\ e.qos \in Qos

LEMMA RestoredIs ==
    ASSUME Memory \in MemoryType, NEW N \in Nat, NEW es, Len(es) = N,
           \A n \in 1..N : Storable(es[n]), NEW fail, fail.what \in Fails
    PROVE  \E f : /\ IsRestoring(f, es, fail) /\ f \in [0..N -> MemoryType]
                  /\ Restored(es, fail) = f[N]
<1> DEFINE D == 0..N
           Equation(f) == [n \in D |-> IF n = 0 THEN Memory ELSE RestoreStep(es, fail, n, f[n - 1])]
           step == [x \in D \X MemoryType |->
                       IF x[1] = 0 THEN x[2] ELSE RestoreStep(es, fail, x[1], x[2])]
           rank == [n \in D |-> n]
           next == [n \in D |-> IF n = 0 THEN 0 ELSE n - 1]
           base == [n \in D |-> Memory]
           stop == {0}
           g == CHOOSE f : f = Equation(f)
<1>1. step \in [D \X MemoryType -> MemoryType]
    <2>1. ASSUME NEW n \in 1..N, NEW m \in MemoryType PROVE RestoreStep(es, fail, n, m) \in MemoryType
        <3>1. CASE ~m.ok
            BY <3>1 DEF RestoreStep
        <3>2. CASE m.ok
            <4> DEFINE w == IF n = fail.at THEN fail.what ELSE "none"
            <4>1. w \in Fails /\ Storable(es[n])
                BY DEF Fails
            <4>2. RestoreStep(es, fail, n, m) =
                     update_retainedtopic(m, es[n].topic, es[n].data, es[n].qos, w)
                BY <3>2 DEF RestoreStep
            <4> HIDE DEF w
            <4> QED BY <4>1, <4>2, UpdateMemory DEF Storable
        <3> QED BY <3>1, <3>2
    <2>2. ASSUME NEW x \in D \X MemoryType
          PROVE  (IF x[1] = 0 THEN x[2] ELSE RestoreStep(es, fail, x[1], x[2])) \in MemoryType
        <3>1. x[2] \in MemoryType /\ (x[1] = 0 \/ x[1] \in 1..N)
            OBVIOUS
        <3> QED BY <2>1, <3>1
    <2> QED BY <2>2
<1>2. rank \in [D -> 0..N] /\ next \in [D -> D] /\ base \in [D -> MemoryType]
    OBVIOUS
<1>3. \A p \in D : p \notin stop => rank[next[p]] < rank[p]
    OBVIOUS
<1>4. PICK f : Solution(D, MemoryType, stop, base, next, step, f)
    <2>1. IsRecursion(D, MemoryType, N, rank, stop, base, next, step)
        <3> HIDE DEF D, step, rank, next, base, stop
        <3> QED BY <1>1, <1>2, <1>3 DEF IsRecursion
    <2> HIDE DEF D, step, rank, next, base, stop
    <2> QED BY <2>1, Recursion
<1>5. f = Equation(f)
    <2>1. ASSUME NEW i \in D
          PROVE  f[i] = IF i = 0 THEN Memory ELSE RestoreStep(es, fail, i, f[i - 1])
        <3>1. CASE i = 0
            BY <1>4, <3>1 DEF Solution
        <3>2. CASE i # 0
            <4>1. next[i] = i - 1 /\ i - 1 \in D
                BY <3>2
            <4>2. f[i] = step[<<i, f[i - 1]>>]
                BY <1>4, <3>2, <4>1 DEF Solution
            <4>3. <<i, f[i - 1]>> \in D \X MemoryType
                BY <1>4, <4>1 DEF Solution
            <4> QED BY <3>2, <4>2, <4>3
        <3> QED BY <3>1, <3>2
    <2>2. f \in [D -> MemoryType]
        BY <1>4 DEF Solution
    <2> HIDE DEF D
    <2> QED BY <2>1, <2>2
<1>6. g = Equation(g)
    BY <1>5
<1>7. Restored(es, fail) = g[N]
    BY DEF Restored, RestoreStep
<1>8. IsRestoring(g, es, fail)
    <2> HIDE DEF g
    <2> QED BY <1>6 DEF IsRestoring
<1>9. g \in [D -> MemoryType]
    <2>1. DOMAIN g = D /\ g = [n \in D |-> g[n]]
        <3> HIDE DEF g
        <3> QED BY <1>6
    <2> DEFINE P == {n \in D : g[n] \in MemoryType}
    <2> HIDE DEF g
    <2>2. 0 \in P
        BY <1>8 DEF IsRestoring
    <2>3. ASSUME NEW n \in 1..N, n - 1 \in P PROVE n \in P
        <3>1. g[n] = RestoreStep(es, fail, n, g[n - 1]) /\ g[n - 1] \in MemoryType
            BY <1>8, <2>3 DEF IsRestoring
        <3>2. <<n, g[n - 1]>> \in D \X MemoryType
            BY <3>1
        <3>3. step[<<n, g[n - 1]>>] = g[n]
            BY <3>1, <3>2
        <3>4. g[n] \in MemoryType
            <4> HIDE DEF step
            <4> QED BY <1>1, <3>2, <3>3
        <3> QED BY <3>4
    <2>4. \A n \in 0..N : n \in P
        <3> HIDE DEF P
        <3> QED BY <2>2, <2>3, InductionTo
    <2> QED BY <2>1, <2>4
<1> QED BY <1>7, <1>8, <1>9

\* The entries of a list, among those that are read.
LEMMA EntriesAreStorable ==
    ASSUME NEW l \in ListType, NEW es, AreEntries(es, l, 0)
    PROVE  /\ Len(es) \in Nat /\ Len(es) <= MaxEntry
           /\ \A n \in 1..Len(es) :
                 /\ es[n] \in EntryType /\ Storable(es[n]) /\ es[n].data # <<>>
                 /\ \E j \in Entries : l[j].topic # NULL /\ es[n] = l[j]
<1>1. Len(es) \in Nat /\ Len(es) <= MaxEntry
    <2>1. Len(es) \in Nat /\ Len(es) <= MaxEntry - 0
        BY LenProperties DEF AreEntries
    <2> QED BY <2>1, EntriesAssumption
<1>2. ASSUME NEW n \in 1..Len(es)
      PROVE  /\ es[n] \in EntryType /\ Storable(es[n]) /\ es[n].data # <<>>
             /\ \E j \in Entries : l[j].topic # NULL /\ es[n] = l[j]
    <2>1. PICK j \in 0 + 1..MaxEntry : l[j].topic # NULL /\ es[n] = l[j]
        BY DEF AreEntries
    <2>2. j \in Entries
        BY DEF Entries
    <2>3. l[j] \in EntryType
        BY <2>1, <2>2, PlaceType
    <2>4. es[n] \in EntryType /\ Storable(es[n]) /\ es[n].data # <<>>
        BY <2>1, <2>3 DEF EntryType, Storable
    <2> QED BY <2>1, <2>2, <2>4
<1> QED BY <1>1, <1>2

\* The value that a topic has, the one it had in l, or none.
OldOrNew(m, l) == \A t \in Topic : MapOf(m.list)[t] \in {MapOf(list)[t], MapOf(l)[t], NULL}

LEMMA RestoredMap ==
    ASSUME Memory \in MemoryType, NEW l \in ListType, OneEach(l),
           NEW es, AreEntries(es, l, 0), NEW fail, fail.what \in Fails, NEW m, m = Restored(es, fail)
    PROVE  m \in MemoryType /\ OldOrNew(m, l)
<1> DEFINE N == Len(es)
<1>1. N \in Nat /\ \A n \in 1..N : Storable(es[n])
    BY EntriesAreStorable
<1>2. PICK f : /\ IsRestoring(f, es, fail) /\ f \in [0..N -> MemoryType] /\ Restored(es, fail) = f[N]
    BY <1>1, RestoredIs
<1> DEFINE P == {n \in 0..N : OldOrNew(f[n], l)}
<1>3. 0 \in P
    BY <1>1, <1>2 DEF IsRestoring, OldOrNew, Memory
<1>4. ASSUME NEW n \in 1..N, n - 1 \in P PROVE n \in P
    <2> DEFINE e == es[n]
               g == f[n - 1]
    <2>1. g \in MemoryType /\ OldOrNew(g, l) /\ f[n] = RestoreStep(es, fail, n, g) /\ n \in 0..N
        <3>1. n - 1 \in 0..N /\ n \in 0..N
            BY <1>1
        <3> QED BY <1>2, <1>4, <3>1 DEF IsRestoring
    <2>2. CASE ~g.ok
        BY <2>1, <2>2 DEF RestoreStep
    <2>3. CASE g.ok
        <3> DEFINE w == IF n = fail.at THEN fail.what ELSE "none"
        <3>1. f[n] = update_retainedtopic(g, e.topic, e.data, e.qos, w)
            BY <2>1, <2>3 DEF RestoreStep
        <3>2. w \in Fails
            BY DEF Fails
        <3>3. Storable(e) /\ e.topic \in Topic
            BY <1>1 DEF Storable
        <3>4. PICK j \in Entries : l[j].topic # NULL /\ e = l[j]
            BY EntriesAreStorable
        <3> HIDE DEF w, g, e
        <3>5. \/ MapOf(f[n].list) = MapOf(g.list)
              \/ MapOf(f[n].list) = Unbound(MapOf(g.list), e.topic)
              \/ MapOf(f[n].list) = Bound(MapOf(g.list), e.topic, e.data, e.qos)
            BY <2>1, <3>1, <3>2, <3>3, UpdateMemory DEF Storable
        <3>6. MapOf(g.list) \in [Topic -> Value \cup {NULL}]
            BY <2>1, MapOfType DEF MemoryType
        <3>7. MapOf(l)[e.topic] = [data |-> e.data, qos |-> e.qos]
            BY <3>3, <3>4, MapOfEntry DEF ValueOf
        <3>8. OldOrNew(f[n], l)
            <4>1. CASE MapOf(f[n].list) = MapOf(g.list)
                BY <2>1, <4>1 DEF OldOrNew
            <4>2. CASE MapOf(f[n].list) = Unbound(MapOf(g.list), e.topic)
                BY <2>1, <3>6, <4>2 DEF OldOrNew, Unbound
            <4>3. CASE MapOf(f[n].list) = Bound(MapOf(g.list), e.topic, e.data, e.qos)
                BY <2>1, <3>6, <3>7, <4>3 DEF OldOrNew, Bound
            <4> QED BY <3>5, <4>1, <4>2, <4>3
        <3> QED BY <2>1, <3>8
    <2> QED BY <2>2, <2>3
<1>5. N \in P
    <2> HIDE DEF P, N
    <2> QED BY <1>1, <1>3, <1>4, InductionTo
<1>6. N \in 0..N
    BY <1>1
<1> QED BY <1>2, <1>5, <1>6

\* An entry that is put into a list with room, while there is memory, is in it.
LEMMA RestoreOne ==
    ASSUME NEW m \in MemoryType, NEW n \in Entries, Used(m.list) \subseteq 1..n - 1,
           NEW e \in EntryType,
           NEW u, u = update_retainedtopic(m, e.topic, e.data, e.qos, "none")
    PROVE  /\ u \in MemoryType /\ u.ok = m.ok /\ Used(u.list) \subseteq 1..n
           /\ MapOf(u.list) = Bound(MapOf(m.list), e.topic, e.data, e.qos)
<1>1. /\ e.topic \in Topic /\ e.data \in Data /\ e.data # <<>> /\ e.qos \in Qos /\ "none" \in Fails
      /\ e.data \in Data \cup {<<>>}
    BY DEF EntryType, Fails
<1>2. Effect(m, e.topic, e.data, e.qos, "none", u)
    BY <1>1, UpdateEffect
<1>3. MaxEntry \in Nat /\ n \in 1..MaxEntry
    BY EntriesAssumption DEF Entries
<1>4. n \in Unused(m.list) /\ Unused(m.list) \in SUBSET Entries
    BY <1>3 DEF Used, Unused
<1> DEFINE i == FirstOf(Unused(m.list))
<1>5. i \in Entries /\ m.list[i].topic = NULL /\ i <= n
    <2>1. i \in Unused(m.list) /\ \A j \in Unused(m.list) : i <= j
        BY <1>4, FirstOfEntries
    <2> QED BY <1>4, <2>1 DEF Unused
<1>6. m.ok \in BOOLEAN /\ m.heap \in Nat
    BY DEF MemoryType
<1>7. u \in MemoryType
    BY <1>1, UpdateMemory
<1>8. ASSUME NEW j \in Entries, m.list[j].topic = e.topic,
             u = Mem(With(m.list, j, e.topic, e.data, e.qos), m.heap, m.ok)
      PROVE  u.ok = m.ok /\ Used(u.list) \subseteq 1..n
             /\ MapOf(u.list) = Bound(MapOf(m.list), e.topic, e.data, e.qos)
    <2>1. u.list = With(m.list, j, e.topic, e.data, e.qos) /\ u.ok = m.ok
        BY <1>8 DEF Mem
    <2>2. Used(u.list) = Used(m.list) /\ MapOf(u.list) = Bound(MapOf(m.list), e.topic, e.data, e.qos)
        BY <1>1, <1>8, <2>1, MemoryOver
    <2> QED BY <1>3, <2>1, <2>2
<1>9. ASSUME \A j \in Entries : m.list[j].topic # e.topic,
             u = Mem(With(m.list, i, e.topic, e.data, e.qos), m.heap + 2, m.ok)
      PROVE  u.ok = m.ok /\ Used(u.list) \subseteq 1..n
             /\ MapOf(u.list) = Bound(MapOf(m.list), e.topic, e.data, e.qos)
    <2> HIDE DEF i
    <2>1. u.list = With(m.list, i, e.topic, e.data, e.qos) /\ u.ok = m.ok
        BY <1>9 DEF Mem
    <2>2. Used(u.list) = Used(m.list) \cup {i}
          /\ MapOf(u.list) = Bound(MapOf(m.list), e.topic, e.data, e.qos)
        <3> DEFINE t == e.topic
                   d == e.data
                   q == e.qos
        <3>1. t \in Topic /\ d \in Data /\ d # <<>> /\ q \in Qos
              /\ (\A j \in Entries : m.list[j].topic # t) /\ u.list = With(m.list, i, t, d, q)
            BY <1>1, <1>9, <2>1
        <3> HIDE DEF t, d, q
        <3>2. Used(u.list) = Used(m.list) \cup {i} /\ MapOf(u.list) = Bound(MapOf(m.list), t, d, q)
            <4>1. /\ Mem(With(m.list, i, t, d, q), m.heap + 2, m.ok) \in MemoryType
                  /\ Used(With(m.list, i, t, d, q)) = Used(m.list) \cup {i}
                  /\ MapOf(With(m.list, i, t, d, q)) = Bound(MapOf(m.list), t, d, q)
                BY <1>5, <3>1, MemoryWith
            <4> QED BY <3>1, <4>1
        <3> QED BY <3>2 DEF t, d, q
    <2>3. i \in 1..n
        BY <1>3, <1>5 DEF Entries
    <2> QED BY <1>3, <2>1, <2>2, <2>3
<1>10. \/ \E j \in Entries : /\ m.list[j].topic = e.topic
                             /\ u = Mem(With(m.list, j, e.topic, e.data, e.qos), m.heap, m.ok)
       \/ /\ \A j \in Entries : m.list[j].topic # e.topic
          /\ u = Mem(With(m.list, i, e.topic, e.data, e.qos), m.heap + 2, m.ok)
    <2>1. Unused(m.list) # {}
        BY <1>4
    <2> QED BY <1>1, <1>2, <2>1, Zenon DEF Effect
<1> QED BY <1>7, <1>8, <1>9, <1>10

\* All entries that were read from a whole image are in a list that was empty.
LEMMA RestoredSame ==
    ASSUME Memory \in MemoryType, \A i \in Entries : list[i].topic = NULL,
           NEW l \in ListType, OneEach(l), NEW es, AreEntries(es, l, 0), AreAll(es, l, 0),
           NEW fail, fail.what = "none", NEW m, m = Restored(es, fail)
    PROVE  MapOf(m.list) = MapOf(l)
<1> DEFINE N == Len(es)
           In(n, t) == \E k \in 1..n : es[k].topic = t
           Has(g, n) == \A t \in Topic :
                           /\ In(n, t) => MapOf(g.list)[t] = MapOf(l)[t]
                           /\ ~In(n, t) => MapOf(g.list)[t] = NULL
<1>1. /\ N \in Nat /\ N <= MaxEntry /\ MaxEntry \in Nat
      /\ \A n \in 1..N : /\ Storable(es[n]) /\ es[n] \in EntryType
                         /\ \E j \in Entries : l[j].topic # NULL /\ es[n] = l[j]
    BY EntriesAreStorable, EntriesAssumption
<1>2. PICK f : /\ IsRestoring(f, es, fail) /\ f \in [0..N -> MemoryType] /\ Restored(es, fail) = f[N]
    <2>1. fail.what \in Fails
        BY DEF Fails
    <2> QED BY <1>1, <2>1, RestoredIs
<1> DEFINE P == {n \in 0..N : f[n].ok /\ Used(f[n].list) \subseteq 1..n /\ Has(f[n], n)}
<1>3. 0 \in P
    <2>1. f[0] = Memory /\ f[0].list = list /\ f[0].ok
        BY <1>2 DEF IsRestoring, Memory
    <2>2. Used(list) = {}
        BY DEF Used
    <2>3. list \in ListType /\ OneEach(list)
        BY DEF MemoryType, Memory
    <2>4. ASSUME NEW t \in Topic PROVE MapOf(list)[t] = NULL
        <3>1. \A i \in Entries : list[i].topic # t
            BY BytesAssumption
        <3> QED BY <2>3, <3>1, MapOfEntry
    <2>5. \A t : ~In(0, t)
        OBVIOUS
    <2> QED BY <1>1, <2>1, <2>2, <2>4, <2>5
<1>4. ASSUME NEW n \in 1..N, n - 1 \in P PROVE n \in P
    <2> DEFINE e == es[n]
               g == f[n - 1]
    <2>1. /\ g \in MemoryType /\ g.ok /\ Used(g.list) \subseteq 1..n - 1 /\ Has(g, n - 1)
          /\ f[n] = RestoreStep(es, fail, n, g)
        <3>1. n - 1 \in 0..N
            BY <1>1
        <3> QED BY <1>2, <1>4, <3>1 DEF IsRestoring
    <2>2. n \in Entries /\ e \in EntryType /\ n \in 0..N /\ n \in Nat
        BY <1>1 DEF Entries
    <2>3. f[n] = update_retainedtopic(g, e.topic, e.data, e.qos, "none")
        BY <2>1 DEF RestoreStep
    <2>4. PICK j \in Entries : l[j].topic # NULL /\ e = l[j]
        BY <1>1
    <2>5. e.topic \in Topic
        BY <2>2 DEF EntryType
    <2>6. \A t : In(n, t) <=> In(n - 1, t) \/ t = e.topic
        <3>1. \A k : k \in 1..n <=> k \in 1..n - 1 \/ k = n
            BY <2>2
        <3> QED BY <3>1
    <2> HIDE DEF g, e, In
    <2>7. /\ f[n] \in MemoryType /\ f[n].ok = g.ok /\ Used(f[n].list) \subseteq 1..n
          /\ MapOf(f[n].list) = Bound(MapOf(g.list), e.topic, e.data, e.qos)
        <3>1. g \in MemoryType /\ Used(g.list) \subseteq 1..n - 1
            BY <2>1
        <3> HIDE DEF Has
        <3> QED BY <2>2, <2>3, <3>1, RestoreOne
    <2>8. MapOf(g.list) \in [Topic -> Value \cup {NULL}]
        BY <2>1, MapOfType DEF MemoryType
    <2>9. MapOf(l)[e.topic] = [data |-> e.data, qos |-> e.qos]
        BY <2>4, <2>5, MapOfEntry DEF ValueOf
    <2>10. Has(f[n], n)
        <3>1. \A t \in Topic : MapOf(f[n].list)[t] =
                 IF t = e.topic THEN [data |-> e.data, qos |-> e.qos] ELSE MapOf(g.list)[t]
            BY <2>7, <2>8 DEF Bound
        <3> QED BY <2>1, <2>6, <2>9, <3>1
    <2> QED BY <2>1, <2>2, <2>7, <2>10
<1>5. N \in P
    <2> HIDE DEF P
    <2> QED BY <1>1, <1>3, <1>4, InductionTo
<1>6. m \in MemoryType /\ Has(m, N)
    <2>1. N \in 0..N
        BY <1>1
    <2> QED BY <1>2, <1>5, <2>1
<1>7. ASSUME NEW t \in Topic PROVE MapOf(m.list)[t] = MapOf(l)[t]
    <2>1. CASE In(N, t)
        BY <1>6, <2>1
    <2>2. CASE ~In(N, t)
        <3>1. \A j \in Entries : l[j].topic # t
            <4>1. ASSUME NEW j \in Entries, l[j].topic = t PROVE In(N, t)
                <5>1. j \in 0 + 1..MaxEntry /\ l[j].topic # NULL
                    BY <4>1, BytesAssumption DEF Entries
                <5>2. PICK k \in 1..Len(es) : es[k] = l[j]
                    BY <5>1 DEF AreAll
                <5> QED BY <4>1, <5>2
            <4> QED BY <2>2, <4>1
        <3>2. MapOf(l)[t] = NULL
            BY <3>1, MapOfEntry
        <3> QED BY <1>6, <2>2, <3>2
    <2> QED BY <2>1, <2>2
<1>8. MapOf(m.list) \in [Topic -> Value \cup {NULL}] /\ MapOf(l) \in [Topic -> Value \cup {NULL}]
    BY <1>6, MapOfType DEF MemoryType
<1> QED BY <1>7, <1>8

-----------------------------------------------------------------------------
(* The invariant, and its preservation by each action *)

\* The image is a beginning of what was written for some list, whose values are saved.
ImageOf(l) ==
    /\ l \in ListType /\ OneEach(l) /\ saved = MapOf(l) /\ Holds(l)
    /\ whole => Len(Serialized(l)) <= Len(image)

IInv == Memory \in MemoryType /\ whole \in BOOLEAN /\ \E l : ImageOf(l)

\* The list and the heap that an operation leaves are in order, with its values.
LEMMA Becoming ==
    ASSUME NEW m, m \in MemoryType, Becomes(m)
    PROVE  Memory' \in MemoryType /\ list' = m.list
<1>1. Memory' = Mem(m.list, m.heap, TRUE)
    BY DEF Memory, Becomes, Mem
<1>2. Mem(m.list, m.heap, TRUE) \in MemoryType
    BY DEF MemoryType, Mem
<1> QED BY <1>1, <1>2 DEF Becomes

LEMMA SameImage ==
    ASSUME UNCHANGED <<image, saved, whole>>
    PROVE  \A l : ImageOf(l) => ImageOf(l)'
BY DEF ImageOf, Holds

\* What is written, and its length.
LEMMA WrittenType ==
    ASSUME NEW l \in ListType
    PROVE  Written(l) \in Seq(Nat) /\ Len(Serialized(l)) <= Len(Written(l))
<1>1. Serialized(l) \in Seq(Nat)
    BY Layout DEF IsLayout
<1>2. CASE Serialized(l) = <<>>
    BY <1>2 DEF Written
<1>3. CASE Serialized(l) # <<>>
    <2>1. Len(Serialized(l)) \in Nat /\ Written(l) = Serialized(l)
        BY <1>1, <1>3, LenProperties DEF Written
    <2> QED BY <1>1, <2>1
<1> QED BY <1>2, <1>3

LEMMA EmptyMemory ==
    ASSUME NEW m, m = Mem([i \in Entries |-> Free], 0, TRUE)
    PROVE  m \in MemoryType /\ MapOf(m.list) = [t \in Topic |-> NULL]
<1> DEFINE l == [i \in Entries |-> Free]
<1>1. m.list = l /\ m.heap = 0 /\ m.ok = TRUE /\ m = Mem(l, 0, TRUE)
    BY DEF Mem
<1>2. l \in ListType /\ \A i \in Entries : l[i].topic = NULL
    BY DEF ListType, Free
<1> HIDE DEF l
<1>3. OneEach(l) /\ Used(l) = {}
    BY <1>2 DEF OneEach, Used
<1>4. Cardinality(Used(l)) = 0
    BY <1>3, FS_EmptySet
<1>5. 0 = 2 * Cardinality(Used(l)) /\ 0 \in Nat
    BY <1>4
<1>6. m \in MemoryType
    BY <1>1, <1>2, <1>3, <1>5 DEF MemoryType, Mem
<1>7. \A t \in Topic : MapOf(l)[t] = NULL
    BY <1>2, <1>3, MapOfEntry, BytesAssumption
<1>8. MapOf(l) = [t \in Topic |-> NULL]
    BY <1>7 DEF MapOf
<1> QED BY <1>1, <1>6, <1>8

LEMMA InitIInv ==
    ASSUME RetainedInit
    PROVE  IInv /\ MapOf(list) = [t \in Topic |-> NULL] /\ saved = [t \in Topic |-> NULL]
<1>1. Memory = Mem([i \in Entries |-> Free], 0, TRUE)
    BY DEF RetainedInit, Memory, Mem
<1>2. Memory \in MemoryType /\ MapOf(list) = [t \in Topic |-> NULL]
    <2>1. Memory.list = list
        BY DEF Memory
    <2> QED BY <1>1, <2>1, EmptyMemory
<1>3. list \in ListType /\ OneEach(list)
    BY <1>2 DEF Memory, MemoryType
<1>4. Len(Serialized(list)) <= 0
    <2>1. PICK off : IsLayout(off, list)
        BY <1>3, Layout
    <2>2. MaxEntry \in Nat /\ MaxEntry \in 0..MaxEntry
        BY EntriesAssumption
    <2> DEFINE P == {n \in 0..MaxEntry : off[n] = 0}
    <2>3. 0 \in P
        BY <2>1, <2>2 DEF IsLayout
    <2>4. ASSUME NEW n \in 1..MaxEntry, n - 1 \in P PROVE n \in P
        <3>1. n \in Entries /\ n \in 0..MaxEntry
            BY <2>2 DEF Entries
        <3>2. list[n].topic = NULL
            BY <3>1 DEF RetainedInit, Free
        <3> QED BY <2>1, <2>4, <3>1, <3>2 DEF IsLayout
    <2>5. MaxEntry \in P
        <3> HIDE DEF P
        <3> QED BY <2>2, <2>3, <2>4, InductionTo
    <2> QED BY <2>1, <2>5 DEF IsLayout
<1>5. image = <<>> /\ saved = MapOf(list) /\ whole = TRUE
    BY DEF RetainedInit
<1>6. ImageOf(list)
    <2>1. Len(Written(list)) \in Nat
        BY <1>3, WrittenType, LenProperties
    <2>2. Holds(list)
        BY <1>5, <2>1 DEF Holds
    <2> QED BY <1>3, <1>4, <1>5, <2>2 DEF ImageOf
<1> QED BY <1>2, <1>5, <1>6 DEF IInv

LEMMA UpdateStep ==
    ASSUME IInv, NEW t \in Topic, NEW d \in Data, NEW q \in Qos, NEW fail \in Fails,
           Update(t, d, q, fail)
    PROVE  /\ IInv' /\ UNCHANGED saved
           /\ \/ MapOf(list') = MapOf(list)
              \/ MapOf(list') = Unbound(MapOf(list), t)
              \/ MapOf(list') = Bound(MapOf(list), t, d, q)
<1> DEFINE u == update_retainedtopic(Memory, t, d, q, fail)
<1>1. Becomes(u) /\ UNCHANGED <<image, saved, whole>>
    BY DEF Update
<1>2. Memory.list = list /\ Memory \in MemoryType /\ d \in Data \cup {<<>>}
    BY DEF Memory, IInv
<1>3. /\ u \in MemoryType
      /\ \/ MapOf(u.list) = MapOf(Memory.list)
         \/ MapOf(u.list) = Unbound(MapOf(Memory.list), t)
         \/ MapOf(u.list) = Bound(MapOf(Memory.list), t, d, q)
    BY <1>2, UpdateMemory
<1> HIDE DEF u
<1>4. Memory' \in MemoryType /\ list' = u.list
    BY <1>1, <1>3, Becoming
<1>5. IInv'
    BY <1>1, <1>4, SameImage DEF IInv
<1> QED BY <1>1, <1>2, <1>3, <1>4, <1>5

LEMMA ClearingStep ==
    ASSUME IInv, Clear
    PROVE  IInv' /\ UNCHANGED saved /\ MapOf(list') = [t \in Topic |-> NULL]
<1> DEFINE m == Cleared[MaxEntry]
<1>1. Becomes(m) /\ UNCHANGED <<image, saved, whole>>
    BY DEF Clear
<1>2. m \in MemoryType /\ MapOf(m.list) = [t \in Topic |-> NULL]
    BY ClearedAll DEF IInv
<1> HIDE DEF m
<1>3. Memory' \in MemoryType /\ list' = m.list
    BY <1>1, <1>2, Becoming
<1>4. IInv'
    BY <1>1, <1>3, SameImage DEF IInv
<1> QED BY <1>1, <1>2, <1>3, <1>4

LEMMA SerializeStep ==
    ASSUME IInv, NEW len, Serialize(len)
    PROVE  IInv' /\ UNCHANGED list /\ saved' = MapOf(list)
<1>1. /\ image' = Written(list) /\ saved' = MapOf(list) /\ whole' = TRUE
      /\ list' = list /\ heap' = heap
    BY DEF Serialize, Written
<1>2. list \in ListType /\ OneEach(list) /\ Memory \in MemoryType /\ Memory' = Memory
    BY <1>1 DEF IInv, Memory, MemoryType
<1>3. Written(list) \in Seq(Nat) /\ Len(Serialized(list)) <= Len(Written(list))
    BY <1>2, WrittenType
<1>4. Len(Written(list)) \in Nat
    BY <1>3, LenProperties
<1>5. image' \in Seq(Nat) /\ Len(image') <= Len(Written(list))
      /\ \A j \in 1..Len(image') : image'[j] = Written(list)[j]
    BY <1>1, <1>3, <1>4
<1>6. ImageOf(list)'
    <2>1. Holds(list)'
        BY <1>1, <1>5 DEF Holds
    <2> QED BY <1>1, <1>2, <1>3, <2>1 DEF ImageOf
<1> QED BY <1>1, <1>2, <1>6 DEF IInv

LEMMA CutStep ==
    ASSUME IInv, NEW n \in 0..Len(image), Cut(n)
    PROVE  IInv' /\ UNCHANGED saved /\ MapOf(list') = [t \in Topic |-> NULL]
<1> DEFINE m == Mem([i \in Entries |-> Free], 0, TRUE)
<1>1. /\ image' = SubSeq(image, 1, n) /\ saved' = saved /\ whole' = (whole /\ n = Len(image))
      /\ Becomes(m)
    BY DEF Cut, Becomes, Mem
<1>2. m \in MemoryType /\ MapOf(m.list) = [t \in Topic |-> NULL]
    BY EmptyMemory
<1> HIDE DEF m
<1>3. Memory' \in MemoryType /\ list' = m.list
    BY <1>1, <1>2, Becoming
<1>4. PICK l : ImageOf(l)
    BY DEF IInv
<1>5. image \in Seq(Nat) /\ Len(image) \in Nat /\ Len(image) <= Len(Written(l))
    BY <1>4, LenProperties DEF ImageOf, Holds
<1>6. image' \in Seq(Nat) /\ Len(image') = n /\ \A j \in 1..n : image'[j] = image[j]
    <2>1. \A j \in 1..n : image[j] \in Nat
        BY <1>5, ElementOfSeq
    <2>2. /\ SubSeq(image, 1, n) \in Seq(Nat)
          /\ Len(SubSeq(image, 1, n)) = IF 1 <= n THEN n - 1 + 1 ELSE 0
          /\ \A j \in 1..n - 1 + 1 : SubSeq(image, 1, n)[j] = image[1 + j - 1]
        BY <1>5, <2>1, SubSeqProperties
    <2>3. n \in Nat /\ n - 1 + 1 = n /\ (IF 1 <= n THEN n - 1 + 1 ELSE 0) = n
          /\ \A j \in 1..n : 1 + j - 1 = j
        BY <1>5
    <2> QED BY <1>1, <2>2, <2>3
<1>7. Holds(l)'
    <2>1. n <= Len(Written(l))
        <3>1. Len(Written(l)) \in Nat
            BY <1>4, WrittenType, LenProperties DEF ImageOf
        <3> QED BY <1>5, <3>1
    <2>2. \A j \in 1..n : j \in 1..Len(image)
        BY <1>5
    <2>3. \A j \in 1..n : image'[j] = Written(l)[j]
        BY <1>4, <1>6, <2>2 DEF ImageOf, Holds
    <2> QED BY <1>6, <2>1, <2>3 DEF Holds
<1>8. ImageOf(l)' /\ whole' \in BOOLEAN
    <2>1. whole' = TRUE => whole = TRUE /\ n = Len(image)
        BY <1>1 DEF IInv
    <2>2. whole' \in BOOLEAN
        BY <1>1 DEF IInv
    <2>3. whole' => Len(Serialized(l)) <= Len(image')
        BY <1>4, <1>6, <2>1, <2>2 DEF ImageOf
    <2> QED BY <1>1, <1>4, <1>7, <2>2, <2>3 DEF ImageOf
<1> QED BY <1>1, <1>2, <1>3, <1>8 DEF IInv

LEMMA DeserializeStep ==
    ASSUME IInv, NEW fail, fail.what \in Fails, Deserialize(fail)
    PROVE  /\ IInv' /\ UNCHANGED saved
           /\ MapOf(list') \in [Topic -> Value \cup {NULL}]
           /\ \A t \in Topic : MapOf(list')[t] \in {MapOf(list)[t], saved[t], NULL}
           /\ ( <<>> \notin Topic /\ whole /\ fail.what = "none"
                /\ \A i \in Entries : list[i].topic = NULL ) => MapOf(list') = saved
<1> DEFINE es == ReadFrom[1].entries
           m == Restored(es, fail)
<1>1. Becomes(m) /\ UNCHANGED <<image, saved, whole>>
    BY DEF Deserialize
<1>2. PICK l : ImageOf(l)
    BY DEF IInv
<1>3. l \in ListType /\ OneEach(l) /\ saved = MapOf(l) /\ Holds(l)
    BY <1>2 DEF ImageOf
<1>4. PICK off : IsLayout(off, l)
    BY <1>3, Layout
<1>5. AreEntries(es, l, 0) /\ (<<>> \notin Topic /\ off[MaxEntry] <= Len(image) => AreAll(es, l, 0))
    <2>1. 0 \in 0..MaxEntry
        BY EntriesAssumption
    <2>2. off[0] + 1 = 1
        BY <1>4 DEF IsLayout
    <2> QED BY <1>3, <1>4, <2>1, <2>2, ReadAll
<1> HIDE DEF es
<1>6. m \in MemoryType /\ OldOrNew(m, l)
    BY <1>3, <1>5, RestoredMap DEF IInv
<1>7. ASSUME <<>> \notin Topic, whole, fail.what = "none", \A i \in Entries : list[i].topic = NULL
      PROVE  MapOf(m.list) = MapOf(l)
    <2>1. off[MaxEntry] <= Len(image)
        BY <1>2, <1>4, <1>7 DEF ImageOf, IsLayout
    <2>2. AreEntries(es, l, 0) /\ AreAll(es, l, 0)
        BY <1>5, <1>7, <2>1
    <2> QED BY <1>3, <1>7, <2>2, RestoredSame DEF IInv
<1> HIDE DEF m
<1>8. Memory' \in MemoryType /\ list' = m.list
    BY <1>1, <1>6, Becoming
<1>9. IInv'
    BY <1>1, <1>8, SameImage DEF IInv
<1>10. MapOf(m.list) \in [Topic -> Value \cup {NULL}]
    BY <1>6, MapOfType DEF MemoryType
<1> QED BY <1>1, <1>3, <1>6, <1>7, <1>8, <1>9, <1>10 DEF OldOrNew

LEMMA NextIInv ==
    ASSUME IInv, [RetainedNext]_retained
    PROVE  IInv'
<1>1. CASE UNCHANGED retained
    <2>1. Memory' = Memory /\ UNCHANGED <<image, saved, whole>>
        BY <1>1 DEF retained, Memory
    <2> QED BY <2>1, SameImage DEF IInv
<1>2. ASSUME NEW t \in Topic, NEW d \in Data, NEW q \in Qos, NEW fail \in Fails,
             Update(t, d, q, fail)
      PROVE  IInv'
    BY <1>2, UpdateStep
<1>3. CASE Clear
    BY <1>3, ClearingStep
<1>4. ASSUME NEW len \in BufferSizes, Serialize(len) PROVE IInv'
    BY <1>4, SerializeStep
<1>5. ASSUME NEW n \in 0..Len(image), Cut(n) PROVE IInv'
    BY <1>5, CutStep
<1>6. ASSUME NEW n \in Entries, NEW what \in Fails, Deserialize([at |-> n, what |-> what])
      PROVE  IInv'
    BY <1>6, DeserializeStep
<1> QED BY <1>1, <1>2, <1>3, <1>4, <1>5, <1>6 DEF RetainedNext

LEMMA Invariance == RetainedSpec => []IInv
<1>1. RetainedInit => IInv
    BY InitIInv
<1>2. IInv /\ [RetainedNext]_retained => IInv'
    BY NextIInv
<1> QED BY <1>1, <1>2, PTL DEF RetainedSpec

-----------------------------------------------------------------------------
(* The theorems *)

\* Each entry of the list has a topic and data or neither, no topic has two entries, and
\* the image is a sequence of bytes.
THEOREM RetainedTypeCorrect == RetainedSpec => []RetainedTypeOK
<1>1. IInv => RetainedTypeOK
    <2> SUFFICES ASSUME IInv PROVE RetainedTypeOK
        OBVIOUS
    <2>1. list \in ListType /\ OneEach(list) /\ heap \in Nat /\ whole \in BOOLEAN
        BY DEF IInv, Memory, MemoryType
    <2>2. PICK l : ImageOf(l)
        BY DEF IInv
    <2>3. image \in Seq(Nat) /\ saved \in [Topic -> Value \cup {NULL}]
        BY <2>2, MapOfType DEF ImageOf, Holds
    <2> QED BY <2>1, <2>3 DEF RetainedTypeOK, ListType, EntryType, OneEach, Value
<1> QED BY <1>1, Invariance, PTL

\* The list owns the blocks it has allocated: two for each entry and no other, whichever
\* allocation of update_retainedtopic fails.
THEOREM HeapIsOwnedAlways == RetainedSpec => []HeapIsOwned
<1>1. IInv => HeapIsOwned
    BY DEF IInv, HeapIsOwned, Memory, MemoryType, Used
<1> QED BY <1>1, Invariance, PTL

\* The list is a store of values (RetainedStore): a topic has the value that was last put,
\* or, when memory has run out, the list was full or power has failed, none or an earlier one.
THEOREM ListIsStore == RetainedSpec => AsStore
<1>1. RetainedInit => Store!Init
    BY InitIInv DEF Store!Init
<1>2. IInv /\ [RetainedNext]_retained => [Store!Next]_<<MapOf(list), saved>>
    <2> SUFFICES ASSUME IInv, [RetainedNext]_retained
                 PROVE  [Store!Next]_<<MapOf(list), saved>>
        OBVIOUS
    <2>1. CASE UNCHANGED retained
        BY <2>1 DEF retained
    <2>2. ASSUME NEW t \in Topic, NEW d \in Data, NEW q \in Qos, NEW fail \in Fails,
                 Update(t, d, q, fail)
          PROVE  [Store!Next]_<<MapOf(list), saved>>
        <3>1. /\ saved' = saved
              /\ \/ MapOf(list') = MapOf(list)
                 \/ MapOf(list') = Unbound(MapOf(list), t)
                 \/ MapOf(list') = Bound(MapOf(list), t, d, q)
            BY <2>2, UpdateStep
        <3>2. [data |-> d, qos |-> q] \in [data : Data, qos : Qos]
            OBVIOUS
        <3>3. CASE MapOf(list') = MapOf(list)
            BY <3>1, <3>3
        <3>4. CASE MapOf(list') = Unbound(MapOf(list), t)
            BY <3>1, <3>4 DEF Unbound, Store!Next, Store!Drop
        <3>5. CASE MapOf(list') = Bound(MapOf(list), t, d, q)
            BY <3>1, <3>2, <3>5 DEF Bound, Store!Next, Store!Put
        <3> QED BY <3>1, <3>3, <3>4, <3>5
    <2>3. CASE Clear
        BY <2>3, ClearingStep DEF Store!Next, Store!Clear
    <2>4. ASSUME NEW len \in BufferSizes, Serialize(len)
          PROVE  [Store!Next]_<<MapOf(list), saved>>
        BY <2>4, SerializeStep DEF Store!Next, Store!Save
    <2>5. ASSUME NEW n \in 0..Len(image), Cut(n) PROVE [Store!Next]_<<MapOf(list), saved>>
        BY <2>5, CutStep DEF Store!Next, Store!Clear
    <2>6. ASSUME NEW n \in Entries, NEW what \in Fails, Deserialize([at |-> n, what |-> what])
          PROVE  [Store!Next]_<<MapOf(list), saved>>
        BY <2>6, DeserializeStep DEF Store!Next, Store!Load, Value
    <2> QED BY <2>1, <2>2, <2>3, <2>4, <2>5, <2>6 DEF RetainedNext
<1> QED BY <1>1, <1>2, Invariance, PTL DEF RetainedSpec, AsStore, Store!Spec

\* A whole image that is read into an empty list brings back the values it was made from,
\* whatever the bodies hold and however many entries there are; the topics are not empty,
\* as one that is ends the reading.
THEOREM ReadBackAlways == <<>> \notin Topic /\ RetainedSpec => ReadBackIsSame
<1>1. ASSUME <<>> \notin Topic, IInv, [RetainedNext]_retained
      PROVE  [whole /\ (\A i \in Entries : list[i].topic = NULL)
                    /\ Deserialize([at |-> 1, what |-> "none"]) => MapOf(list') = saved]_retained
    <2> SUFFICES ASSUME whole, \A i \in Entries : list[i].topic = NULL,
                        Deserialize([at |-> 1, what |-> "none"])
                 PROVE  MapOf(list') = saved
        OBVIOUS
    <2> QED BY <1>1, DeserializeStep DEF Fails
<1>2. ASSUME <<>> \notin Topic PROVE RetainedSpec => ReadBackIsSame
    <2>1. IInv /\ [RetainedNext]_retained =>
            [whole /\ (\A i \in Entries : list[i].topic = NULL)
                   /\ Deserialize([at |-> 1, what |-> "none"]) => MapOf(list') = saved]_retained
        BY <1>1, <1>2
    <2> QED BY <2>1, Invariance, PTL DEF RetainedSpec, ReadBackIsSame
<1> QED BY <1>2

=============================================================================
