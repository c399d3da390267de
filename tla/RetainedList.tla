---------------------------- MODULE RetainedList ----------------------------
(***************************************************************************)
(* The list of retained topics, mqtt_retainedlist.c: its memory, which may *)
(* run out at each allocation, and the image of it that is kept over a     *)
(* reboot, byte by byte.  A write of the image that is interrupted leaves  *)
(* a beginning of it.                                                      *)
(***************************************************************************)
EXTENDS Integers, SequencesExt

CONSTANTS
    Topic,           \* topics: sequences of bytes other than 0
    Data,            \* the bodies of publications: sequences of bytes
    MaxEntry,        \* max_entry
    BufferSizes,     \* the sizes of the buffers given to serialize_retainedtopics
    Radix,           \* the values of a byte, 256
    NULL

ASSUME EntriesAssumption == MaxEntry \in Nat /\ BufferSizes \subseteq Nat
ASSUME RadixAssumption == Radix \in Nat /\ Radix >= 2
ASSUME BytesAssumption ==
    /\ \A t \in Topic : t \in Seq(Nat \ {0})
    /\ \A d \in Data : d \in Seq(Nat) /\ Len(d) < Radix * Radix
    /\ NULL \notin Topic \cup Data

VARIABLES
    list,            \* retained_list
    heap,            \* how many blocks the list has allocated and not freed
    image,           \* the image on the storage
    saved,           \* observed: the values the image was made from
    whole            \* observed: whether the image is as it was made

retained == <<list, heap, image, saved, whole>>

Entries == 1..MaxEntry
Free == [topic |-> NULL, data |-> NULL, qos |-> 0]
Qos == {0}

\* The values in l, by topic.
MapOf(l) == [t \in Topic |->
    IF \E i \in Entries : l[i].topic = t
    THEN LET e == l[CHOOSE i \in Entries : l[i].topic = t] IN [data |-> e.data, qos |-> e.qos]
    ELSE NULL]

RetainedInit ==
    /\ list = [i \in Entries |-> Free]
    /\ heap = 0
    /\ image = <<>>
    /\ saved = MapOf(list) /\ whole = TRUE

(***************************************************************************)
(* update_retainedtopic, on m, the list and its heap.  fail names the      *)
(* allocation that fails, if it is made.                                   *)
(***************************************************************************)
Fails == {"none", "topic", "data"}

FirstOf(S) == CHOOSE i \in S : \A j \in S : i <= j

\* Mutant of Forget: the entry keeps its topic, which has been freed.
ForgetDataOnly(m, i) == [m EXCEPT !.list[i].data = NULL, !.heap = @ - 1]

\* free of the topic, which comes after that of the data.
Forget(m, i) == [m EXCEPT !.list[i].topic = NULL, !.list[i].data = NULL, !.heap = @ - 1]

\* Mutant of Delete: the data is not freed.
DeleteTopicOnly(m, i) == Forget(m, i)

Delete(m, i) == Forget([m EXCEPT !.heap = @ - 1], i)

\* Mutant of SetData: the old block is kept, whatever its size.
SetDataInPlace(m, i, d, q, fail) ==
    IF m.list[i].data = NULL
    THEN IF fail = "data" THEN [Forget(m, i) EXCEPT !.ok = FALSE]
         ELSE [m EXCEPT !.list[i].data = d, !.list[i].qos = q, !.heap = @ + 1]
    ELSE [m EXCEPT !.list[i].qos = q,
                   !.list[i].data = [k \in DOMAIN @ |-> IF k \in DOMAIN d THEN d[k] ELSE @[k]]]

\* A block for the data, the old one unless the sizes differ.
SetData(m, i, d, q, fail) ==
    LET old == m.list[i].data
        freed == IF old = NULL \/ Len(old) = Len(d) THEN m.heap ELSE m.heap - 1
        allocates == old = NULL \/ Len(old) # Len(d)
    IN  IF allocates /\ fail = "data"
        THEN [Forget([m EXCEPT !.heap = freed], i) EXCEPT !.ok = FALSE]
        ELSE [m EXCEPT !.list[i].data = d, !.list[i].qos = q,
                       !.heap = IF allocates THEN freed + 1 ELSE @]

update_retainedtopic(m, t, d, q, fail) ==
    LET found == {i \in Entries : m.list[i].topic = t}
        free == {i \in Entries : m.list[i].topic = NULL}
    IN  CASE found # {} /\ d = <<>> -> Delete(m, FirstOf(found))
          [] found # {} /\ d # <<>> -> SetData(m, FirstOf(found), d, q, fail)
          [] found = {} /\ d = <<>> -> m
          [] found = {} /\ d # <<>> /\ (free = {} \/ fail = "topic") -> [m EXCEPT !.ok = FALSE]
          [] OTHER -> LET i == FirstOf(free)
                      IN  SetData([m EXCEPT !.list[i].topic = t, !.heap = @ + 1], i, d, q, fail)

Memory == [list |-> list, heap |-> heap, ok |-> TRUE]
Becomes(m) == list' = m.list /\ heap' = m.heap

Update(t, d, q, fail) ==
    Becomes(update_retainedtopic(Memory, t, d, q, fail)) /\ UNCHANGED <<image, saved, whole>>

\* clear_retainedtopics, entry by entry.
Cleared[i \in 0..MaxEntry] ==
    IF i = 0 THEN Memory
    ELSE LET m == Cleared[i - 1]
         IN  IF m.list[i].topic = NULL THEN m
             ELSE update_retainedtopic(m, m.list[i].topic, <<>>, m.list[i].qos, "none")

Clear == Becomes(Cleared[MaxEntry]) /\ UNCHANGED <<image, saved, whole>>

(***************************************************************************)
(* serialize_retainedtopics, and the storage.                              *)
(***************************************************************************)
\* Mutant of Entry: the length has one byte of use.
EntryShortLength(e) == e.topic \o <<0>> \o <<Len(e.data) % Radix, 0>> \o e.data \o <<e.qos>>

Entry(e) == e.topic \o <<0>> \o <<Len(e.data) % Radix, Len(e.data) \div Radix>>
                    \o e.data \o <<e.qos>>

Serialized(l) == FlattenSeq([i \in Entries |-> IF l[i].topic = NULL THEN <<>> ELSE Entry(l[i])])

\* The test of the room left is made before each entry; the last one decides.  An empty
\* list is one zero.
Serialize(len) ==
    LET bytes == Serialized(list)
    IN  /\ bytes = <<>> \/ Len(bytes) + 1 < len - 1
        /\ image' = IF bytes = <<>> THEN <<0>> ELSE bytes
        /\ saved' = MapOf(list) /\ whole' = TRUE
        /\ UNCHANGED <<list, heap>>

\* Power fails while the image is written, n bytes of which are there, or afterwards.
Cut(n) ==
    /\ image' = SubSeq(image, 1, n)
    /\ Becomes([list |-> [i \in Entries |-> Free], heap |-> 0])
    /\ whole' = (whole /\ n = Len(image))
    /\ UNCHANGED saved

(***************************************************************************)
(* deserialize_retainedtopics                                              *)
(***************************************************************************)
\* The index behind the zero that ends the string at p; strlen runs on behind the image.
Behind(p) == LET zeros == {i \in p..Len(image) : image[i] = 0}
             IN  IF zeros = {} THEN Len(image) + 2 ELSE FirstOf(zeros) + 1

\* The length at p: its first byte is read first.  Behind the image there is anything,
\* which makes no difference.
DataLen(p) == image[p] + Radix * (IF p < Len(image) THEN image[p + 1] ELSE 0)

\* The entries read from p on, and whether they go on to the end.
ReadFrom[p \in Nat \ {0}] ==
    LET l == Behind(p)              \* where the length stands
        d == l + 2                  \* the data
        q == d + DataLen(l)         \* the qos
    IN  IF p > Len(image) \/ image[p] = 0 THEN [entries |-> <<>>, whole |-> TRUE]
        ELSE IF l > Len(image) \/ q > Len(image) THEN [entries |-> <<>>, whole |-> FALSE]
        ELSE LET rest == ReadFrom[q + 1]
             IN  [rest EXCEPT !.entries =
                    <<[topic |-> SubSeq(image, p, l - 2),
                       data |-> SubSeq(image, d, q - 1), qos |-> image[q]]>> \o @]

\* The entries es are put into the list, until one fails.
Restored(es, fail) ==
    LET upTo[n \in 0..Len(es)] ==
          IF n = 0 THEN Memory
          ELSE LET m == upTo[n - 1]
               IN  IF ~m.ok THEN m
                   ELSE update_retainedtopic(m, es[n].topic, es[n].data, es[n].qos,
                                             IF n = fail.at THEN fail.what ELSE "none")
    IN  upTo[Len(es)]

Deserialize(fail) ==
    /\ Becomes(Restored(ReadFrom[1].entries, fail))
    /\ UNCHANGED <<image, saved, whole>>

-----------------------------------------------------------------------------
RetainedNext ==
    \/ \E t \in Topic, d \in Data, q \in Qos, fail \in Fails : Update(t, d, q, fail)
    \/ Clear
    \/ \E len \in BufferSizes : Serialize(len)
    \/ \E n \in 0..Len(image) : Cut(n)
    \/ \E n \in Entries, what \in Fails : Deserialize([at |-> n, what |-> what])

RetainedSpec == RetainedInit /\ [][RetainedNext]_retained

-----------------------------------------------------------------------------
\* An entry has both a topic and data, or neither; no topic has two entries.
RetainedTypeOK ==
    /\ list \in [Entries -> {Free} \cup [topic : Topic, data : Data \ {<<>>}, qos : Qos]]
    /\ \A i, j \in Entries : list[i].topic = list[j].topic => i = j \/ list[i].topic = NULL
    /\ heap \in Nat
    /\ image \in Seq(Nat)
    /\ whole \in BOOLEAN
    /\ saved \in [Topic -> {NULL} \cup [data : Data, qos : Qos]]

\* Every block that was allocated belongs to an entry: none is lost and none freed twice,
\* whichever allocation fails.
HeapIsOwned == heap = 2 * Cardinality({i \in Entries : list[i].topic # NULL})

\* The list is a store of values: also when memory runs out between the old value and the
\* new one, and when a cut image is put over a list that is not empty.
Store == INSTANCE RetainedStore WITH
            map <- MapOf(list), Value <- [data : Data, qos : Qos], None <- NULL
AsStore == Store!Spec

\* "Topics can be serialized to a buffer and reinitialized later after reboot": a whole
\* image that is read into an empty list brings back what it was made from.
ReadBackIsSame == [][
    whole /\ (\A i \in Entries : list[i].topic = NULL) /\ Deserialize([at |-> 1, what |-> "none"])
        => MapOf(list') = saved]_retained
=============================================================================
