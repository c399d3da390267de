------------------------------ MODULE MCBroker ------------------------------
(***************************************************************************)
(* Instances of the broker.  Ticks of zero let a timer expire at any time, *)
(* which covers every keepalive; QueueCap = 1 makes every queue overflow.  *)
(***************************************************************************)
EXTENDS Broker

CONSTANTS
    c1, c2, c3,      \* connections
    id1,             \* a client id
    t1, t2,          \* topics
    f1, f2,          \* filters: f1 matches t1, f2 matches t2
    data, last       \* the body of a publication, of a last will

OneMatch == {<<f1, t1>>}
TwoMatches == {<<f1, t1>>, <<f2, t2>>}
SharedMatch == {<<f1, t1>>, <<f1, t2>>, <<f2, t2>>}

SingleFilters == {<<f>> : f \in Filter}
FilterPairs == {<<f1>>, <<f1, f2>>, <<f2, f1>>}

OneWill == {[topic |-> t1, data |-> last, retain |-> FALSE]}
\* The topic of the second one is refused.
RetainedWills == [topic : {t1, t2}, data : {last}, retain : {TRUE}]
WideMatch == {<<f1, t1>>, <<f1, t2>>}

OnePublication == {[topic |-> t1, data |-> data, retain |-> FALSE]}
\* The will's own body, where the runs need not tell the two apart.
SamePublication == OneWill
RetainedPublications == [topic : Topic, data : {Empty, data}, retain : {TRUE}]

Symmetric == Permutations(Conn)
=============================================================================
