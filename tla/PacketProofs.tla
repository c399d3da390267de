---------------------------- MODULE PacketProofs ----------------------------
(***************************************************************************)
(* The way of a packet into the broker.  The packets that a client sends   *)
(* come out of the buffer of MQTT_ClientCon_recv_cb as they were sent,     *)
(* whatever is in them and wherever the segments end, up to the first      *)
(* ragged segment and the packets it completes.  What the functions of     *)
(* mqtt_msg.c read of a packet is what they wrote into it, for all lengths *)
(* that the two bytes of a length hold.  And what mqtt_topics.c finds by   *)
(* looking at characters and tokens is what the levels of a filter and a   *)
(* topic say, for all strings.                                             *)
(***************************************************************************)
EXTENDS PacketStream, PacketCodec, TopicMatch, SequenceLemmas

-----------------------------------------------------------------------------
(* How long a packet says it is *)

\* The length ends with the first byte below Base, or where the bytes end.
LEMMA LengthEndIs ==
    ASSUME NEW b \in Seq(Nat), NEW n \in Nat, n = Len(b)
    PROVE  LET end == LengthEnd(b, n) IN
           \/ /\ end \in 2..n /\ b[end] < Base
              /\ \A i \in 2..n : b[i] < Base => end <= i
           \/ end = n /\ \A i \in 2..n : ~(b[i] < Base)
<1> DEFINE ends == {i \in 2..n : b[i] < Base}
<1>1. CASE ends = {}
    BY <1>1 DEF LengthEnd
<1>2. CASE ends # {}
    <2>1. ends \in SUBSET Nat
        OBVIOUS
    <2>2. PICK x \in ends : \A y \in ends : x <= y
        <3> HIDE DEF ends
        <3> QED BY <1>2, <2>1, LeastElement
    <2>3. Min(ends) \in ends /\ \A y \in ends : Min(ends) <= y
        <3> HIDE DEF ends
        <3> QED BY <2>2 DEF Min
    <2>4. LengthEnd(b, n) = Min(ends)
        BY <1>2 DEF LengthEnd
    <2> HIDE DEF ends
    <2>5. LengthEnd(b, n) \in ends /\ \A y \in ends : LengthEnd(b, n) <= y
        BY <2>3, <2>4
    <2> QED BY <2>5 DEF ends
<1> QED BY <1>1, <1>2

\* What the bytes from the second on stand for.
IsValue(v, b, n, end) ==
    /\ v \in [2..n + 2 -> Nat]
    /\ \A i \in 2..n + 2 : v[i] = IF i > end THEN 0 ELSE (b[i] % Base) + Base * v[i + 1]

LEMMA TotalIs ==
    ASSUME NEW b \in Seq(Nat), NEW n \in Nat, n = Len(b)
    PROVE  \E v : /\ IsValue(v, b, n, LengthEnd(b, n))
                  /\ mqtt_get_total_length(b, n) = LengthEnd(b, n) + v[2]
<1> DEFINE end == LengthEnd(b, n)
           D == 2..n + 2
           rank == [i \in D |-> n + 2 - i]
           stop == {i \in D : i > end}
           base == [i \in D |-> 0]
           next == [i \in D |-> IF i > end THEN i ELSE i + 1]
           step == [x \in D \X Nat |-> IF x[1] > end THEN 0 ELSE (b[x[1]] % Base) + Base * x[2]]
           Equation(f) == [i \in D |-> IF i > end THEN 0 ELSE (b[i] % Base) + Base * f[i + 1]]
           value == CHOOSE f : f = Equation(f)
<1>1. Base \in Nat /\ Base > 0
    BY SizesAssumption
<1>2. end \in 0..n
    <2> DEFINE e == LengthEnd(b, n)
    <2>1. e \in 2..n \/ e = n
        BY LengthEndIs
    <2> QED BY <2>1
<1> HIDE DEF end
<1>3. ASSUME NEW i \in D, i <= end, NEW x \in Nat PROVE (b[i] % Base) + Base * x \in Nat
    <2>1. i \in 1..n /\ b[i] \in Nat
        BY <1>2, <1>3
    <2>2. \A h \in Nat : h % Base \in Nat
        BY <1>1
    <2>3. \A h \in Nat : Base * h \in Nat
        BY <1>1
    <2>4. b[i] % Base \in Nat /\ Base * x \in Nat
        BY <2>1, <2>2, <2>3
    <2> QED BY <2>4
<1>4. step \in [D \X Nat -> Nat]
    <2>1. ASSUME NEW x \in D \X Nat
          PROVE  (IF x[1] > end THEN 0 ELSE (b[x[1]] % Base) + Base * x[2]) \in Nat
        <3>1. x[1] \in D /\ x[2] \in Nat
            OBVIOUS
        <3>2. CASE x[1] > end
            BY <3>2
        <3>3. CASE ~(x[1] > end)
            <4>1. x[1] <= end
                BY <1>2, <3>1, <3>3
            <4>2. (b[x[1]] % Base) + Base * x[2] \in Nat
                BY <1>3, <3>1, <4>1
            <4> QED BY <3>3, <4>2
        <3> QED BY <3>2, <3>3
    <2> QED BY <2>1
<1>5. /\ n + 2 \in Nat /\ rank \in [D -> 0..n + 2] /\ base \in [D -> Nat] /\ next \in [D -> D]
      /\ \A p \in D : p \notin stop => rank[next[p]] < rank[p]
    <2>1. n + 2 \in Nat /\ rank \in [D -> 0..n + 2] /\ base \in [D -> Nat]
        OBVIOUS
    <2>2. \A i \in D : ~(i > end) => i + 1 \in D
        BY <1>2
    <2>3. next \in [D -> D]
        BY <2>2
    <2>4. ASSUME NEW p \in D, p \notin stop PROVE rank[next[p]] < rank[p]
        <3>1. next[p] = p + 1 /\ p + 1 \in D
            BY <2>2, <2>4
        <3>2. rank[p] = n + 2 - p /\ rank[p + 1] = n + 2 - (p + 1)
            BY <3>1
        <3>3. n + 2 - (p + 1) < n + 2 - p
            OBVIOUS
        <3> QED BY <3>1, <3>2, <3>3
    <2> QED BY <2>1, <2>3, <2>4
<1>6. PICK f : Solution(D, Nat, stop, base, next, step, f)
    <2> HIDE DEF D, step, rank, next, base, stop
    <2>1. IsRecursion(D, Nat, n + 2, rank, stop, base, next, step)
        BY <1>4, <1>5 DEF IsRecursion
    <2> QED BY <2>1, Recursion
<1>7. f \in [D -> Nat] /\ \A i \in D : f[i] = IF i > end THEN 0 ELSE (b[i] % Base) + Base * f[i + 1]
    <2>1. f \in [D -> Nat]
        BY <1>6 DEF Solution
    <2>2. ASSUME NEW i \in D PROVE f[i] = IF i > end THEN 0 ELSE (b[i] % Base) + Base * f[i + 1]
        <3>1. CASE i > end
            BY <1>6, <3>1 DEF Solution
        <3>2. CASE ~(i > end)
            <4>1. next[i] = i + 1 /\ i + 1 \in D /\ i \notin stop
                BY <1>2, <3>2
            <4>2. f[i] = step[<<i, f[i + 1]>>]
                <5> HIDE DEF D, step, next, stop
                <5> QED BY <1>6, <4>1 DEF Solution
            <4>3. <<i, f[i + 1]>> \in D \X Nat
                BY <2>1, <4>1
            <4> QED BY <3>2, <4>2, <4>3
        <3> QED BY <3>1, <3>2
    <2> QED BY <2>1, <2>2
<1>8. f = Equation(f)
    BY <1>7
<1>9. value = Equation(value)
    BY <1>8
<1>10. mqtt_get_total_length(b, n) = end + value[2]
    BY DEF mqtt_get_total_length, end
<1>11. IsValue(value, b, n, end)
    <2> HIDE DEF value
    <2>1. \A i \in D : value[i] = IF i > end THEN 0 ELSE (b[i] % Base) + Base * value[i + 1]
        BY <1>9
    <2>2. value \in [D -> Nat]
        <3> DEFINE P == {h \in 0..n : value[n + 2 - h] \in Nat}
        <3>1. 0 \in P
            <4>1. n + 2 \in D /\ n + 2 > end
                BY <1>2
            <4>2. value[n + 2] = 0
                BY <2>1, <4>1
            <4> QED BY <4>2
        <3>2. ASSUME NEW h \in 1..n, h - 1 \in P PROVE h \in P
            <4>1. n + 2 - h \in D /\ (n + 2 - h) + 1 = n + 2 - (h - 1)
                OBVIOUS
            <4>2. value[(n + 2 - h) + 1] \in Nat
                BY <3>2, <4>1
            <4>3. value[n + 2 - h] = IF n + 2 - h > end THEN 0
                                     ELSE (b[n + 2 - h] % Base) + Base * value[(n + 2 - h) + 1]
                BY <2>1, <4>1
            <4>4. CASE n + 2 - h > end
                BY <4>3, <4>4
            <4>5. CASE ~(n + 2 - h > end)
                <5>1. n + 2 - h <= end
                    BY <1>2, <4>1, <4>5
                <5>2. (b[n + 2 - h] % Base) + Base * value[(n + 2 - h) + 1] \in Nat
                    BY <1>3, <4>1, <4>2, <5>1
                <5>3. value[n + 2 - h] \in Nat
                    BY <4>3, <4>5, <5>2
                <5> QED BY <5>3
            <4> QED BY <4>4, <4>5
        <3>3. \A h \in 0..n : h \in P
            <4> HIDE DEF P
            <4> QED BY <3>1, <3>2, InductionTo
        <3>4. ASSUME NEW i \in D PROVE value[i] \in Nat
            <4>1. n + 2 - i \in 0..n /\ n + 2 - (n + 2 - i) = i
                OBVIOUS
            <4>2. n + 2 - i \in P
                BY <3>3, <4>1
            <4> QED BY <4>1, <4>2
        <3>5. value = Equation(value)
            BY <1>9
        <3>6. value = [i \in D |-> value[i]]
            BY <3>5, Zenon
        <3> QED BY <3>4, <3>6
    <2> QED BY <2>1, <2>2 DEF IsValue
<1> QED BY <1>10, <1>11 DEF end

\* The number that a length of one byte or of two stands for.
LengthAt(b, e) == e + (b[2] % Base) + (IF e = 2 THEN 0 ELSE Base * (b[3] % Base))

\* The length ends at e, in the fixed header.
EndsAt(b, e) == e \in 2..3 /\ e <= Len(b) /\ b[e] < Base /\ \A i \in 2..e : b[i] < Base => i = e

LEMMA TotalAt ==
    ASSUME NEW b \in Seq(Nat), NEW e, EndsAt(b, e)
    PROVE  mqtt_get_total_length(b, Len(b)) = LengthAt(b, e)
<1> DEFINE n == Len(b)
           end == LengthEnd(b, n)
<1>1. n \in Nat /\ e \in 2..3 /\ e <= n /\ b[e] < Base /\ \A i \in 2..e : b[i] < Base => i = e
    BY DEF EndsAt
<1>2. end = e
    <2>1. \/ end \in 2..n /\ b[end] < Base /\ \A i \in 2..n : b[i] < Base => end <= i
          \/ end = n /\ \A i \in 2..n : ~(b[i] < Base)
        BY LengthEndIs
    <2> HIDE DEF end
    <2>2. e \in 2..n
        BY <1>1
    <2>3. end \in 2..n /\ b[end] < Base /\ end <= e
        BY <1>1, <2>1, <2>2
    <2> QED BY <1>1, <2>3
<1>3. PICK v : IsValue(v, b, n, end) /\ mqtt_get_total_length(b, n) = end + v[2]
    BY <1>1, TotalIs
<1> HIDE DEF end, n
<1>4. \A i \in 2..n + 2 : v[i] \in Nat /\ v[i] = IF i > e THEN 0 ELSE (b[i] % Base) + Base * v[i + 1]
    BY <1>2, <1>3 DEF IsValue
<1>5. Base \in Nat /\ Base > 0 /\ \A h \in Nat : h % Base \in Nat
    BY SizesAssumption
<1>5a. Base * 0 = 0
    BY <1>5
<1>6. CASE e = 2
    <2>1. v[3] = 0
        BY <1>1, <1>4, <1>6
    <2>2. v[2] = (b[2] % Base) + Base * v[3]
        BY <1>1, <1>4, <1>6
    <2>3. b[2] \in Nat
        BY <1>1, <1>6 DEF n
    <2>4. b[2] % Base \in Nat
        BY <1>5, <2>3
    <2>5. v[2] = b[2] % Base
        BY <1>5a, <2>1, <2>2, <2>4
    <2>6. mqtt_get_total_length(b, n) = 2 + (b[2] % Base)
        BY <1>2, <1>3, <1>6, <2>5
    <2>7. LengthAt(b, e) = 2 + (b[2] % Base)
        BY <1>6, <2>4 DEF LengthAt
    <2> QED BY <2>6, <2>7 DEF n
<1>7. CASE e = 3
    <2>1. v[4] = 0
        BY <1>1, <1>4, <1>7
    <2>2. v[3] = (b[3] % Base) + Base * v[4]
        BY <1>1, <1>4, <1>7
    <2>3. v[2] = (b[2] % Base) + Base * v[3]
        BY <1>1, <1>4, <1>7
    <2>4. b[2] \in Nat /\ b[3] \in Nat
        BY <1>1, <1>7 DEF n
    <2>5. b[2] % Base \in Nat /\ b[3] % Base \in Nat
        BY <1>5, <2>4
    <2>6. v[3] = b[3] % Base
        BY <1>5a, <2>1, <2>2, <2>5
    <2>7. v[2] = (b[2] % Base) + Base * (b[3] % Base)
        BY <2>3, <2>6
    <2>8. Base * (b[3] % Base) \in Nat
        BY <1>5, <2>5
    <2>9. mqtt_get_total_length(b, n) = 3 + ((b[2] % Base) + Base * (b[3] % Base))
        BY <1>2, <1>3, <1>7, <2>7
    <2>10. LengthAt(b, e) = (3 + (b[2] % Base)) + Base * (b[3] % Base)
        BY <1>7 DEF LengthAt
    <2> DEFINE x == b[2] % Base
               y == Base * (b[3] % Base)
    <2>11. x \in Nat /\ y \in Nat => 3 + (x + y) = (3 + x) + y
        <3> HIDE DEF x, y
        <3> QED OBVIOUS
    <2> QED BY <2>5, <2>8, <2>9, <2>10, <2>11 DEF n
<1> QED BY <1>1, <1>6, <1>7

\* b and the packet p are the same as far as both go.
Agree(b, p) == \A i \in 1..Len(b) : i <= Len(p) => b[i] = p[i]

\* The broker reads the length of a packet off its fixed header, with what comes behind it or
\* without.
LEMMA PrefixTotal ==
    ASSUME NEW p \in Packets, NEW b \in Seq(Nat), Agree(b, p),
           Len(b) >= MaxFixedHeader \/ Len(b) >= Len(p)
    PROVE  mqtt_get_total_length(b, Len(b)) = Len(p)
<1>1. /\ p \in Seq(Nat) /\ Len(p) \in Nat /\ Len(p) >= 2 /\ Len(b) \in Nat
      /\ mqtt_get_total_length(p, Len(p)) = Len(p)
      /\ \E i \in 2..3 : i <= Len(p) /\ p[i] < Base
    BY PacketsAssumption DEF MaxFixedHeader
<1>2. PICK e \in 2..3 : EndsAt(p, e)
    <2>1. CASE p[2] < Base
        <3>1. EndsAt(p, 2)
            BY <1>1, <2>1 DEF EndsAt
        <3> QED BY <3>1
    <2>2. CASE ~(p[2] < Base)
        <3>1. PICK i \in 2..3 : i <= Len(p) /\ p[i] < Base
            BY <1>1
        <3>2. i = 3
            BY <2>2, <3>1
        <3>3. 3 <= Len(p) /\ p[3] < Base
            BY <3>1, <3>2
        <3>4. \A j \in 2..3 : p[j] < Base => j = 3
            BY <2>2
        <3>5. EndsAt(p, 3)
            BY <3>3, <3>4 DEF EndsAt
        <3> QED BY <3>5
    <2> QED BY <2>1, <2>2
<1>3. e <= Len(p) /\ e <= Len(b)
    <2>1. e <= Len(p) /\ e \in Nat /\ e <= 3
        BY <1>2 DEF EndsAt
    <2>2. Len(b) >= 3 \/ Len(b) >= Len(p)
        BY DEF MaxFixedHeader
    <2>3. Len(p) \in Nat /\ Len(b) \in Nat
        BY <1>1
    <2> QED BY <2>1, <2>2, <2>3
<1>4. \A i \in 1..e : b[i] = p[i]
    <2>1. ASSUME NEW i \in 1..e PROVE i \in 1..Len(b) /\ i <= Len(p)
        BY <1>1, <1>3
    <2>2. \A i \in 1..Len(b) : i <= Len(p) => b[i] = p[i]
        BY DEF Agree
    <2> QED BY <2>1, <2>2
<1>5. EndsAt(b, e)
    <2>1. b[e] = p[e]
        BY <1>4
    <2>2. \A i \in 2..e : b[i] = p[i]
        BY <1>4
    <2> QED BY <1>2, <1>3, <2>1, <2>2 DEF EndsAt
<1>6. LengthAt(b, e) = LengthAt(p, e)
    <2>1. b[2] = p[2] /\ (e # 2 => b[3] = p[3])
        BY <1>4
    <2> QED BY <2>1 DEF LengthAt
<1>7. mqtt_get_total_length(b, Len(b)) = LengthAt(b, e)
    BY <1>5, TotalAt
<1>8. mqtt_get_total_length(p, Len(p)) = LengthAt(p, e)
    BY <1>1, <1>2, TotalAt
<1> QED BY <1>1, <1>6, <1>7, <1>8

\* Of a packet that is not whole the broker reads that there is more to come, if what there is
\* does not pass for a whole one.
LEMMA PrefixIsKept ==
    ASSUME NEW p \in Packets, NEW b \in Seq(Nat), Agree(b, p), b # <<>>, Len(b) < Len(p),
           ~PassesForWhole(p, Len(b))
    PROVE  mqtt_get_total_length(b, Len(b)) > Len(b)
<1>1. /\ p \in Seq(Nat) /\ Len(p) \in Nat /\ mqtt_get_total_length(p, Len(p)) = Len(p)
      /\ Len(b) \in Nat /\ Len(b) # 0
    BY PacketsAssumption, EmptySeq
<1>2. CASE Len(b) >= 3
    <2>1. mqtt_get_total_length(b, Len(b)) = Len(p)
        BY <1>2, PrefixTotal DEF MaxFixedHeader
    <2> QED BY <1>1, <2>1
<1>3. CASE ~(Len(b) >= 3)
    <2>1. Len(b) = 2
        <3>1. Len(b) # 1
            BY Zenon DEF PassesForWhole
        <3> DEFINE z == Len(b)
        <3>2. z \in Nat /\ z # 0 /\ z # 1 /\ ~(z >= 3)
            BY <1>1, <1>3, <3>1
        <3> HIDE DEF z
        <3>3. z = 2
            BY <3>2
        <3> QED BY <3>3 DEF z
    <2>2. p[2] >= Base => p[2] % Base # 0
        BY <2>1 DEF PassesForWhole
    <2>3. /\ b[2] = p[2] /\ b[2] \in Nat /\ Base \in Nat /\ Base > 0
          /\ b[2] % Base \in Nat
        <3>1. 2 \in 1..Len(b) /\ 2 <= Len(p)
            BY <1>1, <2>1
        <3>2. b[2] = p[2] /\ b[2] \in Nat
            BY <3>1 DEF Agree
        <3>3. Base \in Nat /\ Base > 0 /\ \A h \in Nat : h % Base \in Nat
            BY SizesAssumption
        <3> QED BY <3>2, <3>3
    <2>4. CASE p[2] < Base
        <3>1. EndsAt(b, 2) /\ EndsAt(p, 2)
            BY <1>1, <2>1, <2>3, <2>4 DEF EndsAt
        <3>2. mqtt_get_total_length(b, Len(b)) = LengthAt(b, 2) /\ Len(p) = LengthAt(p, 2)
            BY <1>1, <3>1, TotalAt
        <3>3. LengthAt(b, 2) = LengthAt(p, 2)
            BY <2>3 DEF LengthAt
        <3> QED BY <3>2, <3>3
    <2>5. CASE ~(p[2] < Base)
        <3> DEFINE x == b[2] % Base
                   total == mqtt_get_total_length(b, Len(b))
        <3>1. x \in Nat /\ x # 0
            BY <2>2, <2>3, <2>5
        <3>2. LengthEnd(b, 2) = 2
            <4> DEFINE e == LengthEnd(b, Len(b))
            <4>1. e \in 2..Len(b) \/ e = Len(b)
                BY <1>1, LengthEndIs
            <4> HIDE DEF e
            <4>2. e = 2
                BY <2>1, <4>1
            <4> QED BY <2>1, <4>2 DEF e
        <3>3. PICK v : IsValue(v, b, 2, 2) /\ total = 2 + v[2]
            BY <2>1, <3>2, TotalIs
        <3>4. v[2] = x + Base * v[3] /\ v[3] = 0
            BY <3>3 DEF IsValue
        <3>5. Base * 0 = 0
            BY <2>3
        <3> HIDE DEF x, total
        <3>6. total = 2 + x
            BY <3>1, <3>3, <3>4, <3>5
        <3>7. total > 2
            BY <3>1, <3>6
        <3> QED BY <2>1, <3>7 DEF total
    <2> QED BY <2>4, <2>5
<1> QED BY <1>2, <1>3

\* The broker takes at least one byte off what it has.
LEMMA TotalPositive ==
    ASSUME NEW b \in Seq(Nat)
    PROVE  /\ mqtt_get_total_length(b, Len(b)) \in Nat
           /\ Len(b) > 0 => mqtt_get_total_length(b, Len(b)) > 0
<1> DEFINE n == Len(b)
           end == LengthEnd(b, n)
<1>1. n \in Nat
    OBVIOUS
<1>2. end \in 2..n \/ end = n
    BY LengthEndIs
<1>3. PICK v : IsValue(v, b, n, end) /\ mqtt_get_total_length(b, n) = end + v[2]
    BY <1>1, TotalIs
<1> HIDE DEF end, n
<1>4. v[2] \in Nat
    BY <1>1, <1>3 DEF IsValue
<1>5. end \in Nat /\ (n > 0 => end > 0)
    BY <1>1, <1>2
<1>6. end + v[2] \in Nat /\ (n > 0 => end + v[2] > 0)
    BY <1>4, <1>5
<1> QED BY <1>3, <1>6 DEF n

-----------------------------------------------------------------------------
(* Taking the packets out of what has arrived *)

\* What READPACKET has before it when pdata is at p.
AtHand(old, seg, p, behind) ==
    IF p = 0 THEN old \o seg
    ELSE [i \in 1..Len(old) + Len(seg) - p |-> IF p + i <= Len(seg) THEN seg[p + i] ELSE behind]

\* What it makes of it: whole packets, and what is kept.
Result == [packets : Seq(Seq(Nat)), kept : Seq(Nat)]

\* One round of READPACKET, b being what it has before it and rest what comes of what is behind
\* the first packet.
Round(b, rest) ==
    LET total == mqtt_get_total_length(b, Len(b))
    IN  IF total > Len(b) THEN [packets |-> <<>>, kept |-> b]
        ELSE IF total = Len(b) THEN [packets |-> <<b>>, kept |-> <<>>]
        ELSE [packets |-> <<SubSeq(b, 1, total)>> \o rest.packets, kept |-> rest.kept]

LEMMA AtHandIs ==
    ASSUME NEW old \in Seq(Nat), NEW seg \in Seq(Nat), NEW behind \in Nat,
           NEW p \in 0..Len(old) + Len(seg)
    PROVE  /\ AtHand(old, seg, p, behind) \in Seq(Nat)
           /\ Len(AtHand(old, seg, p, behind)) = (Len(old) + Len(seg)) - p
<1>1. Len(old) \in Nat /\ Len(seg) \in Nat
    BY LenProperties
<1>2. CASE p = 0
    <2>1. old \o seg \in Seq(Nat) /\ Len(old \o seg) = Len(old) + Len(seg)
        BY ConcatProperties
    <2> QED BY <1>1, <1>2, <2>1 DEF AtHand
<1>3. CASE p # 0
    <2> DEFINE m == (Len(old) + Len(seg)) - p
               e == [i \in 1..m |-> IF p + i <= Len(seg) THEN seg[p + i] ELSE behind]
    <2>1. m \in Nat
        BY <1>1
    <2>2. ASSUME NEW i \in 1..m PROVE (IF p + i <= Len(seg) THEN seg[p + i] ELSE behind) \in Nat
        <3>1. p \in Nat /\ i \in Nat /\ i > 0
            BY <1>1
        <3> HIDE DEF m
        <3>2. CASE p + i <= Len(seg)
            <4>1. p + i \in 1..Len(seg)
                BY <1>1, <3>1, <3>2
            <4>2. seg[p + i] \in Nat
                BY <4>1, ElementOfSeq
            <4> QED BY <3>2, <4>2
        <3>3. CASE ~(p + i <= Len(seg))
            BY <3>3
        <3> QED BY <3>2, <3>3
    <2>3. AtHand(old, seg, p, behind) = e
        BY <1>3 DEF AtHand
    <2>4. e \in Seq(Nat) /\ Len(e) = m
        <3> HIDE DEF m
        <3>1. e \in [1..m -> Nat]
            BY <2>2
        <3> HIDE DEF e
        <3>2. e \in Seq(Nat)
            BY <2>1, <3>1, IsASeq
        <3>3. Len(e) = m
            BY <2>1, <3>1, <3>2, LenProperties
        <3> QED BY <3>2, <3>3
    <2> QED BY <2>3, <2>4
<1> QED BY <1>2, <1>3

LEMMA UnpackedIs ==
    ASSUME NEW seg \in Seq(Nat), NEW behind \in Nat, buffered \in Seq(Nat)
    PROVE  \E f : /\ Unpacked(seg, behind) = f[0]
                  /\ \A p \in 0..Len(buffered) + Len(seg) :
                        LET b == AtHand(buffered, seg, p, behind)
                        IN  f[p] = Round(b, f[p + mqtt_get_total_length(b, Len(b))])
<1> DEFINE end == Len(buffered) + Len(seg)
           D == 0..end
           B(p) == AtHand(buffered, seg, p, behind)
           T(p) == mqtt_get_total_length(B(p), Len(B(p)))
           stop == {p \in D : T(p) >= Len(B(p))}
           rank == [p \in D |-> end - p]
           next == [p \in D |-> IF T(p) >= Len(B(p)) THEN p ELSE p + T(p)]
           base == [p \in D |-> IF T(p) > Len(B(p)) THEN [packets |-> <<>>, kept |-> B(p)]
                                ELSE [packets |-> <<B(p)>>, kept |-> <<>>]]
           step == [x \in D \X Result |->
                       IF T(x[1]) >= Len(B(x[1])) THEN x[2]
                       ELSE [packets |-> <<SubSeq(B(x[1]), 1, T(x[1]))>> \o x[2].packets,
                             kept |-> x[2].kept]]
           Equation(f) == [p \in D |-> Round(B(p), f[p + T(p)])]
           from == CHOOSE f : f = Equation(f)
<1>1. end \in Nat
    BY LenProperties
<1>2. ASSUME NEW p \in D PROVE B(p) \in Seq(Nat) /\ Len(B(p)) = end - p
    <2>1. p \in 0..Len(buffered) + Len(seg)
        OBVIOUS
    <2>2. /\ AtHand(buffered, seg, p, behind) \in Seq(Nat)
          /\ Len(AtHand(buffered, seg, p, behind)) = (Len(buffered) + Len(seg)) - p
        <3> HIDE DEF D
        <3> QED BY <2>1, AtHandIs, Zenon
    <2> QED BY <2>2
<1> HIDE DEF end, B
<1>3. \A p \in D : Len(B(p)) > 0 => T(p) \in Nat /\ T(p) > 0
    BY <1>2, TotalPositive
<1>4. \A p \in D : T(p) \in Nat
    BY <1>2, TotalPositive
<1>5. \A p \in D : p \notin stop => T(p) \in Nat /\ T(p) > 0 /\ p + T(p) \in D
    <2> SUFFICES ASSUME NEW p \in D, p \notin stop PROVE T(p) \in Nat /\ T(p) > 0 /\ p + T(p) \in D
        OBVIOUS
    <2>1. ~(T(p) >= Len(B(p)))
        OBVIOUS
    <2> HIDE DEF T, stop
    <2>2. Len(B(p)) = end - p
        BY <1>2
    <2>3. p # end
        <3>1. end \in D /\ T(end) \in Nat /\ Len(B(end)) = 0
            BY <1>1, <1>2, <1>4
        <3>2. ASSUME p = end PROVE FALSE
            <4>1. ~(T(end) >= 0)
                BY <2>1, <3>1, <3>2
            <4> QED BY <3>1, <4>1
        <3> QED BY <3>2
    <2>4. Len(B(p)) > 0
        BY <1>1, <2>2, <2>3
    <2>5. T(p) \in Nat /\ T(p) > 0
        BY <1>3, <2>4
    <2>6. p + T(p) \in D
        BY <1>1, <2>1, <2>2, <2>5
    <2> QED BY <2>5, <2>6
<1>6. rank \in [D -> 0..end] /\ next \in [D -> D] /\ \A p \in D : p \notin stop => rank[next[p]] < rank[p]
    <2>1. rank \in [D -> 0..end]
        BY <1>1
    <2>2. \A p \in D : p \notin stop => next[p] = p + T(p)
        OBVIOUS
    <2>3. \A p \in D : p \in stop => next[p] = p
        OBVIOUS
    <2>4. \A p \in D : next[p] \in D
        <3> HIDE DEF D, next, stop, T
        <3> QED BY <1>5, <2>2, <2>3
    <2>5. next \in [D -> D]
        <3> DEFINE N(p) == IF T(p) >= Len(B(p)) THEN p ELSE p + T(p)
        <3>1. \A p \in D : N(p) \in D
            <4>1. \A p \in D : next[p] = N(p)
                OBVIOUS
            <4> HIDE DEF next, N, D
            <4> QED BY <2>4, <4>1
        <3> HIDE DEF N, D
        <3>2. next = [p \in D |-> N(p)]
            BY DEF N
        <3> HIDE DEF next
        <3> QED BY <3>1, <3>2
    <2>6. ASSUME NEW p \in D, p \notin stop PROVE rank[next[p]] < rank[p]
        <3>1. T(p) \in Nat /\ T(p) > 0 /\ p + T(p) \in D
            BY <1>5, <2>6
        <3>2. next[p] = p + T(p)
            BY <2>2, <2>6
        <3> HIDE DEF next, T, stop
        <3>3. rank[p + T(p)] = end - (p + T(p)) /\ rank[p] = end - p
            BY <3>1
        <3> QED BY <1>1, <3>1, <3>2, <3>3
    <2> QED BY <2>1, <2>5, <2>6
<1>7. base \in [D -> Result]
    <2>1. ASSUME NEW p \in D
          PROVE  /\ [packets |-> <<>>, kept |-> B(p)] \in Result
                 /\ [packets |-> <<B(p)>>, kept |-> <<>>] \in Result
        <3>1. B(p) \in Seq(Nat) /\ <<B(p)>> \in Seq(Seq(Nat)) /\ <<>> \in Seq(Nat) /\ <<>> \in Seq(Seq(Nat))
            BY <1>2
        <3> QED BY <3>1 DEF Result
    <2> HIDE DEF T, D
    <2> QED BY <2>1
<1>8. step \in [D \X Result -> Result]
    <2> DEFINE More(x) == [packets |-> <<SubSeq(B(x[1]), 1, T(x[1]))>> \o x[2].packets,
                           kept |-> x[2].kept]
               Step(x) == IF T(x[1]) >= Len(B(x[1])) THEN x[2] ELSE More(x)
    <2>1. ASSUME NEW x \in D \X Result, ~(T(x[1]) >= Len(B(x[1]))) PROVE More(x) \in Result
        <3>1. x[1] \in D /\ x[2] \in Result
            OBVIOUS
        <3>2. x[2].packets \in Seq(Seq(Nat)) /\ x[2].kept \in Seq(Nat)
            BY <3>1 DEF Result
        <3> DEFINE s == SubSeq(B(x[1]), 1, T(x[1]))
                   t == T(x[1])
                   w == B(x[1])
        <3>3. t \in Nat /\ w \in Seq(Nat) /\ ~(t >= Len(w))
            BY <1>2, <1>4, <2>1, <3>1
        <3>4. s \in Seq(Nat)
            <4>1. s = SubSeq(w, 1, t)
                OBVIOUS
            <4> HIDE DEF s, t, w
            <4>2. \A i \in 1..t : w[i] \in Nat
                BY <3>3
            <4> QED BY <3>3, <4>1, <4>2, SubSeqProperties
        <3>5. <<s>> \o x[2].packets \in Seq(Seq(Nat))
            <4> HIDE DEF s
            <4>1. <<s>> \in Seq(Seq(Nat))
                BY <3>4
            <4> QED BY <3>2, <4>1, ConcatProperties
        <3>6. More(x) = [packets |-> <<s>> \o x[2].packets, kept |-> x[2].kept]
            OBVIOUS
        <3> HIDE DEF s, More
        <3> QED BY <3>2, <3>5, <3>6 DEF Result
    <2>2. \A x \in D \X Result : Step(x) \in Result
        <3> HIDE DEF More, T, D
        <3> QED BY <2>1
    <2>3. step = [x \in D \X Result |-> Step(x)]
        OBVIOUS
    <2> HIDE DEF Step, D, step
    <2> QED BY <2>2, <2>3
<1>9. PICK f : Solution(D, Result, stop, base, next, step, f)
    <2>1. IsRecursion(D, Result, end, rank, stop, base, next, step)
        <3> HIDE DEF D, step, rank, next, base, stop
        <3> QED BY <1>1, <1>6, <1>7, <1>8 DEF IsRecursion
    <2> HIDE DEF D, step, rank, next, base, stop
    <2> QED BY <2>1, Recursion
<1>10. ASSUME NEW p \in D PROVE f[p] = Round(B(p), f[p + T(p)])
    <2>1. Len(B(p)) \in Nat /\ T(p) \in Nat
        BY <1>2, <1>4
    <2>2. CASE T(p) >= Len(B(p))
        <3>1. f[p] = base[p]
            BY <1>9, <2>2 DEF Solution
        <3>2. base[p] = IF T(p) > Len(B(p)) THEN [packets |-> <<>>, kept |-> B(p)]
                        ELSE [packets |-> <<B(p)>>, kept |-> <<>>]
            OBVIOUS
        <3>3. T(p) > Len(B(p)) \/ (T(p) = Len(B(p)) /\ ~(T(p) > Len(B(p))))
            BY <2>1, <2>2
        <3> HIDE DEF base, stop, D
        <3> QED BY <3>1, <3>2, <3>3 DEF Round
    <2>3. CASE ~(T(p) >= Len(B(p)))
        <3>1. p \notin stop
            BY <2>3
        <3>2. next[p] = p + T(p)
            BY <2>3
        <3>3. f[p] = step[<<p, f[next[p]]>>] /\ f \in [D -> Result]
            <4> HIDE DEF step, stop, next, D
            <4> QED BY <1>9, <3>1 DEF Solution
        <3>4. p + T(p) \in D
            BY <1>5, <3>1
        <3>5. <<p, f[p + T(p)]>> \in D \X Result
            <4> HIDE DEF step, stop, next, D, T
            <4> QED BY <3>3, <3>4
        <3>6. step[<<p, f[p + T(p)]>>] =
                 [packets |-> <<SubSeq(B(p), 1, T(p))>> \o f[p + T(p)].packets,
                  kept |-> f[p + T(p)].kept]
            <4> HIDE DEF D
            <4> QED BY <2>3, <3>5
        <3>7. ~(T(p) > Len(B(p))) /\ T(p) # Len(B(p))
            BY <2>1, <2>3
        <3> HIDE DEF step, stop, next, D
        <3> QED BY <3>2, <3>3, <3>6, <3>7 DEF Round
    <2> QED BY <2>2, <2>3
<1>11. f = Equation(f)
    <2>1. f = [p \in D |-> f[p]]
        BY <1>9 DEF Solution
    <2> QED BY <1>10, <2>1
<1>12. from = Equation(from)
    BY <1>11, Zenon
<1>13. Unpacked(seg, behind) = from[0]
    BY DEF Unpacked, Copied, AtHand, Round, B, end
<1>14. \A p \in D : from[p] = Round(B(p), from[p + T(p)])
    <2> HIDE DEF from
    <2> QED BY <1>12
<1> QED BY <1>13, <1>14 DEF B, end

-----------------------------------------------------------------------------
(* Places in the stream *)

\* s are the bytes of S behind the first at.
Place(s, S, at) ==
    /\ s \in Seq(Nat) /\ at + Len(s) <= Len(S)
    /\ \A i \in 1..Len(s) : s[i] = S[at + i]

LEMMA PlaceIs ==
    ASSUME NEW S \in Seq(Nat), NEW s, NEW at \in Nat, Place(s, S, at)
    PROVE  s = SubSeq(S, at + 1, at + Len(s))
<1> DEFINE n == Len(s)
           t == SubSeq(S, at + 1, at + n)
<1>1. s \in Seq(Nat) /\ n \in Nat /\ at + n <= Len(S) /\ Len(S) \in Nat
    BY DEF Place
<1>2. \A i \in 1..n : s[i] = S[at + i]
    BY DEF Place
<1> HIDE DEF n
<1>4. t \in Seq(Nat) /\ Len(t) = n /\ \A i \in 1..n : t[i] = S[at + i]
    <2>1. at + n \in Nat /\ at <= at + n /\ (at + n) - at = n
        BY <1>1
    <2> QED BY <1>1, <2>1, PartIs
<1>5. Len(s) = n
    BY DEF n
<1> HIDE DEF t
<1>6. s = t
    BY <1>1, <1>2, <1>4, <1>5, SeqEqual
<1> QED BY <1>6 DEF t, n

\* What is behind a, and what is behind that.
LEMMA PartsPlaced ==
    ASSUME NEW a \in Seq(Nat), NEW b \in Seq(Nat), NEW d \in Seq(Nat)
    PROVE  /\ Place(b, a \o b \o d, Len(a)) /\ Place(d, a \o b \o d, Len(a) + Len(b))
           /\ Len(a \o b \o d) = Len(a) + Len(b) + Len(d)
<1> DEFINE ab == a \o b
           S == ab \o d
           l == Len(a)
           m == Len(b)
           n == Len(d)
<1>1. l \in Nat /\ m \in Nat /\ n \in Nat
    BY LenProperties
<1>2. IsJoin(ab, a, b, l, m)
    BY Join
<1>3. ab \in Seq(Nat) /\ Len(ab) = l + m
    BY <1>2 DEF IsJoin
<1>4. IsJoin(S, ab, d, l + m, n)
    <2>1. IsJoin(S, ab, d, Len(ab), n)
        <3> HIDE DEF ab
        <3> QED BY <1>3, Join
    <2> QED BY <1>3, <2>1
<1> HIDE DEF ab, S, l, m, n
<1>5. /\ Len(S) = l + m + n /\ \A i \in 1..n : S[l + m + i] = d[i]
      /\ \A i \in 1..l + m : S[i] = ab[i]
    BY <1>4 DEF IsJoin
<1>6. ASSUME NEW i \in 1..m PROVE S[l + i] = b[i]
    <2>1. l + i \in 1..l + m
        BY <1>1
    <2>2. ab[l + i] = b[i]
        BY <1>2 DEF IsJoin
    <2> QED BY <1>5, <2>1, <2>2
<1>7. Len(a) = l /\ Len(b) = m /\ Len(d) = n
    BY DEF l, m, n
<1>8. Place(b, S, l)
    BY <1>1, <1>5, <1>6, <1>7 DEF Place
<1>9. Place(d, S, l + m)
    BY <1>1, <1>5, <1>7 DEF Place
<1> QED BY <1>5, <1>7, <1>8, <1>9 DEF S, ab

\* Two pieces next to each other are one.
LEMMA PlacesJoin ==
    ASSUME NEW S \in Seq(Nat), NEW at \in Nat, NEW s, NEW t, Place(s, S, at), Place(t, S, at + Len(s))
    PROVE  Place(s \o t, S, at) /\ Len(s \o t) = Len(s) + Len(t)
<1> DEFINE m == Len(s)
           n == Len(t)
           r == s \o t
<1>1. /\ s \in Seq(Nat) /\ t \in Seq(Nat) /\ m \in Nat /\ n \in Nat /\ at + m + n <= Len(S)
      /\ \A i \in 1..m : s[i] = S[at + i]
      /\ \A i \in 1..n : t[i] = S[at + m + i]
    BY DEF Place
<1>2. IsJoin(r, s, t, m, n)
    BY <1>1, Join
<1> HIDE DEF r, m, n
<1>3. /\ r \in Seq(Nat) /\ Len(r) = m + n /\ \A j \in 1..m : r[j] = s[j]
      /\ \A j \in 1..n : r[m + j] = t[j]
    BY <1>2 DEF IsJoin
<1>4. ASSUME NEW i \in 1..m + n PROVE r[i] = S[at + i]
    <2>1. CASE i <= m
        <3>1. i \in 1..m
            BY <1>1, <2>1
        <3> QED BY <1>1, <1>3, <3>1
    <2>2. CASE ~(i <= m)
        <3>1. i - m \in 1..n /\ m + (i - m) = i /\ at + m + (i - m) = at + i
            <4>1. m \in Nat /\ n \in Nat
                BY <1>1
            <4> QED BY <2>2, <4>1
        <3>2. r[m + (i - m)] = t[i - m]
            BY <1>3, <3>1
        <3>3. t[i - m] = S[at + m + (i - m)]
            BY <1>1, <3>1
        <3> QED BY <3>1, <3>2, <3>3
    <2> QED BY <2>1, <2>2
<1>5. at + (m + n) <= Len(S)
    <2>1. Len(S) \in Nat
        OBVIOUS
    <2> QED BY <1>1, <2>1
<1>6. Place(r, S, at)
    BY <1>3, <1>4, <1>5 DEF Place
<1> QED BY <1>3, <1>6 DEF r, m, n

\* A piece of a piece.
LEMMA PlaceOfPart ==
    ASSUME NEW S \in Seq(Nat), NEW at \in Nat, NEW s, Place(s, S, at),
           NEW i \in Nat, NEW j \in Nat, i <= j, j <= Len(s)
    PROVE  Place(SubSeq(s, i + 1, j), S, at + i) /\ Len(SubSeq(s, i + 1, j)) = j - i
<1> DEFINE t == SubSeq(s, i + 1, j)
<1>1. /\ s \in Seq(Nat) /\ Len(s) \in Nat /\ at + Len(s) <= Len(S) /\ Len(S) \in Nat
      /\ \A x \in 1..Len(s) : s[x] = S[at + x]
    <2>1. s \in Seq(Nat) /\ at + Len(s) <= Len(S) /\ \A x \in 1..Len(s) : s[x] = S[at + x]
        BY DEF Place
    <2> QED BY <2>1, LenProperties
<1>2. t \in Seq(Nat) /\ Len(t) = j - i /\ \A x \in 1..j - i : t[x] = s[i + x]
    BY <1>1, PartIs
<1> HIDE DEF t
<1>5. ASSUME NEW x \in 1..j - i PROVE t[x] = S[at + i + x]
    <2>0. Len(s) \in Nat
        BY <1>1
    <2>1. i + x \in 1..Len(s) /\ at + (i + x) = at + i + x
        BY <2>0
    <2>2. t[x] = s[i + x]
        BY <1>2
    <2>4. s[i + x] = S[at + (i + x)]
        BY <1>1, <2>1
    <2> QED BY <2>1, <2>2, <2>4
<1>6. at + i + (j - i) <= Len(S)
    BY <1>1
<1>7. Place(t, S, at + i)
    BY <1>2, <1>5, <1>6 DEF Place
<1> QED BY <1>2, <1>7 DEF t

\* The packets ss make the bytes S.
InStream(ss, off, S) == ss \in Seq(Packets) /\ S \in Seq(Nat) /\ IsOffsets(off, ss, Len(ss), S)

LEMMA PacketBytes ==
    /\ \A p \in Packets : p \in Seq(Nat) /\ Len(p) \in Nat /\ Len(p) >= 2
    /\ \A ss \in Seq(Packets) : ss \in [1..Len(ss) -> Seq(Nat)] /\ Len(ss) \in Nat
<1>1. ASSUME NEW p \in Packets PROVE p \in Seq(Nat) /\ Len(p) \in Nat /\ Len(p) >= 2
    <2>1. p \in Seq(Nat) /\ Len(p) \in 2..BufSize /\ BufSize \in Nat
        BY PacketsAssumption, SizesAssumption
    <2> QED BY <2>1
<1>2. ASSUME NEW ss \in Seq(Packets) PROVE ss \in [1..Len(ss) -> Seq(Nat)] /\ Len(ss) \in Nat
    <2>1. ss \in [1..Len(ss) -> Packets] /\ Len(ss) \in Nat
        BY LenProperties
    <2>2. \A i \in 1..Len(ss) : ss[i] \in Seq(Nat)
        BY <1>1, <2>1
    <2> QED BY <2>1, <2>2
<1> QED BY <1>1, <1>2

LEMMA PacketAt ==
    ASSUME NEW ss, NEW off, NEW S, InStream(ss, off, S), NEW j \in 1..Len(ss)
    PROVE  /\ ss[j] \in Packets /\ Place(ss[j], S, off[j - 1])
           /\ off[j] = off[j - 1] + Len(ss[j]) /\ off[j - 1] \in Nat /\ off[j] \in Nat
<1> DEFINE n == Len(ss)
<1>1. ss \in Seq(Packets) /\ IsOffsets(off, ss, n, S) /\ n \in Nat
    BY PacketBytes DEF InStream
<1>2. ss \in [1..n -> Seq(Nat)] /\ ss[j] \in Packets
    BY <1>1, PacketBytes, ElementOfSeq
<1> HIDE DEF n
<1>3. /\ off[j] = off[j - 1] + Len(ss[j]) /\ off[0] = 0 /\ Len(S) = off[n]
      /\ \A i \in 1..Len(ss[j]) : S[off[j - 1] + i] = ss[j][i]
      /\ \A i \in 0..n : off[i] \in Nat
    BY DEF IsOffsets, n, InStream
<1>4. j \in 1..n
    BY DEF n
<1>5. off[j - 1] \in Nat /\ off[j] \in Nat /\ off[n] \in Nat
    BY <1>1, <1>3, <1>4
<1>6. off[j] <= off[n]
    <2>1. \A i, h \in 0..n : i <= h => off[i] <= off[h]
        BY <1>1, <1>2, OffsetsRise
    <2>2. j \in 0..n /\ n \in 0..n /\ j <= n
        BY <1>1, <1>4
    <2> QED BY <2>1, <2>2
<1>7. ss[j] \in Seq(Nat)
    BY <1>2, PacketBytes
<1>8. Place(ss[j], S, off[j - 1])
    BY <1>3, <1>6, <1>7 DEF Place
<1> QED BY <1>2, <1>3, <1>5, <1>8

\* The broker reads the length of a packet where one begins, and finds it when it is whole.
LEMMA TotalHere ==
    ASSUME NEW ss, NEW off, NEW S, InStream(ss, off, S), NEW j \in 1..Len(ss),
           NEW b, Place(b, S, off[j - 1]), Len(b) >= MaxFixedHeader \/ Len(b) >= Len(ss[j])
    PROVE  /\ mqtt_get_total_length(b, Len(b)) = Len(ss[j])
           /\ Len(b) >= Len(ss[j]) => SubSeq(b, 1, Len(ss[j])) = ss[j]
<1> DEFINE p == ss[j]
           at == off[j - 1]
<1>1. p \in Packets /\ Place(p, S, at) /\ at \in Nat /\ p \in Seq(Nat) /\ Len(p) \in Nat
    BY PacketAt, PacketBytes
<1>2. b \in Seq(Nat) /\ Place(b, S, at) /\ Len(b) \in Nat
    BY LenProperties DEF Place
<1>3. Len(b) >= MaxFixedHeader \/ Len(b) >= Len(p)
    OBVIOUS
<1> HIDE DEF p, at
<1>4. (\A i \in 1..Len(b) : b[i] = S[at + i]) /\ (\A i \in 1..Len(p) : p[i] = S[at + i])
    BY <1>1, <1>2 DEF Place
<1>5. Agree(b, p)
    <2>1. ASSUME NEW i \in 1..Len(b), i <= Len(p) PROVE b[i] = p[i]
        <3>1. i \in 1..Len(p)
            BY <1>1, <1>2, <2>1
        <3> QED BY <1>4, <3>1
    <2> QED BY <2>1 DEF Agree
<1>6. mqtt_get_total_length(b, Len(b)) = Len(p)
    BY <1>1, <1>2, <1>3, <1>5, PrefixTotal
<1>7. ASSUME Len(b) >= Len(p) PROVE SubSeq(b, 1, Len(p)) = p
    <2> DEFINE q == SubSeq(b, 1, Len(p))
    <2>1. /\ q \in Seq(Nat) /\ Len(q) = Len(p) /\ \A i \in 1..Len(p) : q[i] = b[i]
        <3>1. 0 \in Nat /\ 0 <= Len(p) /\ Len(p) <= Len(b) /\ 0 + 1 = 1 /\ Len(p) - 0 = Len(p)
            BY <1>1, <1>2, <1>7
        <3>2. /\ SubSeq(b, 0 + 1, Len(p)) \in Seq(Nat) /\ Len(SubSeq(b, 0 + 1, Len(p))) = Len(p) - 0
              /\ \A x \in 1..Len(p) - 0 : SubSeq(b, 0 + 1, Len(p))[x] = b[0 + x]
            BY <1>1, <1>2, <3>1, PartIs
        <3>3. \A x \in 1..Len(p) : 0 + x = x
            OBVIOUS
        <3> QED BY <3>1, <3>2, <3>3
    <2> HIDE DEF q
    <2>2. \A i \in 1..Len(p) : q[i] = p[i]
        <3>1. \A i \in 1..Len(p) : i \in 1..Len(b)
            BY <1>1, <1>2, <1>7
        <3> QED BY <1>4, <2>1, <3>1
    <2>3. q = p
        BY <1>1, <2>1, <2>2, SeqEqual
    <2> QED BY <2>3 DEF q
<1> QED BY <1>6, <1>7 DEF p

\* What there is of a packet is kept.
LEMMA KeptHere ==
    ASSUME NEW ss, NEW off, NEW S, InStream(ss, off, S), NEW j \in 1..Len(ss),
           NEW b, Place(b, S, off[j - 1]), b # <<>>, Len(b) < Len(ss[j]),
           ~PassesForWhole(ss[j], Len(b))
    PROVE  mqtt_get_total_length(b, Len(b)) > Len(b)
<1> DEFINE p == ss[j]
           at == off[j - 1]
<1>1. p \in Packets /\ Place(p, S, at) /\ p \in Seq(Nat) /\ Len(p) \in Nat
    BY PacketAt, PacketBytes
<1>2. b \in Seq(Nat) /\ Place(b, S, at) /\ Len(b) \in Nat
    BY LenProperties DEF Place
<1>3. b # <<>> /\ Len(b) < Len(p) /\ ~PassesForWhole(p, Len(b))
    OBVIOUS
<1> HIDE DEF p, at
<1>4. (\A i \in 1..Len(b) : b[i] = S[at + i]) /\ (\A i \in 1..Len(p) : p[i] = S[at + i])
    BY <1>1, <1>2 DEF Place
<1>5. Agree(b, p)
    <2>1. ASSUME NEW i \in 1..Len(b), i <= Len(p) PROVE b[i] = p[i]
        <3>1. i \in 1..Len(p)
            BY <1>1, <1>2, <2>1
        <3> QED BY <1>4, <3>1
    <2> QED BY <2>1 DEF Agree
<1> QED BY <1>1, <1>2, <1>3, <1>5, PrefixIsKept

\* What READPACKET has before it at p are the bytes of the stream that are there.
BytesAtHand(old, seg, p, behind, S, at) ==
    /\ Place(AtHand(old, seg, p, behind), S, at + p)
    /\ Len(AtHand(old, seg, p, behind)) = (Len(old) + Len(seg)) - p

LEMMA AtHandPlaced ==
    ASSUME NEW S \in Seq(Nat), NEW at \in Nat, NEW old \in Seq(Nat), NEW seg \in Seq(Nat),
           NEW behind \in Nat, NEW p \in 0..Len(old) + Len(seg),
           Place(old \o seg, S, at), p = 0 \/ old = <<>>
    PROVE  BytesAtHand(old, seg, p, behind, S, at)
<1> SUFFICES /\ Place(AtHand(old, seg, p, behind), S, at + p)
             /\ Len(AtHand(old, seg, p, behind)) = (Len(old) + Len(seg)) - p
    BY DEF BytesAtHand
<1> DEFINE b == AtHand(old, seg, p, behind)
<1>1. b \in Seq(Nat) /\ Len(b) = (Len(old) + Len(seg)) - p
    BY AtHandIs
<1>2. CASE p = 0
    <2>1. b = old \o seg /\ at + p = at
        BY <1>2 DEF AtHand
    <2> HIDE DEF b
    <2>2. Place(b, S, at + p)
        BY <2>1
    <2> QED BY <1>1, <2>2 DEF b
<1>3. CASE p # 0
    <2>1. old = <<>> /\ old \o seg = seg /\ Len(old) = 0
        <3>1. old = <<>>
            BY <1>3
        <3>2. <<>> \o seg = seg
            BY ConcatEmptySeq
        <3> QED BY <3>1, <3>2
    <2> DEFINE n == Len(seg)
    <2>2. n \in Nat /\ p \in 0..n /\ Len(b) = n - p
        <3>1. n \in Nat
            BY LenProperties
        <3> HIDE DEF b
        <3> QED BY <1>1, <2>1, <3>1
    <2>3. b = [i \in 1..n - p |-> IF p + i <= n THEN seg[p + i] ELSE behind]
        <3>1. Len(old) + n - p = n - p
            BY <2>1, <2>2
        <3>2. b = [i \in 1..Len(old) + n - p |-> IF p + i <= n THEN seg[p + i] ELSE behind]
            BY <1>3 DEF AtHand
        <3> QED BY <3>1, <3>2
    <2>4. Place(seg, S, at)
        BY <2>1
    <2>5. at + n <= Len(S) /\ \A i \in 1..n : seg[i] = S[at + i]
        BY <2>4 DEF Place
    <2> HIDE DEF b, n
    <2>6. ASSUME NEW i \in 1..n - p PROVE b[i] = S[at + p + i]
        <3>1. p + i \in 1..n /\ p + i <= n /\ at + (p + i) = at + p + i
            BY <2>2
        <3>2. b[i] = seg[p + i]
            BY <2>3, <3>1
        <3>3. seg[p + i] = S[at + (p + i)]
            BY <2>5, <3>1
        <3> QED BY <3>1, <3>2, <3>3
    <2>7. at + p + (n - p) <= Len(S)
        BY <2>2, <2>5
    <2>8. Place(b, S, at + p)
        BY <1>1, <2>2, <2>6, <2>7 DEF Place
    <2> QED BY <1>1, <2>8 DEF b
<1> QED BY <1>2, <1>3

\* What arrived ends with packet m + 1 of ss, or in it where what there is does not pass for a
\* whole one; it begins with packet k + 1.
Arriving(ss, off, S, end, k, m) ==
    /\ InStream(ss, off, S) /\ m \in 0..Len(ss) - 1 /\ k \in 0..m
    /\ end \in Nat /\ off[m] < end /\ end <= off[m + 1]
    /\ end = off[m + 1] \/ ~PassesForWhole(ss[m + 1], end - off[m])

\* How many packets are whole then.
LastWhole(off, end, m) == IF end = off[m + 1] THEN m + 1 ELSE m

\* The packets from j + 1 on are handled, and what is behind the last whole one is kept.
Taken(r, ss, off, S, end, m, j) ==
    /\ r.packets = SubSeq(ss, j + 1, LastWhole(off, end, m))
    /\ r.kept = SubSeq(S, off[LastWhole(off, end, m)] + 1, end)

\* The round of the last packet, of which all is there or a part.
LEMMA LastRound ==
    ASSUME NEW ss, NEW off, NEW S, NEW end, NEW k, NEW m, Arriving(ss, off, S, end, k, m),
           NEW b, Place(b, S, off[m]), Len(b) = end - off[m], NEW rest
    PROVE  Taken(Round(b, rest), ss, off, S, end, m, m)
<1> DEFINE p == ss[m + 1]
           l == Len(p)
           x == off[m]
           y == off[m + 1]
           total == mqtt_get_total_length(b, Len(b))
<1>1. /\ InStream(ss, off, S) /\ m + 1 \in 1..Len(ss) /\ (m + 1) - 1 = m /\ m \in Nat
      /\ end \in Nat /\ x < end /\ end <= y /\ (end = y \/ ~PassesForWhole(p, end - x))
      /\ S \in Seq(Nat) /\ ss \in Seq(Packets) /\ Len(ss) \in Nat
    <2>1. InStream(ss, off, S)
        BY DEF Arriving
    <2>2. ss \in Seq(Packets) /\ S \in Seq(Nat) /\ Len(ss) \in Nat
        BY <2>1, LenProperties DEF InStream
    <2> QED BY <2>1, <2>2 DEF Arriving
<1>2. p \in Packets /\ y = x + l /\ x \in Nat /\ y \in Nat /\ p \in Seq(Nat) /\ l \in Nat
    <2>1. /\ ss[m + 1] \in Packets /\ off[m + 1] = off[(m + 1) - 1] + Len(ss[m + 1])
          /\ off[(m + 1) - 1] \in Nat /\ off[m + 1] \in Nat
        BY <1>1, PacketAt
    <2> QED BY <1>1, <2>1, PacketBytes
<1>3. b \in Seq(Nat) /\ Len(b) = end - x
    BY DEF Place
<1>4. /\ Len(b) >= l => total = l /\ SubSeq(b, 1, l) = p
      /\ Len(b) < l => total > Len(b)
    <2>1. Place(b, S, off[(m + 1) - 1])
        BY <1>1
    <2>2. ASSUME Len(b) >= l PROVE total = l /\ SubSeq(b, 1, l) = p
        BY <1>1, <2>1, <2>2, TotalHere
    <2>3. ASSUME Len(b) < l PROVE total > Len(b)
        <3>1. b # <<>> /\ end # y
            <4> HIDE DEF l, x, y
            <4>1. Len(b) # 0 /\ end # y
                BY <1>1, <1>2, <1>3, <2>3
            <4> QED BY <4>1
        <3>2. ~PassesForWhole(p, Len(b))
            BY <1>1, <1>3, <3>1
        <3> QED BY <1>1, <2>1, <2>3, <3>1, <3>2, KeptHere
    <2> QED BY <2>2, <2>3
<1>5. CASE end = y
    <2>1. Len(b) = l
        <3> HIDE DEF l, x, y
        <3> QED BY <1>2, <1>3, <1>5
    <2>2. total = Len(b) /\ ~(total > Len(b))
        <3>1. total = l
            BY <1>2, <1>4, <2>1
        <3> QED BY <1>2, <2>1, <3>1
    <2>3. Round(b, rest) = [packets |-> <<b>>, kept |-> <<>>]
        BY <2>2 DEF Round
    <2>4. b = p
        <3>1. SubSeq(b, 1, l) = p
            BY <1>2, <1>4, <2>1
        <3>2. SubSeq(b, 1, Len(b)) = b
            BY <1>3, SubSeqFull
        <3> QED BY <2>1, <3>1, <3>2
    <2>5. LastWhole(off, end, m) = m + 1
        BY <1>5 DEF LastWhole
    <2>6. SubSeq(ss, m + 1, m + 1) = <<p>>
        <3> DEFINE n == m + 1
        <3>1. n \in 1..Len(ss) /\ n - n + 1 = 1 /\ n \in Int
            BY <1>1
        <3>2. p = ss[n]
            OBVIOUS
        <3> HIDE DEF n, p
        <3>3. \A i \in n..n : ss[i] \in Packets
            BY <1>2, <3>1, <3>2
        <3>4. /\ SubSeq(ss, n, n) \in Seq(Packets) /\ Len(SubSeq(ss, n, n)) = IF n <= n THEN n - n + 1 ELSE 0
              /\ \A i \in 1..n - n + 1 : SubSeq(ss, n, n)[i] = ss[n + i - 1]
            BY <3>1, <3>3, SubSeqProperties
        <3>5. Len(SubSeq(ss, n, n)) = 1 /\ SubSeq(ss, n, n)[1] = ss[n]
            BY <3>1, <3>4
        <3>6. <<p>> \in Seq(Packets) /\ Len(<<p>>) = 1 /\ <<p>>[1] = p
            BY <1>2
        <3>7. \A i \in 1..Len(SubSeq(ss, n, n)) : SubSeq(ss, n, n)[i] = <<p>>[i]
            <4>1. \A i \in 1..1 : i = 1
                OBVIOUS
            <4>2. SubSeq(ss, n, n)[1] = <<p>>[1]
                BY <3>2, <3>5, <3>6
            <4> QED BY <3>5, <4>1, <4>2, Zenon
        <3>8. SubSeq(ss, n, n) = <<p>>
            BY <3>4, <3>5, <3>6, <3>7, SeqEqual
        <3> QED BY <3>8 DEF n
    <2>7. SubSeq(S, y + 1, end) = <<>>
        <3>1. end < y + 1 /\ y + 1 \in Int /\ end \in Int
            BY <1>1, <1>2, <1>5
        <3> QED BY <3>1, SubSeqEmpty
    <2>8. Round(b, rest).packets = <<p>> /\ Round(b, rest).kept = <<>>
        BY <2>3, <2>4
    <2> HIDE DEF p
    <2> QED BY <2>5, <2>6, <2>7, <2>8 DEF Taken
<1>6. CASE end # y
    <2>1. total > Len(b)
        <3> HIDE DEF l, x, y, total
        <3> QED BY <1>1, <1>2, <1>3, <1>4, <1>6
    <2>2. Round(b, rest) = [packets |-> <<>>, kept |-> b]
        BY <2>1 DEF Round
    <2>3. LastWhole(off, end, m) = m
        BY <1>6 DEF LastWhole
    <2>4. SubSeq(ss, m + 1, m) = <<>>
        <3>1. m < m + 1 /\ m + 1 \in Int /\ m \in Int
            BY <1>1
        <3> QED BY <3>1, SubSeqEmpty
    <2>5. b = SubSeq(S, x + 1, end)
        <3>1. Place(b, S, x) /\ x \in Nat /\ S \in Seq(Nat)
            BY <1>1, <1>2
        <3>2. b = SubSeq(S, x + 1, x + Len(b))
            BY <3>1, PlaceIs
        <3>3. x + Len(b) = end
            BY <1>1, <1>2, <1>3
        <3> QED BY <3>2, <3>3
    <2>6. Round(b, rest).packets = <<>> /\ Round(b, rest).kept = b
        BY <2>2
    <2> QED BY <2>3, <2>4, <2>5, <2>6 DEF Taken
<1> QED BY <1>5, <1>6

\* The round of a packet with others behind it.
LEMMA EarlierRound ==
    ASSUME NEW ss, NEW off, NEW S, NEW end, NEW k, NEW m, Arriving(ss, off, S, end, k, m),
           NEW j \in 1..m,
           NEW b, Place(b, S, off[j - 1]), Len(b) = end - off[j - 1],
           NEW rest, Taken(rest, ss, off, S, end, m, j)
    PROVE  /\ Taken(Round(b, rest), ss, off, S, end, m, j - 1)
           /\ off[j - 1] + mqtt_get_total_length(b, Len(b)) = off[j]
<1> DEFINE p == ss[j]
           l == Len(p)
           x == off[j - 1]
           y == off[j]
           n == Len(ss)
           last == LastWhole(off, end, m)
           total == mqtt_get_total_length(b, Len(b))
<1>1. /\ InStream(ss, off, S) /\ j \in 1..n /\ m \in 0..n /\ m + 1 \in 0..n
      /\ end \in Nat /\ off[m] < end /\ ss \in Seq(Packets) /\ n \in Nat
    <2>1. InStream(ss, off, S) /\ m \in 0..n - 1 /\ end \in Nat /\ off[m] < end
        BY DEF Arriving
    <2>2. ss \in Seq(Packets) /\ n \in Nat
        BY <2>1, LenProperties DEF InStream
    <2> HIDE DEF n
    <2> QED BY <2>1, <2>2
<1>2. p \in Packets /\ y = x + l /\ x \in Nat /\ y \in Nat /\ p \in Seq(Nat) /\ l \in Nat
    BY <1>1, PacketAt, PacketBytes
<1>3. y <= off[m] /\ off[m] \in Nat
    <2>1. ss \in [1..n -> Seq(Nat)] /\ IsOffsets(off, ss, n, S)
        BY <1>1, PacketBytes DEF InStream
    <2> HIDE DEF n
    <2>2. \A i, h \in 0..n : i <= h => off[i] <= off[h]
        BY <1>1, <2>1, OffsetsRise
    <2>3. j \in 0..n /\ j <= m
        BY <1>1
    <2>4. off[m] \in Nat
        BY <1>1, <2>1 DEF IsOffsets
    <2> QED BY <1>1, <2>2, <2>3, <2>4
<1>4. Len(b) = end - x /\ Len(b) \in Nat /\ Len(b) > l
    <2> DEFINE z == off[m]
    <2>1. Len(b) = end - x
        OBVIOUS
    <2>2. end \in Nat /\ z < end /\ z \in Nat /\ y <= z
        BY <1>1, <1>3
    <2>3. y = x + l /\ x \in Nat /\ y \in Nat /\ l \in Nat
        BY <1>2
    <2> HIDE DEF l, x, y, z
    <2>4. end - x \in Nat /\ end - x > l
        BY <2>2, <2>3
    <2> QED BY <2>1, <2>4
<1>5. total = l /\ SubSeq(b, 1, l) = p
    <2>1. Len(b) >= Len(ss[j])
        BY <1>2, <1>4
    <2>2. /\ mqtt_get_total_length(b, Len(b)) = Len(ss[j])
          /\ Len(b) >= Len(ss[j]) => SubSeq(b, 1, Len(ss[j])) = ss[j]
        BY <1>1, <2>1, TotalHere
    <2> QED BY <2>1, <2>2
<1>6. Round(b, rest) = [packets |-> <<p>> \o rest.packets, kept |-> rest.kept]
    <2>1. ~(total > Len(b)) /\ total # Len(b)
        BY <1>2, <1>4, <1>5
    <2> HIDE DEF p, l
    <2> QED BY <1>5, <2>1 DEF Round
<1>7. <<p>> \o SubSeq(ss, j + 1, last) = SubSeq(ss, j, last)
    <2>1. last \in j..n
        <3>1. last = m \/ last = m + 1
            BY DEF LastWhole
        <3> HIDE DEF last, n
        <3> QED BY <1>1, <3>1
    <2> HIDE DEF last, n
    <2>2. SubSeq(ss, j, last) = <<ss[j]>> \o SubSeq(ss, j + 1, last)
        BY <1>1, <2>1, SubSeqRecursiveFirst DEF n
    <2> QED BY <2>2
<1>8. (j - 1) + 1 = j
    OBVIOUS
<1>9. Taken(Round(b, rest), ss, off, S, end, m, j - 1)
    <2>1. Round(b, rest).packets = <<p>> \o rest.packets /\ Round(b, rest).kept = rest.kept
        BY <1>6
    <2> QED BY <1>7, <1>8, <2>1 DEF Taken
<1>10. off[j - 1] + total = off[j]
    BY <1>2, <1>5
<1> QED BY <1>9, <1>10

\* What the broker makes of a segment: it handles the packets that are whole, in their order, and
\* keeps the rest.
LEMMA ReadAll ==
    ASSUME buffered \in Seq(Nat), NEW seg \in Seq(Nat), NEW behind \in Nat,
           NEW ss, NEW off, NEW S, NEW end, NEW k, NEW m, Arriving(ss, off, S, end, k, m),
           end = off[k] + (Len(buffered) + Len(seg)),
           Place(buffered \o seg, S, off[k]), buffered = <<>> \/ m = k
    PROVE  Taken(Unpacked(seg, behind), ss, off, S, end, m, k)
<1> DEFINE n == Len(ss)
           long == Len(buffered) + Len(seg)
           B(p) == AtHand(buffered, seg, p, behind)
           T(p) == mqtt_get_total_length(B(p), Len(B(p)))
<1>1. PICK f : /\ Unpacked(seg, behind) = f[0]
               /\ \A p \in 0..long : f[p] = Round(B(p), f[p + T(p)])
    BY UnpackedIs
<1>2. /\ InStream(ss, off, S) /\ m \in 0..n - 1 /\ k \in 0..m /\ end \in Nat /\ off[m] < end
      /\ ss \in Seq(Packets) /\ n \in Nat /\ S \in Seq(Nat) /\ IsOffsets(off, ss, n, S)
    <2>1. InStream(ss, off, S) /\ m \in 0..n - 1 /\ k \in 0..m /\ end \in Nat /\ off[m] < end
        BY DEF Arriving
    <2>2. ss \in Seq(Packets) /\ n \in Nat /\ S \in Seq(Nat) /\ IsOffsets(off, ss, n, S)
        BY <2>1, LenProperties DEF InStream
    <2> QED BY <2>1, <2>2
<1> HIDE DEF n
<1>3. (\A i \in 0..n : off[i] \in Nat) /\ \A i, h \in 0..n : i <= h => off[i] <= off[h]
    <2>1. ss \in [1..n -> Seq(Nat)]
        BY <1>2, PacketBytes DEF n
    <2>2. \A i, h \in 0..n : i <= h => off[i] <= off[h]
        BY <1>2, <2>1, OffsetsRise
    <2> QED BY <1>2, <2>2 DEF IsOffsets
<1>4. ASSUME NEW j \in k..m
      PROVE  /\ off[j] - off[k] \in 0..long /\ off[k] + (off[j] - off[k]) = off[j]
             /\ off[j] - off[k] = 0 \/ buffered = <<>>
             /\ long - (off[j] - off[k]) = end - off[j]
    <2>1. j \in 0..n /\ k \in 0..n /\ m \in 0..n /\ k <= j /\ j <= m
        BY <1>2
    <2>2. off[j] \in Nat /\ off[k] \in Nat /\ off[m] \in Nat /\ off[k] <= off[j] /\ off[j] <= off[m]
        BY <1>3, <2>1
    <2>3. long \in Nat
        BY LenProperties
    <2>4. off[k] + long = end /\ off[m] < end
        BY <1>2
    <2>5. j = k => off[j] - off[k] = 0
        BY <2>2
    <2>6. m = k => j = k
        BY <2>1
    <2> DEFINE x == off[j]
               y == off[k]
               z == off[m]
    <2> HIDE DEF x, y, z, long
    <2>7. x - y \in 0..long /\ y + (x - y) = x /\ long - (x - y) = end - x
        <3>1. x \in Nat /\ y \in Nat /\ z \in Nat /\ y <= x /\ x <= z /\ y + long = end /\ z < end
            BY <2>2, <2>4 DEF x, y, z
        <3> QED BY <2>3, <3>1
    <2> QED BY <2>5, <2>6, <2>7 DEF x, y
<1>5. ASSUME NEW j \in k..m
      PROVE  /\ Place(B(off[j] - off[k]), S, off[j]) /\ Len(B(off[j] - off[k])) = end - off[j]
             /\ f[off[j] - off[k]] = Round(B(off[j] - off[k]), f[(off[j] - off[k]) + T(off[j] - off[k])])
    <2>0. PICK q, place : q = off[j] - off[k] /\ place = off[k]
        OBVIOUS
    <2>1. q \in 0..long /\ place + q = off[j] /\ (q = 0 \/ buffered = <<>>) /\ long - q = end - off[j]
        BY <1>4, <2>0
    <2>2. place \in Nat
        BY <1>2, <1>3, <2>0
    <2>3. Place(buffered \o seg, S, place)
        BY <2>0
    <2>4. f[q] = Round(B(q), f[q + T(q)])
        <3> HIDE DEF B, T, long
        <3> QED BY <1>1, <2>1
    <2>5. Place(B(q), S, place + q) /\ Len(B(q)) = long - q
        <3>1. S \in Seq(Nat) /\ q \in 0..Len(buffered) + Len(seg) /\ (q = 0 \/ buffered = <<>>)
            BY <1>2, <2>1
        <3>2. /\ Place(AtHand(buffered, seg, q, behind), S, place + q)
              /\ Len(AtHand(buffered, seg, q, behind)) = (Len(buffered) + Len(seg)) - q
            <4> HIDE DEF B, T, long
            <4>1. BytesAtHand(buffered, seg, q, behind, S, place)
                BY <2>2, <2>3, <3>1, AtHandPlaced
            <4> QED BY <4>1 DEF BytesAtHand
        <3>3. B(q) = AtHand(buffered, seg, q, behind)
            OBVIOUS
        <3>4. long = Len(buffered) + Len(seg)
            OBVIOUS
        <3> HIDE DEF B, long
        <3>5. Place(B(q), S, place + q)
            BY <3>2, <3>3
        <3>6. Len(B(q)) = long - q
            BY <3>2, <3>3, <3>4
        <3> QED BY <3>5, <3>6
    <2> HIDE DEF B, T, long
    <2>6. Place(B(q), S, off[j]) /\ Len(B(q)) = end - off[j]
        BY <2>1, <2>5
    <2> QED BY <2>4, <2>0, <2>6
<1> DEFINE R(j) == f[off[j] - off[k]]
           P == {h \in 0..m - k : Taken(R(m - h), ss, off, S, end, m, m - h)}
<1> HIDE DEF B, long
<1>6. 0 \in P
    <2>1. m \in k..m
        BY <1>2
    <2>2. Taken(R(m), ss, off, S, end, m, m)
        <3> DEFINE b == B(off[m] - off[k])
                   rest == f[(off[m] - off[k]) + T(off[m] - off[k])]
        <3>1. Place(b, S, off[m]) /\ Len(b) = end - off[m] /\ R(m) = Round(b, rest)
            BY <1>5, <2>1
        <3> HIDE DEF b, rest, R
        <3>2. Taken(Round(b, rest), ss, off, S, end, m, m)
            BY <3>1, LastRound
        <3> QED BY <3>1, <3>2
    <2>3. m - 0 = m /\ 0 \in 0..m - k
        BY <1>2
    <2> HIDE DEF R
    <2> QED BY <2>2, <2>3
<1>7. ASSUME NEW h \in 1..m - k, h - 1 \in P PROVE h \in P
    <2> DEFINE j == m - (h - 1)
    <2>1. j - 1 = m - h /\ j \in 1..m /\ j \in k..m /\ j - 1 \in k..m /\ h \in 0..m - k
        BY <1>2
    <2>2. Taken(R(j), ss, off, S, end, m, j)
        <3> HIDE DEF R
        <3> QED BY <1>7
    <2> HIDE DEF j
    <2> DEFINE x == off[j - 1] - off[k]
               b == B(x)
               rest == f[x + T(x)]
    <2>3. Place(b, S, off[j - 1]) /\ Len(b) = end - off[j - 1] /\ R(j - 1) = Round(b, rest)
        BY <1>5, <2>1
    <2>4. off[j - 1] + mqtt_get_total_length(b, Len(b)) = off[j]
        <3> DEFINE r == R(j)
        <3>1. Taken(r, ss, off, S, end, m, j)
            BY <2>2
        <3> HIDE DEF b, r
        <3> QED BY <2>1, <2>3, <3>1, EarlierRound
    <2>5. rest = R(j)
        <3>1. off[j - 1] \in Nat /\ off[k] \in Nat /\ off[j] \in Nat
            <4>1. j - 1 \in 0..n /\ k \in 0..n /\ j \in 0..n
                BY <1>2, <2>1
            <4> QED BY <1>3, <4>1
        <3>2. T(x) = mqtt_get_total_length(b, Len(b))
            OBVIOUS
        <3> DEFINE t == T(x)
        <3>3. off[j - 1] + t = off[j]
            BY <2>4, <3>2
        <3>4. t = off[j] - off[j - 1] => x + t = off[j] - off[k]
            <4> HIDE DEF t
            <4> QED BY <3>1, SMTT(30)
        <3>5. t \in Nat
            <4>1. b \in Seq(Nat)
                BY <2>3 DEF Place
            <4> HIDE DEF b
            <4> QED BY <4>1, <3>2, TotalPositive
        <3>6. t = off[j] - off[j - 1]
            <4> HIDE DEF t
            <4> QED BY <3>1, <3>3, <3>5
        <3>7. x + t = off[j] - off[k]
            BY <3>4, <3>6
        <3>8. rest = f[x + t]
            OBVIOUS
        <3> QED BY <3>7, <3>8
    <2>6. Taken(R(j - 1), ss, off, S, end, m, j - 1)
        <3>1. Taken(rest, ss, off, S, end, m, j)
            BY <2>2, <2>5
        <3> HIDE DEF b, rest, R
        <3>2. Taken(Round(b, rest), ss, off, S, end, m, j - 1)
            BY <2>1, <2>3, <3>1, EarlierRound
        <3> QED BY <2>3, <3>2
    <2> HIDE DEF R
    <2>7. Taken(R(m - h), ss, off, S, end, m, m - h)
        BY <2>1, <2>6
    <2> QED BY <2>1, <2>7
<1>8. m - k \in 0..m - k /\ m - k \in Nat /\ m - (m - k) = k
    BY <1>2
<1>9. \A h \in 0..m - k : h \in P
    <2> DEFINE N == m - k
    <2>1. N \in Nat
        BY <1>8
    <2> HIDE DEF P
    <2>2. \A h \in 1..N : h - 1 \in P => h \in P
        BY <1>7
    <2> HIDE DEF N
    <2>3. \A h \in 0..N : h \in P
        BY <1>6, <2>1, <2>2, InductionTo
    <2> QED BY <2>3 DEF N
<1>10. Taken(R(k), ss, off, S, end, m, k)
    <2>1. m - k \in P
        BY <1>8, <1>9
    <2> HIDE DEF R
    <2>2. Taken(R(m - (m - k)), ss, off, S, end, m, m - (m - k))
        BY <2>1
    <2> QED BY <1>8, <2>2
<1>11. off[k] - off[k] = 0
    <2>1. off[k] \in Nat
        BY <1>2, <1>3
    <2> QED BY <2>1
<1>12. R(k) = f[0]
    BY <1>11
<1> QED BY <1>1, <1>10, <1>12

-----------------------------------------------------------------------------
(* The bytes of some packets *)

LEMMA BytesOf ==
    ASSUME NEW ss \in Seq(Packets)
    PROVE  \E off : InStream(ss, off, Bytewise(ss))
<1>1. ss \in [1..Len(ss) -> Seq(Nat)] /\ Len(ss) \in Nat
    BY PacketBytes
<1>2. PICK off : IsOffsets(off, ss, Len(ss), Bytewise(ss))
    BY <1>1, Flattened DEF Bytewise
<1>3. InStream(ss, off, Bytewise(ss))
    BY <1>2 DEF InStream, IsOffsets
<1> QED BY <1>3

\* What InStream says of the offsets.
LEMMA Offsets ==
    ASSUME NEW ss, NEW off, NEW S, InStream(ss, off, S)
    PROVE  /\ ss \in Seq(Packets) /\ S \in Seq(Nat) /\ Len(ss) \in Nat /\ Len(S) = off[Len(ss)]
           /\ \A i \in 0..Len(ss) : off[i] \in Nat
           /\ \A i, h \in 0..Len(ss) : i <= h => off[i] <= off[h]
           /\ \A i \in 0..Len(ss) : Bytewise(SubSeq(ss, 1, i)) = SubSeq(S, 1, off[i])
<1> DEFINE n == Len(ss)
<1>1. ss \in Seq(Packets) /\ S \in Seq(Nat) /\ n \in Nat /\ ss \in [1..n -> Seq(Nat)]
      /\ IsOffsets(off, ss, n, S)
    BY PacketBytes DEF InStream
<1> HIDE DEF n
<1>2. \A i, h \in 0..n : i <= h => off[i] <= off[h]
    BY <1>1, OffsetsRise
<1>3. \A i \in 0..n : Bytewise(SubSeq(ss, 1, i)) = SubSeq(S, 1, off[i])
    BY <1>1, CutAt DEF Bytewise
<1>4. Len(S) = off[n] /\ \A i \in 0..n : off[i] \in Nat
    BY <1>1 DEF IsOffsets
<1> QED BY <1>1, <1>2, <1>3, <1>4 DEF n

\* The bytes up to a place make the packets up to there.
LEMMA BytesTo ==
    ASSUME NEW ss, NEW off, NEW S, InStream(ss, off, S), NEW i \in 0..Len(ss)
    PROVE  /\ SubSeq(S, 1, off[i]) \in Seq(Nat) /\ Len(SubSeq(S, 1, off[i])) = off[i]
           /\ off[i] \in Nat /\ off[i] <= Len(S)
<1>1. off[i] \in Nat /\ off[i] <= Len(S) /\ S \in Seq(Nat)
    <2>1. i \in 0..Len(ss) /\ Len(ss) \in 0..Len(ss) /\ i <= Len(ss)
        BY Offsets
    <2> QED BY <2>1, Offsets
<1> DEFINE x == off[i]
<1> HIDE DEF x
<1>2. 0 \in Nat /\ x \in Nat /\ 0 <= x /\ x <= Len(S) /\ 0 + 1 = 1 /\ x - 0 = x
    BY <1>1 DEF x
<1>3. SubSeq(S, 0 + 1, x) \in Seq(Nat) /\ Len(SubSeq(S, 0 + 1, x)) = x - 0
    BY <1>1, <1>2, PartIs
<1> QED BY <1>1, <1>2, <1>3 DEF x

-----------------------------------------------------------------------------
(* The packets that are whole when what is behind them is not one *)

LEMMA RoundType ==
    ASSUME NEW b \in Seq(Nat), NEW rest,
           mqtt_get_total_length(b, Len(b)) < Len(b) => rest \in Result
    PROVE  Round(b, rest) \in Result
<1> DEFINE total == mqtt_get_total_length(b, Len(b))
<1>1. total \in Nat /\ Len(b) \in Nat
    BY TotalPositive, LenProperties
<1>2. CASE total > Len(b)
    <2>1. Round(b, rest) = [packets |-> <<>>, kept |-> b]
        BY <1>2 DEF Round
    <2>2. <<>> \in Seq(Seq(Nat))
        BY EmptySeq
    <2> QED BY <2>1, <2>2 DEF Result
<1>3. CASE total = Len(b)
    <2>1. ~(total > Len(b))
        <3> HIDE DEF total
        <3> QED BY <1>1, <1>3
    <2>2. Round(b, rest) = [packets |-> <<b>>, kept |-> <<>>]
        BY <1>3, <2>1 DEF Round
    <2>3. <<b>> \in Seq(Seq(Nat)) /\ <<>> \in Seq(Nat)
        BY EmptySeq
    <2> QED BY <2>2, <2>3 DEF Result
<1>4. CASE total < Len(b)
    <2> DEFINE s == SubSeq(b, 1, total)
    <2>1. ~(total > Len(b)) /\ total # Len(b)
        <3> HIDE DEF total
        <3> QED BY <1>1, <1>4
    <2>2. Round(b, rest) = [packets |-> <<s>> \o rest.packets, kept |-> rest.kept]
        BY <2>1 DEF Round
    <2>3. s \in Seq(Nat)
        <3> HIDE DEF total
        <3>1. \A i \in 1..total : b[i] \in Nat
            BY <1>1, <1>4
        <3> QED BY <1>1, <3>1, SubSeqProperties
    <2>4. rest.packets \in Seq(Seq(Nat)) /\ rest.kept \in Seq(Nat)
        BY <1>4 DEF Result
    <2> HIDE DEF s
    <2>5. <<s>> \o rest.packets \in Seq(Seq(Nat))
        <3>1. <<s>> \in Seq(Seq(Nat))
            BY <2>3
        <3> QED BY <2>4, <3>1, ConcatProperties
    <2> QED BY <2>2, <2>4, <2>5 DEF Result
<1> HIDE DEF total
<1> QED BY <1>1, <1>2, <1>3, <1>4

\* f is what Unpacked makes of a segment from each place on.
Unpacks(f, seg, behind) ==
    \A p \in 0..Len(buffered) + Len(seg) :
        LET b == AtHand(buffered, seg, p, behind)
        IN  f[p] = Round(b, f[p + mqtt_get_total_length(b, Len(b))])

LEMMA ReadTyped ==
    ASSUME buffered \in Seq(Nat), NEW seg \in Seq(Nat), NEW behind \in Nat,
           NEW f, Unpacks(f, seg, behind)
    PROVE  \A p \in 0..Len(buffered) + Len(seg) : f[p] \in Result
<1> DEFINE long == Len(buffered) + Len(seg)
           B(p) == AtHand(buffered, seg, p, behind)
           T(p) == mqtt_get_total_length(B(p), Len(B(p)))
           P == {h \in 0..long : \A p \in long - h..long : f[p] \in Result}
<1>1. long \in Nat
    BY LenProperties
<1>2. ASSUME NEW p \in 0..long
      PROVE  /\ B(p) \in Seq(Nat) /\ Len(B(p)) = long - p /\ f[p] = Round(B(p), f[p + T(p)])
             /\ T(p) \in Nat /\ (Len(B(p)) > 0 => T(p) > 0)
    <2>1. /\ AtHand(buffered, seg, p, behind) \in Seq(Nat)
          /\ Len(AtHand(buffered, seg, p, behind)) = (Len(buffered) + Len(seg)) - p
        BY AtHandIs
    <2>2. f[p] = Round(B(p), f[p + T(p)])
        BY DEF Unpacks
    <2> QED BY <2>1, <2>2, TotalPositive
<1> HIDE DEF long, B
<1>3. ASSUME NEW p \in 0..long, \A q \in p + 1..long : f[q] \in Result
      PROVE  f[p] \in Result
    <2>1. ASSUME T(p) < Len(B(p)) PROVE f[p + T(p)] \in Result
        <3> DEFINE t == T(p)
        <3>1. t \in Nat /\ t < long - p /\ (long - p > 0 => t > 0)
            BY <1>2, <2>1
        <3> HIDE DEF t
        <3>2. p + t \in p + 1..long
            BY <1>1, <3>1
        <3>3. f[p + t] \in Result
            BY <1>3, <3>2
        <3> QED BY <3>3 DEF t
    <2> DEFINE rest == f[p + T(p)]
    <2>2. mqtt_get_total_length(B(p), Len(B(p))) < Len(B(p)) => rest \in Result
        BY <2>1
    <2>3. B(p) \in Seq(Nat) /\ f[p] = Round(B(p), rest)
        BY <1>2
    <2> HIDE DEF rest
    <2>4. Round(B(p), rest) \in Result
        BY <2>2, <2>3, RoundType
    <2> QED BY <2>3, <2>4
<1> HIDE DEF T
<1>4. 0 \in P
    <2>1. \A p \in long - 0..long : p = long
        BY <1>1
    <2>2. long \in 0..long /\ \A q \in long + 1..long : f[q] \in Result
        BY <1>1
    <2>3. f[long] \in Result
        BY <1>3, <2>2
    <2> QED BY <1>1, <2>1, <2>3
<1>5. ASSUME NEW h \in 1..long, h - 1 \in P PROVE h \in P
    <2>1. \A p \in long - (h - 1)..long : f[p] \in Result
        BY <1>5
    <2> DEFINE x == long - h
    <2>2. x \in 0..long /\ x + 1 = long - (h - 1) /\ \A p \in x..long : p = x \/ p \in x + 1..long
        BY <1>1
    <2>3. f[x] \in Result
        <3> HIDE DEF x
        <3> QED BY <1>3, <2>1, <2>2
    <2>4. \A p \in x..long : f[p] \in Result
        <3> HIDE DEF x
        <3> QED BY <2>1, <2>2, <2>3
    <2> QED BY <1>1, <2>4
<1>6. \A h \in 0..long : h \in P
    <2> HIDE DEF P
    <2> QED BY <1>1, <1>4, <1>5, InductionTo
<1>7. long \in P /\ long - long = 0
    <2> HIDE DEF P
    <2> QED BY <1>1, <1>6
<1>8. \A p \in 0..long : f[p] \in Result
    BY <1>7
<1> QED BY <1>8 DEF long

\* r begins with the packets from j + 1 to last.
BeginsWith(r, ss, j, last) ==
    /\ r \in Result /\ Len(r.packets) >= last - j
    /\ \A i \in 1..last - j : r.packets[i] = ss[j + i]

\* The round of a packet that is whole.
LEMMA WholeRound ==
    ASSUME NEW ss, NEW off, NEW S, InStream(ss, off, S), NEW end \in Nat,
           NEW last \in 0..Len(ss), off[last] <= end, NEW j \in 1..last,
           NEW b, Place(b, S, off[j - 1]), Len(b) = end - off[j - 1],
           NEW rest, BeginsWith(rest, ss, j, last)
    PROVE  /\ BeginsWith(Round(b, rest), ss, j - 1, last)
           /\ off[j - 1] + mqtt_get_total_length(b, Len(b)) = off[j]
<1> DEFINE p == ss[j]
           l == Len(p)
           x == off[j - 1]
           y == off[j]
           N == Len(ss)
           total == mqtt_get_total_length(b, Len(b))
           r == Round(b, rest)
<1>1. /\ N \in Nat /\ (\A i \in 0..N : off[i] \in Nat)
      /\ (\A i, h \in 0..N : i <= h => off[i] <= off[h])
    BY Offsets
<1>2. j \in 1..N /\ j \in 0..N /\ last \in Nat /\ j <= last /\ j \in Nat
    BY <1>1
<1>3. p \in Packets /\ y = x + l /\ x \in Nat /\ y \in Nat /\ p \in Seq(Nat) /\ l \in Nat
    BY <1>2, PacketAt, PacketBytes
<1>4. y <= end
    <2>1. off[j] <= off[last] /\ off[last] \in Nat
        BY <1>1, <1>2
    <2> QED BY <1>3, <2>1
<1>5. b \in Seq(Nat) /\ Len(b) = end - x /\ Len(b) \in Nat /\ Len(b) >= l
    <2>1. b \in Seq(Nat) /\ Len(b) = end - x
        BY DEF Place
    <2> HIDE DEF l, x, y
    <2>2. end - x \in Nat /\ end - x >= l
        BY <1>3, <1>4
    <2> QED BY <2>1, <2>2
<1>6. total = l /\ SubSeq(b, 1, l) = p
    BY <1>2, <1>5, TotalHere
<1>7. /\ rest \in Result /\ rest.packets \in Seq(Seq(Nat)) /\ Len(rest.packets) \in Nat
      /\ Len(rest.packets) >= last - j
      /\ \A i \in 1..last - j : rest.packets[i] = ss[j + i]
    <2>1. rest.packets \in Seq(Seq(Nat))
        BY DEF BeginsWith, Result
    <2> QED BY <2>1, LenProperties DEF BeginsWith
<1>8. r \in Result
    BY <1>5, <1>7, RoundType
<1>9. CASE total = Len(b)
    <2>1. r = [packets |-> <<b>>, kept |-> <<>>]
        <3>1. ~(total > Len(b))
            BY <1>3, <1>6, <1>9
        <3> QED BY <1>9, <3>1 DEF Round
    <2>2. b = p
        <3>1. SubSeq(b, 1, Len(b)) = b
            BY <1>5, SubSeqFull
        <3>2. Len(b) = l
            BY <1>6, <1>9
        <3> QED BY <1>6, <3>1, <3>2
    <2>3. last = j
        <3>1. end = y
            <4> HIDE DEF l, x, y, total
            <4> QED BY <1>3, <1>5, <1>6, <1>9
        <3>2. ASSUME j # last PROVE FALSE
            <4>1. j + 1 \in 1..N /\ j + 1 \in 0..N /\ (j + 1) - 1 = j /\ j + 1 <= last
                BY <1>1, <1>2, <3>2
            <4>2. /\ ss[j + 1] \in Packets /\ off[j + 1] = off[(j + 1) - 1] + Len(ss[j + 1])
                BY <4>1, PacketAt
            <4>3. off[j + 1] <= off[last] /\ off[j + 1] \in Nat /\ off[last] \in Nat
                BY <1>1, <4>1
            <4> DEFINE z == Len(ss[j + 1])
                       w == off[j + 1]
            <4>4. z \in Nat /\ z >= 2 /\ w = y + z
                BY <4>1, <4>2, PacketBytes
            <4>5. w <= y /\ w \in Nat
                BY <3>1, <4>3
            <4> HIDE DEF z, w, y
            <4> QED BY <1>3, <4>4, <4>5
        <3> QED BY <3>2
    <2>4. r.packets = <<p>>
        BY <2>1, <2>2
    <2> HIDE DEF r, p
    <2>5. Len(r.packets) = 1 /\ r.packets[1] = p
        BY <2>4
    <2>6. last - (j - 1) = 1 /\ (j - 1) + 1 = j
        BY <1>2, <2>3
    <2>7. \A i \in 1..last - (j - 1) : r.packets[i] = ss[(j - 1) + i]
        BY <2>5, <2>6 DEF p
    <2>8. Len(r.packets) >= last - (j - 1)
        BY <2>5, <2>6
    <2> QED BY <1>6, <1>3, <1>8, <2>7, <2>8 DEF BeginsWith, r
<1>10. CASE total # Len(b)
    <2>1. r = [packets |-> <<p>> \o rest.packets, kept |-> rest.kept]
        <3>1. ~(total > Len(b))
            <4> HIDE DEF l, total
            <4> QED BY <1>3, <1>5, <1>6
        <3> HIDE DEF p, l
        <3> QED BY <1>6, <1>10, <3>1 DEF Round
    <2>2. r.packets = <<p>> \o rest.packets
        BY <2>1
    <2> DEFINE t == rest.packets
    <2>3. p \in Seq(Nat) /\ t \in Seq(Seq(Nat)) /\ Len(t) \in Nat
        BY <1>3, <1>7
    <2> HIDE DEF r, p, t
    <2>4. /\ Len(r.packets) = 1 + Len(t) /\ r.packets[1] = p
          /\ \A i \in 1..Len(t) : r.packets[1 + i] = t[i]
        <3> DEFINE one == <<p>>
        <3>1. one \in Seq(Seq(Nat)) /\ Len(one) = 1 /\ one[1] = p
            BY <2>3
        <3>2. r.packets = one \o t
            BY <2>2 DEF t
        <3> HIDE DEF one
        <3>3. /\ Len(one \o t) = Len(one) + Len(t)
              /\ \A i \in 1..Len(one) + Len(t) :
                    (one \o t)[i] = IF i <= Len(one) THEN one[i] ELSE t[i - Len(one)]
            BY <2>3, <3>1, ConcatProperties
        <3>4. r.packets[1] = p
            <4>1. 1 \in 1..Len(one) + Len(t)
                BY <2>3, <3>1
            <4> QED BY <3>1, <3>2, <3>3, <4>1
        <3>5. ASSUME NEW i \in 1..Len(t) PROVE r.packets[1 + i] = t[i]
            <4>1. 1 + i \in 1..1 + Len(t) /\ ~(1 + i <= 1) /\ 1 + i - 1 = i
                BY <2>3
            <4> QED BY <3>1, <3>2, <3>3, <4>1
        <3> QED BY <3>1, <3>2, <3>3, <3>4, <3>5
    <2>5. Len(r.packets) >= last - (j - 1)
        BY <1>2, <1>7, <2>3, <2>4 DEF t
    <2>6. ASSUME NEW i \in 1..last - (j - 1) PROVE r.packets[i] = ss[(j - 1) + i]
        <3>1. CASE i = 1
            <4>1. (j - 1) + 1 = j
                BY <1>2
            <4> QED BY <2>4, <3>1, <4>1 DEF p
        <3>2. CASE i # 1
            <4>1. /\ i - 1 \in 1..last - j /\ 1 + (i - 1) = i /\ j + (i - 1) = (j - 1) + i
                  /\ i - 1 \in 1..Len(t)
                BY <1>2, <1>7, <2>3, <3>2 DEF t
            <4>2. t[i - 1] = ss[j + (i - 1)]
                BY <1>7, <4>1 DEF t
            <4>3. r.packets[1 + (i - 1)] = t[i - 1]
                BY <2>4, <4>1
            <4> QED BY <4>1, <4>2, <4>3
        <3> QED BY <3>1, <3>2
    <2> QED BY <1>6, <1>3, <1>8, <2>5, <2>6 DEF BeginsWith, r
<1> HIDE DEF total, r
<1> QED BY <1>3, <1>6, <1>9, <1>10 DEF total, r

\* Of a segment that goes on from packet k the broker handles first what is whole up to packet
\* last, if it had kept nothing, or no more than the packet that it continues.
LEMMA ReadFirst ==
    ASSUME buffered \in Seq(Nat), NEW seg \in Seq(Nat), NEW behind \in Nat,
           NEW ss, NEW off, NEW S, InStream(ss, off, S), NEW end \in Nat,
           NEW last \in 0..Len(ss), off[last] <= end, NEW k \in 0..last,
           end = off[k] + (Len(buffered) + Len(seg)),
           Place(buffered \o seg, S, off[k]), buffered = <<>> \/ last <= k + 1
    PROVE  BeginsWith(Unpacked(seg, behind), ss, k, last)
<1> DEFINE n == Len(ss)
           long == Len(buffered) + Len(seg)
           B(p) == AtHand(buffered, seg, p, behind)
           T(p) == mqtt_get_total_length(B(p), Len(B(p)))
<1>1. PICK f : /\ Unpacked(seg, behind) = f[0]
               /\ \A p \in 0..long : f[p] = Round(B(p), f[p + T(p)])
    BY UnpackedIs
<1>1a. \A p \in 0..long : f[p] \in Result
    <2>1. Unpacks(f, seg, behind)
        BY <1>1 DEF Unpacks
    <2> QED BY <2>1, ReadTyped
<1>2. /\ n \in Nat /\ S \in Seq(Nat) /\ last \in 0..n /\ k \in 0..last /\ off[last] <= end
    BY Offsets
<1>3. (\A i \in 0..n : off[i] \in Nat) /\ \A i, h \in 0..n : i <= h => off[i] <= off[h]
    BY Offsets
<1> HIDE DEF n
<1>4. ASSUME NEW j \in k..last, j < last \/ buffered = <<>> \/ last <= k + 1
      PROVE  /\ off[j] - off[k] \in 0..long /\ off[k] + (off[j] - off[k]) = off[j]
             /\ long - (off[j] - off[k]) = end - off[j]
             /\ j < last => off[j] - off[k] = 0 \/ buffered = <<>>
    <2>1. j \in 0..n /\ k \in 0..n /\ last \in 0..n /\ k <= j /\ j <= last
        BY <1>2
    <2>2. /\ off[j] \in Nat /\ off[k] \in Nat /\ off[last] \in Nat
          /\ off[k] <= off[j] /\ off[j] <= off[last]
        BY <1>3, <2>1
    <2>3. long \in Nat
        BY LenProperties
    <2>4. off[k] + long = end /\ off[last] <= end
        BY <1>2
    <2>5. j = k => off[j] - off[k] = 0
        BY <2>2
    <2>6. j < last /\ last <= k + 1 => j = k
        BY <1>2, <2>1
    <2> DEFINE x == off[j]
               y == off[k]
               z == off[last]
    <2> HIDE DEF x, y, z, long
    <2>7. x - y \in 0..long /\ y + (x - y) = x /\ long - (x - y) = end - x
        <3>1. x \in Nat /\ y \in Nat /\ z \in Nat /\ y <= x /\ x <= z /\ y + long = end /\ z <= end
            BY <2>2, <2>4 DEF x, y, z
        <3> QED BY <2>3, <3>1
    <2> QED BY <2>5, <2>6, <2>7 DEF x, y
<1>5. ASSUME NEW j \in k..last, j < last
      PROVE  /\ Place(B(off[j] - off[k]), S, off[j]) /\ Len(B(off[j] - off[k])) = end - off[j]
             /\ f[off[j] - off[k]] = Round(B(off[j] - off[k]), f[(off[j] - off[k]) + T(off[j] - off[k])])
    <2>0. PICK q, place : q = off[j] - off[k] /\ place = off[k]
        OBVIOUS
    <2>1. q \in 0..long /\ place + q = off[j] /\ (q = 0 \/ buffered = <<>>) /\ long - q = end - off[j]
        BY <1>4, <1>5, <2>0
    <2>2. place \in Nat
        BY <1>2, <1>3, <2>0
    <2>3. Place(buffered \o seg, S, place)
        BY <2>0
    <2>4. f[q] = Round(B(q), f[q + T(q)])
        <3> HIDE DEF B, T, long
        <3> QED BY <1>1, <2>1
    <2>5. Place(B(q), S, place + q) /\ Len(B(q)) = long - q
        <3>1. S \in Seq(Nat) /\ q \in 0..Len(buffered) + Len(seg) /\ (q = 0 \/ buffered = <<>>)
            BY <1>2, <2>1
        <3>2. /\ Place(AtHand(buffered, seg, q, behind), S, place + q)
              /\ Len(AtHand(buffered, seg, q, behind)) = (Len(buffered) + Len(seg)) - q
            <4> HIDE DEF B, T, long
            <4>1. BytesAtHand(buffered, seg, q, behind, S, place)
                BY <2>2, <2>3, <3>1, AtHandPlaced
            <4> QED BY <4>1 DEF BytesAtHand
        <3>3. B(q) = AtHand(buffered, seg, q, behind)
            OBVIOUS
        <3>4. long = Len(buffered) + Len(seg)
            OBVIOUS
        <3> HIDE DEF B, long
        <3>5. Place(B(q), S, place + q)
            BY <3>2, <3>3
        <3>6. Len(B(q)) = long - q
            BY <3>2, <3>3, <3>4
        <3> QED BY <3>5, <3>6
    <2> HIDE DEF B, T, long
    <2>6. Place(B(q), S, off[j]) /\ Len(B(q)) = end - off[j]
        BY <2>1, <2>5
    <2> QED BY <2>4, <2>0, <2>6
<1> DEFINE R(j) == f[off[j] - off[k]]
           P == {h \in 0..last - k : BeginsWith(R(last - h), ss, last - h, last)}
<1> HIDE DEF B, long
<1>6. 0 \in P
    <2>1. last \in k..last /\ last - 0 = last /\ 0 \in 0..last - k /\ last - last = 0
        BY <1>2
    <2>2. R(last) \in Result
        <3>1. off[last] - off[k] \in 0..long
            BY <1>4, <2>1
        <3> QED BY <1>1a, <3>1 DEF long
    <2> HIDE DEF R
    <2>3. BeginsWith(R(last), ss, last, last)
        <3>1. Len(R(last).packets) \in Nat
            BY <2>2, LenProperties DEF Result
        <3> QED BY <2>1, <2>2, <3>1 DEF BeginsWith
    <2> QED BY <2>1, <2>3
<1>7. ASSUME NEW h \in 1..last - k, h - 1 \in P PROVE h \in P
    <2> DEFINE j == last - (h - 1)
    <2>1. /\ j - 1 = last - h /\ j \in 1..last /\ j \in k..last /\ j - 1 \in k..last /\ j - 1 < last
          /\ h \in 0..last - k
        BY <1>2
    <2>2. BeginsWith(R(j), ss, j, last)
        <3> HIDE DEF R
        <3> QED BY <1>7
    <2> HIDE DEF j
    <2> DEFINE x == off[j - 1] - off[k]
               b == B(x)
               rest == f[x + T(x)]
               r == R(j)
    <2>3. Place(b, S, off[j - 1]) /\ Len(b) = end - off[j - 1] /\ R(j - 1) = Round(b, rest)
        BY <1>5, <2>1
    <2>4. /\ BeginsWith(Round(b, r), ss, j - 1, last)
          /\ off[j - 1] + mqtt_get_total_length(b, Len(b)) = off[j]
        <3>1. BeginsWith(r, ss, j, last)
            BY <2>2
        <3> HIDE DEF b, r
        <3> QED BY <2>1, <2>3, <3>1, WholeRound
    <2>5. rest = r
        <3>1. off[j - 1] \in Nat /\ off[k] \in Nat /\ off[j] \in Nat
            <4>1. j - 1 \in 0..n /\ k \in 0..n /\ j \in 0..n
                BY <1>2, <2>1
            <4> QED BY <1>3, <4>1
        <3>2. T(x) = mqtt_get_total_length(b, Len(b))
            OBVIOUS
        <3> DEFINE t == T(x)
        <3>3. off[j - 1] + t = off[j]
            BY <2>4, <3>2
        <3>4. t = off[j] - off[j - 1] => x + t = off[j] - off[k]
            <4> HIDE DEF t
            <4> QED BY <3>1, SMTT(30)
        <3>5. t \in Nat
            <4>1. b \in Seq(Nat)
                BY <2>3 DEF Place
            <4> HIDE DEF b
            <4> QED BY <4>1, <3>2, TotalPositive
        <3>6. t = off[j] - off[j - 1]
            <4> HIDE DEF t
            <4> QED BY <3>1, <3>3, <3>5
        <3>7. x + t = off[j] - off[k]
            BY <3>4, <3>6
        <3>8. rest = f[x + t]
            OBVIOUS
        <3> QED BY <3>7, <3>8
    <2>6. BeginsWith(R(j - 1), ss, j - 1, last)
        <3> HIDE DEF b, rest, r, R
        <3> QED BY <2>3, <2>4, <2>5
    <2> HIDE DEF R
    <2>7. BeginsWith(R(last - h), ss, last - h, last)
        BY <2>1, <2>6
    <2> QED BY <2>1, <2>7
<1>8. last - k \in 0..last - k /\ last - k \in Nat /\ last - (last - k) = k
    BY <1>2
<1>9. \A h \in 0..last - k : h \in P
    <2> DEFINE N == last - k
    <2>1. N \in Nat
        BY <1>8
    <2> HIDE DEF P
    <2>2. \A h \in 1..N : h - 1 \in P => h \in P
        BY <1>7
    <2> HIDE DEF N
    <2>3. \A h \in 0..N : h \in P
        BY <1>6, <2>1, <2>2, InductionTo
    <2> QED BY <2>3 DEF N
<1>10. BeginsWith(R(k), ss, k, last)
    <2>1. last - k \in P
        BY <1>8, <1>9
    <2> HIDE DEF R
    <2>2. BeginsWith(R(last - (last - k)), ss, last - (last - k), last)
        BY <2>1
    <2> QED BY <1>8, <2>2
<1>11. off[k] - off[k] = 0
    <2>1. off[k] \in Nat
        BY <1>2, <1>3
    <2> QED BY <2>1
<1>12. R(k) = f[0]
    BY <1>11
<1> QED BY <1>1, <1>10, <1>12

\* They are then handled in their order.
LEMMA HandledFirst ==
    ASSUME NEW ss \in Seq(Packets), NEW last \in 0..Len(ss), NEW k \in 0..last,
           NEW r, BeginsWith(r, ss, k, last)
    PROVE  LET done == SubSeq(ss, 1, k) \o r.packets
           IN  last <= Len(done) /\ IsPrefix(SubSeq(done, 1, last), ss)
<1> DEFINE a == SubSeq(ss, 1, k)
           t == r.packets
           done == a \o t
           N == Len(ss)
<1>1. /\ N \in Nat /\ last \in Nat /\ k \in Nat /\ k <= last /\ last <= N
      /\ ss \in Seq(Seq(Nat))
    <2>1. ss \in Seq(Seq(Nat)) /\ N \in Nat
        BY PacketBytes, IsASeq
    <2> QED BY <2>1
<1>2. a \in Seq(Seq(Nat)) /\ Len(a) = k /\ \A i \in 1..k : a[i] = ss[i]
    <2>1. \A i \in 1..k : ss[i] \in Seq(Nat)
        BY <1>1, ElementOfSeq
    <2>2. /\ a \in Seq(Seq(Nat)) /\ Len(a) = IF 1 <= k THEN k - 1 + 1 ELSE 0
          /\ \A i \in 1..k - 1 + 1 : a[i] = ss[1 + i - 1]
        BY <1>1, <2>1, SubSeqProperties
    <2> HIDE DEF a
    <2>3. k - 1 + 1 = k /\ \A i \in 1..k : 1 + i - 1 = i
        BY <1>1
    <2>4. Len(a) = k
        BY <1>1, <2>2, <2>3
    <2>5. ASSUME NEW i \in 1..k PROVE a[i] = ss[i]
        <3>1. a[i] = ss[1 + i - 1] /\ 1 + i - 1 = i
            BY <2>2, <2>3
        <3> QED BY <3>1
    <2> QED BY <2>2, <2>4, <2>5
<1>3. /\ t \in Seq(Seq(Nat)) /\ Len(t) \in Nat /\ Len(t) >= last - k
      /\ \A i \in 1..last - k : t[i] = ss[k + i]
    <2>1. t \in Seq(Seq(Nat))
        BY DEF BeginsWith, Result
    <2> QED BY <2>1, LenProperties DEF BeginsWith
<1> HIDE DEF a, t, N
<1>4. /\ done \in Seq(Seq(Nat)) /\ Len(done) = k + Len(t)
      /\ \A i \in 1..k + Len(t) : done[i] = IF i <= k THEN a[i] ELSE t[i - k]
    BY <1>2, <1>3, ConcatProperties
<1> HIDE DEF done
<1>5. last <= Len(done)
    BY <1>1, <1>3, <1>4
<1>6. ASSUME NEW i \in 1..last PROVE done[i] = ss[i]
    <2>0. i \in 1..k + Len(t)
        BY <1>1, <1>3
    <2>1. done[i] = IF i <= k THEN a[i] ELSE t[i - k]
        BY <1>4, <2>0
    <2>2. CASE i <= k
        <3>1. i \in 1..k
            BY <1>1, <2>2
        <3> QED BY <1>2, <2>1, <2>2, <3>1
    <2>3. CASE ~(i <= k)
        <3>1. i - k \in 1..last - k /\ k + (i - k) = i
            BY <1>1, <2>3
        <3>2. t[i - k] = ss[k + (i - k)]
            BY <1>3, <3>1
        <3> QED BY <2>1, <2>3, <3>1, <3>2
    <2> QED BY <2>2, <2>3
<1> DEFINE u == SubSeq(done, 1, last)
           v == SubSeq(ss, 1, last)
<1>7. \A w \in Seq(Seq(Nat)) : last <= Len(w) =>
         /\ SubSeq(w, 1, last) \in Seq(Seq(Nat)) /\ Len(SubSeq(w, 1, last)) = last
         /\ \A i \in 1..last : SubSeq(w, 1, last)[i] = w[i]
    <2> SUFFICES ASSUME NEW w \in Seq(Seq(Nat)), last <= Len(w)
                 PROVE  /\ SubSeq(w, 1, last) \in Seq(Seq(Nat)) /\ Len(SubSeq(w, 1, last)) = last
                        /\ \A i \in 1..last : SubSeq(w, 1, last)[i] = w[i]
        OBVIOUS
    <2>0. Len(w) \in Nat
        BY LenProperties
    <2>1. \A i \in 1..last : w[i] \in Seq(Nat)
        <3>1. \A i \in 1..last : i \in 1..Len(w)
            BY <1>1, <2>0
        <3> QED BY <3>1, ElementOfSeq
    <2> DEFINE s == SubSeq(w, 1, last)
    <2>2. /\ s \in Seq(Seq(Nat)) /\ Len(s) = IF 1 <= last THEN last - 1 + 1 ELSE 0
          /\ \A i \in 1..last - 1 + 1 : s[i] = w[1 + i - 1]
        BY <1>1, <2>1, SubSeqProperties
    <2> HIDE DEF s
    <2>3. last - 1 + 1 = last /\ \A i \in 1..last : 1 + i - 1 = i
        BY <1>1
    <2>4. Len(s) = last
        BY <1>1, <2>2, <2>3
    <2>5. ASSUME NEW i \in 1..last PROVE s[i] = w[i]
        <3>1. s[i] = w[1 + i - 1] /\ 1 + i - 1 = i
            BY <2>2, <2>3
        <3> QED BY <3>1
    <2> QED BY <2>2, <2>4, <2>5 DEF s
<1>8. /\ u \in Seq(Seq(Nat)) /\ Len(u) = last /\ \A i \in 1..last : u[i] = ss[i]
      /\ v \in Seq(Seq(Nat)) /\ Len(v) = last /\ \A i \in 1..last : v[i] = ss[i]
    <2>1. /\ u \in Seq(Seq(Nat)) /\ Len(u) = last /\ \A i \in 1..last : u[i] = done[i]
        BY <1>4, <1>5, <1>7
    <2>2. /\ v \in Seq(Seq(Nat)) /\ Len(v) = last /\ \A i \in 1..last : v[i] = ss[i]
        BY <1>1, <1>7 DEF N
    <2> HIDE DEF u, v
    <2> QED BY <1>6, <2>1, <2>2
<1> HIDE DEF u, v
<1>9. u = v
    BY <1>8, SeqEqual
<1>10. IsPrefix(u, ss)
    <2>1. SubSeq(u, 1, Len(u)) = u
        BY <1>8, SubSeqFull
    <2>2. Len(u) <= Len(ss) /\ SubSeq(u, 1, Len(u)) = SubSeq(ss, 1, Len(u))
        BY <1>1, <1>8, <1>9, <2>1 DEF N, v
    <2> QED BY <2>2 DEF IsPrefix
<1> QED BY <1>5, <1>10 DEF done, a, t, u

-----------------------------------------------------------------------------
(* The invariant *)

StreamTypeOK ==
    /\ stream \in Seq(Packets) /\ handled \in Seq(Packets)
    /\ wire \in Seq(Nat) /\ buffered \in Seq(Nat)

\* What is kept is of a packet that was sent.
KeptIsBegun == buffered # <<>> => Len(handled) < Len(stream)

\* The stream is followed.
Followed == ~closed /\ ~ragged

StreamInv == HandledInOrder /\ (Followed => StreamTypeOK /\ KeptIsBegun)

\* What was handled is the beginning of the stream, and what is kept and what has not arrived
\* are the rest.
LEMMA Where ==
    ASSUME StreamInv, Followed, NEW off, NEW S, S = Bytewise(stream), InStream(stream, off, S)
    PROVE  LET k == Len(handled) IN
           /\ k \in 0..Len(stream) /\ handled = SubSeq(stream, 1, k) /\ off[k] \in Nat
           /\ Place(buffered, S, off[k]) /\ Place(wire, S, off[k] + Len(buffered))
           /\ Len(S) = off[k] + Len(buffered) + Len(wire)
<1> DEFINE k == Len(handled)
<1>1. /\ stream \in Seq(Packets) /\ handled \in Seq(Packets)
      /\ wire \in Seq(Nat) /\ buffered \in Seq(Nat)
    BY DEF StreamInv, StreamTypeOK
<1>2. k \in 0..Len(stream) /\ handled = SubSeq(stream, 1, k)
    <2>2. SubSeq(handled, 1, k) = handled
        BY <1>1, SubSeqFull
    <2>1. Len(handled) <= Len(stream) /\ handled = SubSeq(stream, 1, k)
        BY <2>2 DEF StreamInv, Followed, HandledInOrder, IsPrefix
    <2>3. k \in Nat /\ Len(stream) \in Nat
        BY <1>1, LenProperties
    <2> QED BY <2>1, <2>3
<1> DEFINE a == SubSeq(S, 1, off[k])
<1>3. Bytewise(handled) = a
    <2>1. \A i \in 0..Len(stream) : Bytewise(SubSeq(stream, 1, i)) = SubSeq(S, 1, off[i])
        BY Offsets
    <2>2. Bytewise(SubSeq(stream, 1, k)) = a
        BY <1>2, <2>1
    <2> HIDE DEF a, k
    <2> QED BY <1>2, <2>2
<1>4. a \in Seq(Nat) /\ Len(a) = off[k] /\ off[k] \in Nat
    BY <1>2, BytesTo
<1>5. a \o buffered \o wire = S
    <2>1. Bytewise(handled) \o buffered \o wire = S
        BY DEF StreamInv, Followed, HandledInOrder
    <2> HIDE DEF a
    <2> QED BY <1>3, <2>1
<1> HIDE DEF a, k
<1>6. /\ Place(buffered, a \o buffered \o wire, Len(a))
      /\ Place(wire, a \o buffered \o wire, Len(a) + Len(buffered))
      /\ Len(a \o buffered \o wire) = Len(a) + Len(buffered) + Len(wire)
    BY <1>1, <1>4, PartsPlaced
<1> QED BY <1>2, <1>4, <1>5, <1>6 DEF k

-----------------------------------------------------------------------------
(* A packet is sent *)

LEMMA FlattenAppend ==
    ASSUME NEW ss \in Seq(Packets), NEW p \in Packets
    PROVE  Bytewise(Append(ss, p)) = Bytewise(ss) \o p
<1> DEFINE tt == Append(ss, p)
           n == Len(ss)
           S == Bytewise(tt)
<1>1. /\ tt \in Seq(Packets) /\ Len(tt) = n + 1 /\ n \in Nat /\ tt[n + 1] = p
      /\ SubSeq(tt, 1, n) = ss
    <2>1. /\ tt \in Seq(Packets) /\ Len(tt) = n + 1 /\ tt[n + 1] = p /\ n \in Nat
          /\ \A i \in 1..n : tt[i] = ss[i]
        BY AppendProperties, LenProperties
    <2> HIDE DEF tt
    <2>2. \A i \in 1..n : tt[i] \in Packets
        BY <2>1
    <2>3. n \in Int /\ 1 \in Int /\ n - 1 + 1 = n /\ (~(1 <= n) => n = 0)
        BY <2>1
    <2> HIDE DEF n
    <2>4. /\ SubSeq(tt, 1, n) \in Seq(Packets)
          /\ Len(SubSeq(tt, 1, n)) = IF 1 <= n THEN n - 1 + 1 ELSE 0
          /\ \A i \in 1..n - 1 + 1 : SubSeq(tt, 1, n)[i] = tt[1 + i - 1]
        BY <2>2, <2>3, SubSeqProperties
    <2>5. Len(SubSeq(tt, 1, n)) = n
        BY <2>1, <2>3, <2>4
    <2>6. \A i \in 1..n : SubSeq(tt, 1, n)[i] = ss[i]
        <3> SUFFICES ASSUME NEW i \in 1..n PROVE SubSeq(tt, 1, n)[i] = ss[i]
            OBVIOUS
        <3>1. 1 + i - 1 = i
            OBVIOUS
        <3>2. SubSeq(tt, 1, n)[i] = tt[1 + i - 1]
            BY <2>3, <2>4
        <3> QED BY <2>1, <3>1, <3>2
    <2>7. SubSeq(tt, 1, n) = ss
        BY <2>4, <2>5, <2>6, SeqEqual DEF n
    <2> QED BY <2>1, <2>7
<1> HIDE DEF tt, n
<1>2. PICK off : InStream(tt, off, S)
    BY <1>1, BytesOf
<1> HIDE DEF S
<1>3. n \in 0..Len(tt) /\ n + 1 \in 1..Len(tt) /\ (n + 1) - 1 = n
    BY <1>1
<1>4. Bytewise(ss) = SubSeq(S, 1, off[n])
    <2>1. \A i \in 0..Len(tt) : Bytewise(SubSeq(tt, 1, i)) = SubSeq(S, 1, off[i])
        BY <1>2, Offsets
    <2>2. Bytewise(SubSeq(tt, 1, n)) = SubSeq(S, 1, off[n])
        BY <1>3, <2>1
    <2> QED BY <1>1, <2>2
<1>5. /\ Place(p, S, off[n]) /\ off[n] \in Nat /\ off[n + 1] = off[n] + Len(p)
      /\ p \in Seq(Nat) /\ Len(p) \in Nat
    <2>1. /\ Place(tt[n + 1], S, off[(n + 1) - 1]) /\ off[(n + 1) - 1] \in Nat
          /\ off[n + 1] = off[(n + 1) - 1] + Len(tt[n + 1])
        BY <1>2, <1>3, PacketAt
    <2> QED BY <1>1, <1>3, <2>1, PacketBytes
<1>6. S \in Seq(Nat) /\ Len(S) = off[n + 1]
    BY <1>1, <1>2, Offsets
<1> DEFINE x == off[n]
<1> HIDE DEF x
<1>7. p = SubSeq(S, x + 1, Len(S))
    <2>1. p = SubSeq(S, x + 1, x + Len(p))
        BY <1>5, <1>6, PlaceIs DEF x
    <2> QED BY <1>5, <1>6, <2>1 DEF x
<1>8. SubSeq(S, 1, x) \o SubSeq(S, x + 1, Len(S)) = SubSeq(S, 1, Len(S))
    <2>1. 1 \in 1..Len(S) + 1 /\ x \in 1 - 1..Len(S) /\ Len(S) \in x..Len(S)
        BY <1>5, <1>6 DEF x
    <2> QED BY <1>6, <2>1, ConcatAdjacentSubSeq
<1>9. SubSeq(S, 1, Len(S)) = S
    BY <1>6, SubSeqFull
<1> QED BY <1>4, <1>7, <1>8, <1>9 DEF x, S, tt

LEMMA ClientSendsKeeps ==
    ASSUME StreamInv, ClientSends
    PROVE  StreamInv'
<1>1. PICK p \in Packets : stream' = Append(stream, p) /\ wire' = wire \o p
    BY DEF ClientSends
<1>2. /\ Followed /\ buffered' = buffered /\ handled' = handled /\ closed' = closed
      /\ ragged' = ragged /\ sure' = sure
    BY DEF ClientSends, Followed
<1>3. /\ stream \in Seq(Packets) /\ handled \in Seq(Packets) /\ Len(handled) \in Nat
      /\ Len(stream) \in Nat /\ wire \in Seq(Nat) /\ buffered \in Seq(Nat) /\ p \in Seq(Nat)
    BY <1>2, LenProperties, PacketBytes DEF StreamInv, StreamTypeOK
<1>3a. sure = Len(handled) /\ SubSeq(handled, 1, sure) = handled
    BY <1>2, <1>3, SubSeqFull DEF StreamInv, Followed, HandledInOrder
<1>4. /\ stream' \in Seq(Packets) /\ Len(stream') = Len(stream) + 1
      /\ \A i \in 1..Len(stream) : stream'[i] = stream[i]
    BY <1>1, <1>3, AppendProperties
<1>5. wire' \in Seq(Nat)
    BY <1>1, <1>3, ConcatProperties
<1>6. Len(handled) <= Len(stream) /\ SubSeq(handled, 1, Len(handled)) = SubSeq(stream, 1, Len(handled))
    BY <1>3a DEF StreamInv, HandledInOrder, IsPrefix
<1> DEFINE k == Len(handled)
           n == Len(stream)
<1>7. SubSeq(stream', 1, k) = SubSeq(stream, 1, k)
    <2>1. stream = SubSeq(stream, 1, n)
        BY <1>3, SubSeqFull
    <2>2. stream' = stream \o <<p>>
        BY <1>1, <1>3, AppendIsConcat
    <2>3. CASE k = 0
        <3>1. SubSeq(stream', 1, 0) = <<>> /\ SubSeq(stream, 1, 0) = <<>>
            BY SubSeqEmpty
        <3> HIDE DEF k
        <3> QED BY <2>3, <3>1
    <2>4. CASE k # 0
        <3>1. k \in 1..Len(stream) /\ 1 \in 1..Len(stream)
            BY <1>3, <1>6, <2>4
        <3>2. <<p>> \in Seq(Packets)
            OBVIOUS
        <3> DEFINE last == <<p>>
        <3> HIDE DEF last, k
        <3>3. SubSeq(stream \o last, 1, k) = SubSeq(stream, 1, k)
            BY <1>3, <3>1, <3>2, SubSeqOfConcat1 DEF last
        <3> QED BY <2>2, <3>3 DEF last
    <2> QED BY <2>3, <2>4
<1>8. /\ (sure <= Len(handled) /\ IsPrefix(SubSeq(handled, 1, sure), stream))'
      /\ (sure = Len(handled))'
    <2>1. IsPrefix(handled, stream')
        BY <1>3, <1>4, <1>6, <1>7 DEF IsPrefix
    <2>2. sure' <= Len(handled') /\ IsPrefix(SubSeq(handled', 1, sure'), stream')
        <3>1. SubSeq(handled', 1, sure') = handled /\ sure' = Len(handled') /\ Len(handled') \in Nat
            BY <1>2, <1>3, <1>3a
        <3>2. IsPrefix(SubSeq(handled', 1, sure'), stream')
            BY <2>1, <3>1, Zenon
        <3> QED BY <3>1, <3>2
    <2> QED BY <1>2, <1>3a, <2>2
<1>9. Bytewise(handled) \in Seq(Nat)
    <2>1. PICK off : InStream(handled, off, Bytewise(handled))
        BY <1>3, BytesOf
    <2> QED BY <2>1 DEF InStream
<1>10. (Bytewise(handled) \o buffered \o wire = Bytewise(stream))'
    <2>1. Bytewise(handled) \o buffered \o wire = Bytewise(stream)
        BY <1>2 DEF StreamInv, Followed, HandledInOrder
    <2>2. Bytewise(stream') = Bytewise(stream) \o p
        BY <1>1, <1>3, FlattenAppend
    <2> DEFINE a == Bytewise(handled) \o buffered
    <2>3. a \in Seq(Nat)
        BY <1>3, <1>9, ConcatProperties
    <2> HIDE DEF a
    <2>4. (a \o wire) \o p = a \o (wire \o p)
        <3>1. a \in Seq(Nat) /\ wire \in Seq(Nat) /\ p \in Seq(Nat)
            BY <1>3, <2>3
        <3> QED BY <3>1, SMTT(30)
    <2>5. Bytewise(handled') = Bytewise(handled)
        BY <1>2
    <2>6. a \o wire' = Bytewise(stream')
        BY <1>1, <2>1, <2>2, <2>4 DEF a
    <2> QED BY <1>2, <2>5, <2>6 DEF a
<1>11. KeptIsBegun'
    BY <1>2, <1>3, <1>4 DEF StreamInv, KeptIsBegun
<1>12. (buffered # <<>> => Len(buffered) < Len(stream[Len(handled) + 1]))'
    <2> SUFFICES ASSUME buffered # <<>>
                 PROVE  Len(buffered) < Len(stream'[Len(handled) + 1])
        BY <1>2
    <2>1. Len(handled) + 1 \in 1..Len(stream)
        BY <1>2, <1>3 DEF StreamInv, KeptIsBegun
    <2>2. stream'[Len(handled) + 1] = stream[Len(handled) + 1]
        BY <1>4, <2>1
    <2>3. Len(buffered) < Len(stream[Len(handled) + 1])
        BY <1>2 DEF StreamInv, Followed, HandledInOrder
    <2> QED BY <2>2, <2>3
<1>13. (Len(buffered) <= BufSize)'
    BY <1>2 DEF StreamInv, Followed, HandledInOrder
<1>14. HandledInOrder'
    BY <1>8, <1>10, <1>12, <1>13 DEF HandledInOrder
<1>15. StreamTypeOK'
    BY <1>2, <1>3, <1>4, <1>5 DEF StreamTypeOK
<1> QED BY <1>11, <1>14, <1>15 DEF StreamInv

-----------------------------------------------------------------------------
(* A segment arrives *)

\* It ends in some packet, or with it.
LEMMA EndsInPacket ==
    ASSUME NEW ss, NEW off, NEW S, InStream(ss, off, S), NEW k \in 0..Len(ss), NEW end \in Nat,
           off[k] < end, end <= Len(S)
    PROVE  \E m \in 0..Len(ss) - 1 : k <= m /\ off[m] < end /\ end <= off[m + 1]
<1> DEFINE n == Len(ss)
<1>1. /\ n \in Nat /\ Len(S) = off[n] /\ (\A i \in 0..n : off[i] \in Nat)
      /\ \A i, h \in 0..n : i <= h => off[i] <= off[h]
    BY Offsets
<1>2. k \in 0..n
    OBVIOUS
<1> HIDE DEF n
<1> DEFINE later == {i \in 0..n : end <= off[i]}
<1>3. later \in SUBSET Nat /\ n \in later
    BY <1>1
<1>4. PICK i \in later : \A h \in later : i <= h
    <2> HIDE DEF later
    <2>1. later # {}
        BY <1>3
    <2> QED BY <1>3, <2>1, LeastElement
<1>5. i \in 0..n /\ end <= off[i] /\ off[i] \in Nat /\ off[k] \in Nat
    BY <1>1, <1>2
<1>6. i > k
    <2>1. i <= k => off[i] <= off[k]
        BY <1>1, <1>2, <1>5
    <2> QED BY <1>2, <1>5, <2>1
<1>7. i - 1 \in 0..n - 1 /\ k <= i - 1 /\ (i - 1) + 1 = i /\ i - 1 \in 0..n
    BY <1>1, <1>2, <1>5, <1>6
<1>8. off[i - 1] < end
    <2>1. i - 1 \notin later
        BY <1>4, <1>5
    <2>2. ~(end <= off[i - 1]) /\ off[i - 1] \in Nat
        BY <1>1, <1>7, <2>1
    <2> QED BY <2>2
<1>9. end <= off[(i - 1) + 1]
    BY <1>5, <1>7
<1> QED BY <1>7, <1>8, <1>9 DEF n

\* Where the segment of n bytes ends, and how many packets with it: in packet m + 1 of the
\* stream or with it.  When it goes on behind a packet that was begun, that packet is there.
SegmentAt(n, off, S, end, m) ==
    LET k == Len(handled) IN
    /\ end \in Nat /\ end <= Len(S) /\ off[k] < end
    /\ m \in 0..Len(stream) - 1 /\ k <= m /\ off[m] < end /\ end <= off[m + 1]
    /\ EndedBy(Arrived + n) = LastWhole(off, end, m)
    /\ GoesOn(n) => k < Len(stream) /\ off[k + 1] <= end
    /\ ~GoesOn(n) => buffered = <<>> \/ m = k
    /\ ~Ragged(n) => Arriving(stream, off, S, end, k, m)

LEMMA SegmentEnds ==
    ASSUME StreamInv, Followed, NEW n \in 1..Len(wire),
           NEW off, NEW S, S = Bytewise(stream), InStream(stream, off, S),
           NEW end, end = off[Len(handled)] + (Len(buffered) + n)
    PROVE  \E m : SegmentAt(n, off, S, end, m)
<1> DEFINE k == Len(handled)
           x == off[k]
           l == Len(buffered)
           now == Arrived
           N == Len(stream)
<1>1. /\ k \in 0..N /\ x \in Nat /\ Len(S) = x + l + Len(wire)
      /\ l \in Nat /\ Len(wire) \in Nat
    BY Where, LenProperties DEF StreamInv, StreamTypeOK
<1>2. /\ N \in Nat /\ Len(S) \in Nat /\ (\A i \in 0..N : off[i] \in Nat)
      /\ (\A i, h \in 0..N : i <= h => off[i] <= off[h])
      /\ \A i \in 0..N : Bytewise(SubSeq(stream, 1, i)) = SubSeq(S, 1, off[i])
    BY Offsets, LenProperties
<1>3. \A i \in 0..N : EndOf(i) = off[i]
    <2> SUFFICES ASSUME NEW i \in 0..N PROVE Len(Bytewise(SubSeq(stream, 1, i))) = off[i]
        BY DEF EndOf
    <2>1. Len(SubSeq(S, 1, off[i])) = off[i]
        BY BytesTo
    <2> QED BY <1>2, <2>1
<1>4. \A i \in 1..N : i - 1 \in 0..N /\ off[i] = off[i - 1] + Len(stream[i]) /\ Len(stream[i]) \in Nat
                      /\ off[i - 1] < off[i]
    <2> SUFFICES ASSUME NEW i \in 1..N
                 PROVE  /\ i - 1 \in 0..N /\ off[i] = off[i - 1] + Len(stream[i])
                        /\ Len(stream[i]) \in Nat /\ off[i - 1] < off[i]
        OBVIOUS
    <2>1. /\ stream[i] \in Packets /\ off[i] = off[i - 1] + Len(stream[i]) /\ off[i - 1] \in Nat
        BY PacketAt
    <2>2. Len(stream[i]) \in Nat /\ Len(stream[i]) >= 2
        BY <2>1, PacketBytes
    <2>3. i - 1 \in 0..N
        BY <1>2
    <2>4. off[i - 1] < off[i]
        <3> DEFINE y == Len(stream[i])
                   z == off[i - 1]
        <3> HIDE DEF y, z
        <3>1. z < z + y
            BY <2>1, <2>2 DEF y, z
        <3> QED BY <2>1, <3>1 DEF y, z
    <2> QED BY <2>1, <2>2, <2>3, <2>4
<1>5. now + n = end /\ end \in Nat /\ x < end /\ end <= Len(S)
    <2>1. now = Len(S) - Len(wire)
        BY DEF Arrived
    <2>2. n \in Nat /\ n > 0 /\ n <= Len(wire) /\ end = x + (l + n)
        BY <1>1
    <2> HIDE DEF now, x, l
    <2> QED BY <1>1, <2>1, <2>2
<1>6. PICK m \in 0..N - 1 : k <= m /\ off[m] < end /\ end <= off[m + 1]
    BY <1>1, <1>5, EndsInPacket
<1> HIDE DEF N
<1>7. /\ m \in 0..N /\ m + 1 \in 1..N /\ m + 1 \in 0..N /\ m \in Nat /\ (m + 1) - 1 = m
      /\ off[m] \in Nat /\ off[m + 1] \in Nat
    <2>1. m \in 0..N /\ m + 1 \in 1..N /\ m + 1 \in 0..N /\ m \in Nat /\ (m + 1) - 1 = m
        BY <1>2, <1>6
    <2> QED BY <1>2, <2>1
<1> DEFINE last == LastWhole(off, end, m)
<1>8. last \in Nat /\ \A i \in 1..N : off[i] <= end <=> i <= last
    <2>1. CASE end = off[m + 1]
        <3>1. last = m + 1
            BY <2>1 DEF LastWhole
        <3>2. ASSUME NEW i \in 1..N, i <= m + 1 PROVE off[i] <= end
            BY <1>2, <1>7, <2>1, <3>2
        <3>3. ASSUME NEW i \in 1..N, ~(i <= m + 1) PROVE ~(off[i] <= end)
            <4>1. i \in 0..N /\ i - 1 \in 0..N /\ m + 1 <= i - 1
                BY <1>2, <1>7, <3>3
            <4>2. off[m + 1] <= off[i - 1] /\ off[i - 1] < off[i]
                BY <1>2, <1>4, <1>7, <4>1
            <4>3. off[i - 1] \in Nat /\ off[i] \in Nat
                BY <1>2, <4>1
            <4> QED BY <1>7, <2>1, <4>2, <4>3
        <3> QED BY <1>7, <3>1, <3>2, <3>3
    <2>2. CASE end # off[m + 1]
        <3>1. last = m
            BY <2>2 DEF LastWhole
        <3>2. ASSUME NEW i \in 1..N, i <= m PROVE off[i] <= end
            <4>1. i \in 0..N
                BY <1>2
            <4>2. off[i] <= off[m] /\ off[i] \in Nat
                BY <1>2, <1>7, <3>2, <4>1
            <4> QED BY <1>5, <1>6, <1>7, <4>2
        <3>3. ASSUME NEW i \in 1..N, ~(i <= m) PROVE ~(off[i] <= end)
            <4>1. i \in 0..N /\ m + 1 <= i
                BY <1>2, <1>7, <3>3
            <4>2. off[m + 1] <= off[i] /\ off[i] \in Nat
                BY <1>2, <1>7, <4>1
            <4> QED BY <1>5, <1>6, <1>7, <2>2, <4>2
        <3> QED BY <1>7, <3>1, <3>2, <3>3
    <2> QED BY <2>1, <2>2
<1>9. EndedBy(now + n) = last
    <2>1. last <= N
        BY <1>7 DEF LastWhole
    <2>2. {i \in 1..N : EndOf(i) <= now + n} = 1..last
        <3>1. \A i \in 1..N : EndOf(i) = off[i]
            BY <1>2, <1>3
        <3> HIDE DEF now, last
        <3>2. \A i \in 1..N : EndOf(i) <= now + n <=> i <= last
            BY <1>5, <1>8, <3>1
        <3> QED BY <1>2, <1>8, <2>1, <3>2
    <2>3. Cardinality(1..last) = last
        <3> HIDE DEF last
        <3>1. Cardinality(1..last) = IF 1 > last THEN 0 ELSE last - 1 + 1
            BY <1>8, FS_Interval
        <3> QED BY <1>8, <3>1
    <2> QED BY <2>2, <2>3 DEF EndedBy, N
<1>10. sure = k
    BY DEF StreamInv, Followed, HandledInOrder
<1>11. buffered # <<>> => k + 1 \in 1..N /\ k + 1 \in 0..N
    BY <1>1, <1>2 DEF StreamInv, KeptIsBegun, N
<1>12. ASSUME GoesOn(n) PROVE k < N /\ off[k + 1] <= end
    <2>1. buffered # <<>> /\ EndOf(k + 1) < now + n
        BY <1>10, <1>12 DEF GoesOn
    <2>2. EndOf(k + 1) = off[k + 1] /\ off[k + 1] \in Nat
        BY <1>2, <1>3, <1>11, <2>1
    <2> HIDE DEF now
    <2>3. off[k + 1] < end
        BY <1>5, <2>1, <2>2
    <2> QED BY <1>1, <1>2, <1>5, <1>11, <2>1, <2>2, <2>3
<1>13. ASSUME ~GoesOn(n), buffered # <<>> PROVE m = k
    <2>1. ~(EndOf(k + 1) < now + n)
        BY <1>10, <1>13 DEF GoesOn
    <2>2. EndOf(k + 1) = off[k + 1] /\ off[k + 1] \in Nat
        BY <1>2, <1>3, <1>11, <1>13
    <2> HIDE DEF now
    <2>3. end <= off[k + 1]
        BY <1>5, <2>1, <2>2
    <2>4. ASSUME m # k PROVE FALSE
        <3>1. k + 1 <= m
            <4> HIDE DEF k
            <4> QED BY <1>1, <1>6, <1>7, <2>4
        <3>2. off[k + 1] <= off[m]
            BY <1>2, <1>7, <1>11, <1>13, <3>1
        <3> QED BY <1>5, <1>6, <1>7, <2>2, <2>3, <3>2
    <2> QED BY <2>4
<1>14. ASSUME ~Ragged(n) PROVE Arriving(stream, off, S, end, k, m)
    <2>1. ~(/\ now + n - EndOf((m + 1) - 1) < Len(stream[m + 1])
            /\ PassesForWhole(stream[m + 1], now + n - EndOf((m + 1) - 1)))
        BY <1>7, <1>14 DEF Ragged, N
    <2>2. EndOf((m + 1) - 1) = off[m]
        BY <1>3, <1>7
    <2>3. ~(end - off[m] < Len(stream[m + 1]) /\ PassesForWhole(stream[m + 1], end - off[m]))
        <3> DEFINE i == now + n - EndOf((m + 1) - 1)
        <3>1. i = end - off[m]
            <4>1. now \in Int
                BY <1>1, <1>2 DEF Arrived
            <4> DEFINE e == off[m]
            <4>2. i = now + (n - e) /\ e \in Nat /\ n \in Nat
                BY <1>1, <1>7, <2>2
            <4> HIDE DEF i, now, e
            <4>3. i = end - e
                BY <1>5, <4>1, <4>2
            <4> QED BY <4>3 DEF e
        <3>2. ~(i < Len(stream[m + 1]) /\ PassesForWhole(stream[m + 1], i))
            BY <2>1
        <3> HIDE DEF i
        <3> QED BY <3>1, <3>2
    <2> HIDE DEF now
    <2>4. ASSUME end # off[m + 1] PROVE ~PassesForWhole(stream[m + 1], end - off[m])
        <3> DEFINE y == Len(stream[m + 1])
                   z == off[m]
                   e == off[m + 1]
        <3>1. e = z + y /\ y \in Nat /\ z \in Nat /\ e \in Nat /\ end <= e /\ end # e /\ z < end
            BY <1>4, <1>6, <1>7, <2>4
        <3> HIDE DEF y, z, e
        <3>2. end - z < y
            BY <1>5, <3>1
        <3> QED BY <2>3, <3>2 DEF y, z
    <2>5. k \in 0..m
        BY <1>1, <1>6, <1>7
    <2> QED BY <1>5, <1>6, <2>4, <2>5 DEF Arriving, N
<1>15. SegmentAt(n, off, S, end, m)
    BY <1>5, <1>6, <1>9, <1>12, <1>13, <1>14, Zenon DEF SegmentAt, N
<1> QED BY <1>15

\* What is taken, what is kept of it and what has not arrived are the stream again.
IsRest(ss, off, S, end, k, m, r) ==
    LET done == SubSeq(ss, 1, k) \o r.packets
        last == LastWhole(off, end, m)
    IN  /\ last \in 0..Len(ss) /\ done = SubSeq(ss, 1, last)
        /\ Bytewise(done) \o r.kept \o SubSeq(S, end + 1, Len(S)) = S
        /\ r.kept \in Seq(Nat)
        /\ r.kept # <<>> => last < Len(ss) /\ Len(r.kept) < Len(ss[last + 1])

LEMMA TakenKeeps ==
    ASSUME NEW ss, NEW off, NEW S, NEW end, NEW k, NEW m, Arriving(ss, off, S, end, k, m),
           NEW r, Taken(r, ss, off, S, end, m, k), end <= Len(S), S = Bytewise(ss)
    PROVE  IsRest(ss, off, S, end, k, m, r)
<1> DEFINE last == LastWhole(off, end, m)
           N == Len(ss)
           x == off[last]
           done == SubSeq(ss, 1, k) \o r.packets
<1>1. /\ InStream(ss, off, S) /\ m \in 0..N - 1 /\ k \in 0..m /\ end \in Nat /\ off[m] < end
      /\ end <= off[m + 1]
    BY DEF Arriving
<1>2. /\ ss \in Seq(Packets) /\ S \in Seq(Nat) /\ N \in Nat /\ Len(S) \in Nat
      /\ (\A i \in 0..N : off[i] \in Nat)
      /\ \A i \in 0..N : Bytewise(SubSeq(ss, 1, i)) = SubSeq(S, 1, off[i])
    BY <1>1, Offsets, LenProperties
<1>3. /\ last \in k..N /\ last \in 0..N /\ x \in Nat /\ x <= end
      /\ (last = m + 1 /\ end = off[m + 1]) \/ (last = m /\ end # off[m + 1])
    <2>1. (last = m + 1 /\ end = off[m + 1]) \/ (last = m /\ end # off[m + 1])
        BY DEF LastWhole
    <2> HIDE DEF last, N
    <2>2. last \in k..N /\ last \in 0..N
        <3>1. N \in Nat /\ m \in 0..N - 1 /\ k \in 0..m /\ (last = m + 1 \/ last = m)
            BY <1>1, <1>2, <2>1
        <3> QED BY <3>1
    <2>3. x \in Nat
        BY <1>2, <2>2
    <2>4. x <= end
        BY <1>1, <2>1, <2>3
    <2> QED BY <2>1, <2>2, <2>3, <2>4
<1>4. r.packets = SubSeq(ss, k + 1, last) /\ r.kept = SubSeq(S, x + 1, end)
    BY DEF Taken
<1> HIDE DEF last
<1>5. done = SubSeq(ss, 1, last)
    <2>1. 1 \in 1..N + 1 /\ k \in 1 - 1..N /\ last \in k..N
        BY <1>1, <1>2, <1>3
    <2>2. SubSeq(ss, 1, k) \o SubSeq(ss, k + 1, last) = SubSeq(ss, 1, last)
        BY <1>2, <2>1, ConcatAdjacentSubSeq
    <2> QED BY <1>4, <2>2
<1>6. Bytewise(done) = SubSeq(S, 1, x)
    BY <1>2, <1>3, <1>5
<1> HIDE DEF done, N, x
<1>7. SubSeq(S, 1, x) \o SubSeq(S, x + 1, end) = SubSeq(S, 1, end)
    <2>1. 1 \in 1..Len(S) + 1 /\ x \in 1 - 1..Len(S) /\ end \in x..Len(S)
        BY <1>1, <1>2, <1>3
    <2> QED BY <1>2, <2>1, ConcatAdjacentSubSeq
<1>8. SubSeq(S, 1, end) \o SubSeq(S, end + 1, Len(S)) = S
    <2>1. 1 \in 1..Len(S) + 1 /\ end \in 1 - 1..Len(S) /\ Len(S) \in end..Len(S)
        BY <1>1, <1>2
    <2>2. SubSeq(S, 1, end) \o SubSeq(S, end + 1, Len(S)) = SubSeq(S, 1, Len(S))
        BY <1>2, <2>1, ConcatAdjacentSubSeq
    <2>3. SubSeq(S, 1, Len(S)) = S
        BY <1>2, SubSeqFull
    <2> QED BY <2>2, <2>3
<1>9. Bytewise(done) \o r.kept \o SubSeq(S, end + 1, Len(S)) = S
    <2>1. Bytewise(done) \o r.kept = SubSeq(S, 1, end)
        BY <1>4, <1>6, <1>7
    <2> QED BY <1>8, <2>1
<1>10. r.kept \in Seq(Nat) /\ Len(r.kept) = end - x
    <2>1. x \in Nat /\ end \in Nat /\ x <= end /\ end <= Len(S)
        BY <1>1, <1>3
    <2>2. SubSeq(S, x + 1, end) \in Seq(Nat) /\ Len(SubSeq(S, x + 1, end)) = end - x
        BY <1>2, <2>1, PartIs
    <2> QED BY <1>4, <2>2
<1>11. ASSUME r.kept # <<>>
       PROVE  last < N /\ Len(r.kept) < Len(ss[last + 1])
    <2>1. Len(r.kept) # 0
        BY <1>10, <1>11, EmptySeq
    <2>2. last = m /\ end # off[m + 1]
        <3>1. ASSUME last = m + 1, end = off[m + 1] PROVE FALSE
            <4>1. x = end
                BY <3>1 DEF x
            <4>2. end - x = 0
                BY <1>1, <4>1
            <4> QED BY <1>10, <2>1, <4>2
        <3> QED BY <1>3, <3>1
    <2>3. x = off[m]
        BY <2>2 DEF x
    <2>4. m + 1 \in 1..Len(ss) /\ (m + 1) - 1 = m
        BY <1>1, <1>2 DEF N
    <2>5. /\ ss[m + 1] \in Packets /\ off[m + 1] = off[(m + 1) - 1] + Len(ss[m + 1])
        BY <1>1, <2>4, PacketAt
    <2>6. off[m + 1] = x + Len(ss[m + 1]) /\ Len(ss[m + 1]) \in Nat
        BY <2>3, <2>4, <2>5, PacketBytes
    <2>7. end - x < Len(ss[m + 1])
        <3> DEFINE y == off[m + 1]
                   l == Len(ss[m + 1])
        <3>1. end # y /\ end <= y /\ y = x + l /\ l \in Nat
            BY <1>1, <2>2, <2>6
        <3> HIDE DEF y, l
        <3>2. end - x < l
            BY <1>1, <1>3, <3>1
        <3> QED BY <3>2 DEF l
    <2> QED BY <1>10, <2>2, <2>4, <2>7 DEF N
<1> QED BY <1>3, <1>5, <1>9, <1>10, <1>11 DEF IsRest, last, done, N

LEMMA RecvKeeps ==
    ASSUME StreamInv, MQTT_ClientCon_recv_cb
    PROVE  StreamInv'
<1>1. Followed /\ stream' = stream
    BY DEF MQTT_ClientCon_recv_cb, Followed
<1>2. PICK n \in 1..Len(wire) :
         \E behind \in {0, Base} :
            /\ wire' = SubSeq(wire, n + 1, Len(wire)) /\ ragged' = Ragged(n)
            /\ IF TooLong(n) \/ n < 2
               THEN closed' = TRUE /\ UNCHANGED <<buffered, handled, sure>>
               ELSE LET new == Unpacked(SubSeq(wire, 1, n), behind)
                    IN  /\ handled' = handled \o new.packets /\ buffered' = new.kept
                        /\ sure' = IF GoesOn(n) THEN sure + 1 ELSE EndedBy(Arrived + n)
                        /\ UNCHANGED closed
    BY Zenon DEF MQTT_ClientCon_recv_cb
<1>3. PICK behind \in {0, Base} :
            /\ wire' = SubSeq(wire, n + 1, Len(wire)) /\ ragged' = Ragged(n)
            /\ IF TooLong(n) \/ n < 2
               THEN closed' = TRUE /\ UNCHANGED <<buffered, handled, sure>>
               ELSE LET new == Unpacked(SubSeq(wire, 1, n), behind)
                    IN  /\ handled' = handled \o new.packets /\ buffered' = new.kept
                        /\ sure' = IF GoesOn(n) THEN sure + 1 ELSE EndedBy(Arrived + n)
                        /\ UNCHANGED closed
    BY <1>2
<1>4. /\ stream \in Seq(Packets) /\ handled \in Seq(Packets) /\ Len(handled) \in Nat
      /\ wire \in Seq(Nat) /\ Len(wire) \in Nat /\ buffered \in Seq(Nat) /\ Len(buffered) \in Nat
      /\ n \in Nat /\ n <= Len(wire) /\ behind \in Nat /\ Len(stream) \in Nat
    <2>1. behind \in Nat
        BY SizesAssumption
    <2> QED BY <1>1, <2>1, LenProperties DEF StreamInv, StreamTypeOK
<1>4a. sure = Len(handled) /\ IsPrefix(SubSeq(handled, 1, sure), stream)
    BY <1>1 DEF StreamInv, Followed, HandledInOrder
<1>5. wire' \in Seq(Nat)
    <2>1. SubSeq(wire, n + 1, Len(wire)) \in Seq(Nat)
        BY <1>4, PartIs
    <2> QED BY <1>3, <2>1
<1>6. CASE TooLong(n) \/ n < 2
    <2>1. closed' = TRUE /\ handled' = handled /\ sure' = sure
        BY <1>3, <1>6
    <2>2. HandledInOrder'
        BY <1>1, <1>4, <1>4a, <2>1 DEF HandledInOrder
    <2> QED BY <2>1, <2>2 DEF StreamInv, Followed
<1>7. CASE ~(TooLong(n) \/ n < 2)
    <2> DEFINE seg == SubSeq(wire, 1, n)
               r == Unpacked(seg, behind)
               k == Len(handled)
               S == Bytewise(stream)
    <2>1. /\ handled' = handled \o r.packets /\ buffered' = r.kept /\ closed' = closed
          /\ sure' = IF GoesOn(n) THEN k + 1 ELSE EndedBy(Arrived + n)
        BY <1>3, <1>4a, <1>7, Zenon
    <2>2. PICK off : InStream(stream, off, S)
        BY <1>4, BytesOf
    <2> DEFINE end == off[k] + (Len(buffered) + n)
    <2>3. /\ k \in 0..Len(stream) /\ handled = SubSeq(stream, 1, k) /\ off[k] \in Nat
          /\ Place(buffered, S, off[k]) /\ Place(wire, S, off[k] + Len(buffered))
          /\ Len(S) = off[k] + Len(buffered) + Len(wire)
        BY <1>1, <2>2, Where
    <2>4. S \in Seq(Nat)
        BY <2>2 DEF InStream
    <2>5. PICK m : SegmentAt(n, off, S, end, m)
        BY <1>1, <2>2, SegmentEnds
    <2>6. seg \in Seq(Nat) /\ Len(seg) = n /\ Place(seg, S, off[k] + Len(buffered))
        <3> DEFINE at == off[k] + Len(buffered)
        <3>1. at \in Nat /\ Place(wire, S, at)
            BY <1>4, <2>3
        <3> HIDE DEF at, S
        <3>0. PICK z \in Nat : z = 0
            OBVIOUS
        <3>2. Place(SubSeq(wire, z + 1, n), S, at + z) /\ Len(SubSeq(wire, z + 1, n)) = n - z
            <4>1. z <= n
                BY <1>4, <3>0
            <4> QED BY <1>4, <2>4, <3>1, <4>1, PlaceOfPart
        <3>3. z + 1 = 1 /\ at + z = at /\ n - z = n
            BY <1>4, <3>0, <3>1
        <3>4. Place(SubSeq(wire, 1, n), S, at) /\ Len(SubSeq(wire, 1, n)) = n
            BY <3>2, <3>3
        <3> QED BY <3>4 DEF Place, at
    <2>7. end + (Len(wire) - n) = Len(S) /\ end \in Nat /\ end <= Len(S)
        <3> DEFINE x == off[k]
        <3>1. x \in Nat /\ Len(S) = x + Len(buffered) + Len(wire) /\ end = x + (Len(buffered) + n)
            BY <2>3
        <3> HIDE DEF x, S, end
        <3> QED BY <1>4, <3>1
    <2>8. wire' = SubSeq(S, end + 1, Len(S))
        <3> DEFINE at == off[k] + Len(buffered)
                   w == SubSeq(wire, n + 1, Len(wire))
        <3>1. at \in Nat /\ Place(wire, S, at) /\ at + n = end
            <4> DEFINE x == off[k]
            <4>1. x \in Nat /\ at = x + Len(buffered) /\ end = x + (Len(buffered) + n)
                BY <2>3
            <4>2. Place(wire, S, at)
                BY <2>3
            <4> HIDE DEF x, at, end
            <4> QED BY <1>4, <4>1, <4>2
        <3> HIDE DEF at, S, end
        <3>2. Place(w, S, at + n) /\ Len(w) = Len(wire) - n
            BY <1>4, <2>4, <3>1, PlaceOfPart
        <3> HIDE DEF w
        <3>3. Place(w, S, end) /\ end + Len(w) = Len(S)
            BY <2>7, <3>1, <3>2
        <3>4. w = SubSeq(S, end + 1, end + Len(w))
            BY <2>4, <2>7, <3>3, PlaceIs
        <3> QED BY <1>3, <3>3, <3>4 DEF w
    <2>9. Place(buffered \o seg, S, off[k])
        <3> DEFINE x == off[k]
        <3>1. x \in Nat /\ Place(buffered, S, x) /\ Place(seg, S, x + Len(buffered))
            BY <2>3, <2>6
        <3> HIDE DEF x, S, seg
        <3>2. Place(buffered \o seg, S, x)
            BY <2>4, <3>1, PlacesJoin
        <3> QED BY <3>2 DEF x
    <2> DEFINE last == LastWhole(off, end, m)
               done == SubSeq(stream, 1, k) \o r.packets
               first == IF GoesOn(n) THEN k + 1 ELSE last
    <2>9a. /\ m \in 0..Len(stream) - 1 /\ k <= m /\ end <= off[m + 1] /\ off[m] < end
           /\ last \in 0..Len(stream) /\ last \in k..m + 1 /\ off[last] <= end
           /\ last = EndedBy(Arrived + n)
        <3>1. /\ m \in 0..Len(stream) - 1 /\ k <= m /\ end <= off[m + 1] /\ off[m] < end
              /\ last = EndedBy(Arrived + n)
            BY <2>5 DEF SegmentAt
        <3>2. last \in {m, m + 1} /\ off[last] <= end
            <4>1. end \in Nat /\ off[m] \in Nat
                <5>1. m \in 0..Len(stream)
                    BY <1>4, <3>1
                <5>2. \A i \in 0..Len(stream) : off[i] \in Nat
                    BY <2>2, Offsets
                <5> QED BY <1>4, <2>3, <5>1, <5>2
            <4>2. CASE end = off[m + 1]
                BY <4>1, <4>2 DEF LastWhole
            <4>3. CASE end # off[m + 1]
                <5> HIDE DEF end
                <5>1. off[m] <= end
                    BY <3>1, <4>1
                <5> QED BY <4>3, <5>1 DEF LastWhole
            <4> QED BY <4>2, <4>3
        <3> HIDE DEF last, end, S
        <3> QED BY <1>4, <2>3, <3>1, <3>2
    <2>10. BeginsWith(r, stream, k, first) /\ first \in 0..Len(stream) /\ k \in 0..first
        <3>1. /\ first \in 0..Len(stream) /\ k \in 0..first /\ off[first] <= end
              /\ buffered = <<>> \/ first <= k + 1
            <4>1. CASE GoesOn(n)
                <5>1. first = k + 1 /\ k < Len(stream) /\ off[k + 1] <= end
                    BY <2>5, <4>1 DEF SegmentAt
                <5> HIDE DEF first, k, end
                <5> QED BY <1>4, <2>3, <5>1
            <4>2. CASE ~GoesOn(n)
                <5>1. first = last /\ (buffered = <<>> \/ m = k)
                    BY <2>5, <4>2 DEF SegmentAt
                <5> HIDE DEF first, k, end, last
                <5> QED BY <1>4, <2>3, <2>9a, <5>1
            <4> QED BY <4>1, <4>2
        <3>2. end = off[k] + (Len(buffered) + Len(seg)) /\ end \in Nat
            BY <2>6, <2>7
        <3> HIDE DEF S, end, k, seg, first, last
        <3>3. BeginsWith(Unpacked(seg, behind), stream, k, first)
            BY <1>4, <2>2, <2>6, <2>9, <3>1, <3>2, ReadFirst
        <3> QED BY <3>1, <3>3
    <2>10a. sure' = first
        BY <2>1, <2>9a
    <2>10b. (sure <= Len(handled) /\ IsPrefix(SubSeq(handled, 1, sure), stream))'
        <3>1. done = handled'
            BY <2>1, <2>3
        <3> HIDE DEF S, end, k, r, first
        <3>2. first <= Len(done) /\ IsPrefix(SubSeq(done, 1, first), stream)
            BY <1>4, <2>10, HandledFirst
        <3> HIDE DEF done
        <3> QED BY <1>1, <2>10a, <3>1, <3>2
    <2>10c. CASE Ragged(n)
        <3>1. ragged' = TRUE
            BY <1>3, <2>10c
        <3> HIDE DEF S, end, k, r, first, last, done
        <3> QED BY <2>10b, <3>1 DEF StreamInv, Followed, HandledInOrder
    <2> SUFFICES ASSUME ~Ragged(n) PROVE StreamInv'
        BY <2>10c
    <2>10d. sure' = last /\ ragged' = FALSE
        <3>1. ~GoesOn(n) /\ ragged' = Ragged(n)
            BY <1>3 DEF Ragged
        <3> HIDE DEF last
        <3> QED BY <2>10a, <3>1
    <2>10e. Taken(r, stream, off, S, end, m, k)
        <3>1. end = off[k] + (Len(buffered) + Len(seg))
            BY <2>6
        <3>2. Arriving(stream, off, S, end, k, m) /\ (buffered = <<>> \/ m = k)
            BY <2>5 DEF SegmentAt, Ragged
        <3> HIDE DEF S, end, k, seg
        <3> QED BY <1>4, <2>6, <2>9, <3>1, <3>2, ReadAll
    <2>11. /\ last \in 0..Len(stream) /\ done = SubSeq(stream, 1, last)
           /\ Bytewise(done) \o r.kept \o SubSeq(S, end + 1, Len(S)) = S
           /\ r.kept \in Seq(Nat)
           /\ r.kept # <<>> => last < Len(stream) /\ Len(r.kept) < Len(stream[last + 1])
        <3>1. S = Bytewise(stream)
            OBVIOUS
        <3>2. Arriving(stream, off, S, end, k, m) /\ end <= Len(S)
            BY <2>5, <2>7 DEF SegmentAt
        <3> HIDE DEF S, end, k, r, last, done
        <3>3. IsRest(stream, off, S, end, k, m, r)
            BY <2>10e, <3>1, <3>2, TakenKeeps
        <3> QED BY <3>3 DEF IsRest, last, done
    <2>12. handled' = SubSeq(stream, 1, last) /\ done = handled'
        BY <2>1, <2>3, <2>11
    <2> HIDE DEF S, end, k, r, last, done
    <2>13. handled' \in Seq(Packets) /\ Len(handled') = last
        <3>1. last \in Nat /\ last <= Len(stream) /\ Len(stream) \in Nat
            BY <1>4, <2>11, LenProperties
        <3>2. \A i \in 1..last : stream[i] \in Packets
            BY <1>4, <3>1, ElementOfSeq
        <3>3. /\ SubSeq(stream, 1, last) \in Seq(Packets)
              /\ Len(SubSeq(stream, 1, last)) = IF 1 <= last THEN last - 1 + 1 ELSE 0
            BY <3>1, <3>2, SubSeqProperties
        <3> QED BY <2>12, <3>1, <3>3
    <2>14. (sure = Len(handled))'
        BY <2>10d, <2>13
    <2>15. (Bytewise(handled) \o buffered \o wire = Bytewise(stream))'
        <3>1. Bytewise(done) \o r.kept \o wire' = S
            BY <2>8, <2>11
        <3>2. Bytewise(handled') \o buffered' \o wire' = Bytewise(stream)
            BY <2>1, <2>12, <3>1 DEF S
        <3> QED BY <1>1, <3>2
    <2>16. ASSUME buffered' # <<>>
           PROVE  /\ Len(handled') < Len(stream)
                  /\ Len(buffered') < Len(stream[Len(handled') + 1])
        BY <2>1, <2>11, <2>13, <2>16
    <2>17. Len(buffered') <= BufSize
        <3>1. CASE buffered' = <<>>
            <4>1. Len(buffered') = 0
                BY <3>1
            <4>2. BufSize \in Nat
                BY SizesAssumption
            <4> QED BY <4>1, <4>2
        <3>2. CASE buffered' # <<>>
            <4>1. Len(handled') \in Nat /\ Len(handled') < Len(stream) /\ Len(stream) \in Nat
                BY <1>4, <2>13, <2>16, <3>2, LenProperties
            <4> DEFINE i == Len(handled') + 1
            <4>2. i \in 1..Len(stream)
                BY <4>1
            <4>3. Len(buffered') < Len(stream[i])
                BY <2>16, <3>2
            <4> HIDE DEF i
            <4>4. stream[i] \in Packets
                BY <1>4, <4>2, ElementOfSeq
            <4>5. Len(stream[i]) \in 2..BufSize /\ BufSize \in Nat
                BY <4>4, PacketsAssumption, SizesAssumption
            <4>6. Len(buffered') \in Nat
                BY <2>1, <2>11, LenProperties
            <4> QED BY <4>3, <4>5, <4>6
        <3> QED BY <3>1, <3>2
    <2>18. HandledInOrder'
        BY <1>1, <2>10b, <2>14, <2>15, <2>16, <2>17 DEF HandledInOrder
    <2>19. StreamTypeOK'
        BY <1>1, <1>4, <1>5, <2>1, <2>11, <2>13 DEF StreamTypeOK
    <2>20. KeptIsBegun'
        BY <1>1, <2>16 DEF KeptIsBegun
    <2> QED BY <2>18, <2>19, <2>20 DEF StreamInv
<1> QED BY <1>6, <1>7

-----------------------------------------------------------------------------
(* The theorem *)

LEMMA StreamInvInit ==
    ASSUME StreamInit
    PROVE  StreamInv
<1>1. stream = <<>> /\ wire = <<>> /\ buffered = <<>> /\ handled = <<>> /\ sure = 0
    BY DEF StreamInit
<1>2. Bytewise(<<>>) = <<>>
    <2>1. Len(<<>>) = 0
        OBVIOUS
    <2> QED BY <2>1 DEF Bytewise, FlattenSeq
<1>3. sure = Len(handled) /\ IsPrefix(SubSeq(handled, 1, sure), stream)
    <2>1. SubSeq(<<>>, 1, 0) = <<>>
        BY SubSeqEmpty
    <2> QED BY <1>1, <2>1 DEF IsPrefix
<1>4. Bytewise(handled) \o buffered \o wire = Bytewise(stream)
    <2>1. <<>> \o <<>> = <<>>
        OBVIOUS
    <2> QED BY <1>1, <1>2, <2>1
<1>5. Len(buffered) <= BufSize
    <2>1. Len(buffered) = 0 /\ BufSize \in Nat
        BY <1>1, SizesAssumption
    <2> QED BY <2>1
<1>6. StreamTypeOK
    <2>1. <<>> \in Seq(Packets) /\ <<>> \in Seq(Nat)
        BY EmptySeq
    <2> QED BY <1>1, <2>1 DEF StreamTypeOK
<1> QED BY <1>1, <1>3, <1>4, <1>5, <1>6 DEF StreamInv, HandledInOrder, KeptIsBegun

LEMMA StreamInvNext ==
    ASSUME StreamInv, [StreamNext]_streamVars
    PROVE  StreamInv'
<1>1. CASE ClientSends
    BY <1>1, ClientSendsKeeps
<1>2. CASE MQTT_ClientCon_recv_cb
    BY <1>2, RecvKeeps
<1>3. CASE UNCHANGED streamVars
    BY <1>3 DEF streamVars, StreamInv, Followed, StreamTypeOK, HandledInOrder, KeptIsBegun, Bytewise,
                IsPrefix
<1> QED BY <1>1, <1>2, <1>3 DEF StreamNext

\* Wherever TCP cuts the stream, the broker handles the packets in the order in which they were
\* sent, up to those that the first ragged segment completes, and until then no byte is lost or
\* made up: however many packets there are, whatever is in them and whatever the buffer holds
\* behind them.
THEOREM StreamInOrder == StreamSpec => []HandledInOrder
<1>1. StreamInit => StreamInv
    BY StreamInvInit
<1>2. StreamInv /\ [StreamNext]_streamVars => StreamInv'
    BY StreamInvNext
<1>3. StreamInv => HandledInOrder
    BY DEF StreamInv
<1> QED BY <1>1, <1>2, <1>3, PTL DEF StreamSpec

-----------------------------------------------------------------------------
(* What is written is found where it was put *)

\* A piece that is two pieces.
LEMMA PlaceSplit ==
    ASSUME NEW S \in Seq(Nat), NEW at \in Nat, NEW s \in Seq(Nat), NEW t \in Seq(Nat),
           Place(s \o t, S, at)
    PROVE  Place(s, S, at) /\ Place(t, S, at + Len(s)) /\ Len(s \o t) = Len(s) + Len(t)
<1> DEFINE m == Len(s)
           n == Len(t)
           r == s \o t
<1>1. m \in Nat /\ n \in Nat /\ Len(S) \in Nat
    BY LenProperties
<1>2. IsJoin(r, s, t, m, n)
    BY Join
<1>3. Len(s) = m /\ Len(t) = n
    OBVIOUS
<1> HIDE DEF r, m, n
<1>4. /\ Len(r) = m + n
      /\ \A j \in 1..m : r[j] = s[j]
      /\ \A j \in 1..n : r[m + j] = t[j]
    BY <1>2 DEF IsJoin
<1>5. at + (m + n) <= Len(S) /\ \A i \in 1..m + n : r[i] = S[at + i]
    BY <1>4 DEF Place, r
<1>6. ASSUME NEW i \in 1..m PROVE s[i] = S[at + i]
    <2>1. i \in 1..m + n
        BY <1>1
    <2> QED BY <1>4, <1>5, <2>1
<1>7. ASSUME NEW i \in 1..n PROVE t[i] = S[at + m + i]
    <2>1. m + i \in 1..m + n /\ at + (m + i) = at + m + i
        BY <1>1
    <2>2. r[m + i] = S[at + (m + i)]
        BY <1>5, <2>1
    <2> QED BY <1>4, <2>1, <2>2
<1>8. at + m <= Len(S) /\ at + m + n <= Len(S)
    BY <1>1, <1>5
<1>9. Place(s, S, at)
    BY <1>3, <1>6, <1>8 DEF Place
<1>10. Place(t, S, at + m)
    BY <1>3, <1>7, <1>8 DEF Place
<1> QED BY <1>3, <1>4, <1>9, <1>10 DEF r

\* A number of two bytes is read as it was written.
LEMMA TwoBytesRead ==
    ASSUME NEW n \in Nat, n < Word * Word
    PROVE  /\ TwoBytes(n) \in Seq(Nat) /\ Len(TwoBytes(n)) = 2
           /\ TwoBytes(n)[1] \in Bytes /\ TwoBytes(n)[2] \in Bytes
           /\ TwoBytes(n)[1] * Word + TwoBytes(n)[2] = n
<1>1. Word \in Nat /\ Word > 0
    BY SizesAssumption DEF Word
<1>2. n \div Word \in Nat /\ n % Word \in 0..Word - 1 /\ n = Word * (n \div Word) + (n % Word)
    BY <1>1
<1> DEFINE q == n \div Word
           r == n % Word
<1>3. TwoBytes(n) = <<q, r>>
    BY DEF TwoBytes
<1>4. q \in Nat /\ r \in 0..Word - 1 /\ n = Word * q + r
    BY <1>2
<1> HIDE DEF q, r
<1>5. q < Word
    <2> SUFFICES ASSUME q >= Word PROVE FALSE
        BY <1>1, <1>4
    <2>1. PICK d \in Nat : q = Word + d
        <3>1. q - Word \in Nat /\ q = Word + (q - Word)
            BY <1>1, <1>4
        <3> QED BY <3>1
    <2>2. Word * q = Word * Word + Word * d
        BY <1>1, <2>1
    <2>3. Word * d \in Nat /\ Word * Word \in Nat
        BY <1>1
    <2> QED BY <1>1, <1>4, <2>2, <2>3
<1>6. q * Word = Word * q
    BY <1>1, <1>4
<1>7. q \in Bytes /\ r \in Bytes
    BY <1>1, <1>4, <1>5 DEF Bytes
<1> QED BY <1>3, <1>4, <1>6, <1>7

LEMMA Word16Read ==
    ASSUME NEW b \in Seq(Nat), NEW at \in Nat, NEW n \in Nat, n < Word * Word, Place(TwoBytes(n), b, at)
    PROVE  Word16(b, at) = n
<1> DEFINE t == TwoBytes(n)
<1>1. Len(t) = 2 /\ t[1] * Word + t[2] = n
    BY TwoBytesRead
<1>2. \A i \in 1..Len(t) : t[i] = b[at + i]
    BY DEF Place
<1> HIDE DEF t
<1>3. t[1] = b[at + 1] /\ t[2] = b[at + 2]
    BY <1>1, <1>2
<1> QED BY <1>1, <1>3 DEF Word16

\* A string is found behind its length.
LEMMA StringRead ==
    ASSUME NEW b \in Seq(Nat), NEW at \in Nat, NEW s \in Seq(Nat), Len(s) < Word * Word,
           Place(append_string(s), b, at)
    PROVE  /\ Word16(b, at) = Len(s) /\ String(b, at) = s /\ Behind(b, at) = at + 2 + Len(s)
           /\ Len(append_string(s)) = 2 + Len(s) /\ at + 2 + Len(s) <= Len(b)
<1> DEFINE n == Len(s)
           t == TwoBytes(n)
<1>1. n \in Nat /\ t \in Seq(Nat) /\ Len(t) = 2 /\ n < Word * Word
    BY TwoBytesRead, LenProperties
<1>2. append_string(s) = t \o s
    BY DEF append_string
<1>3. Place(t, b, at) /\ Place(s, b, at + Len(t)) /\ Len(append_string(s)) = Len(t) + n
    <2> HIDE DEF t
    <2>1. Place(t \o s, b, at)
        BY <1>2
    <2>2. \A x, y \in Seq(Nat) : Place(x \o y, b, at) =>
             Place(x, b, at) /\ Place(y, b, at + Len(x)) /\ Len(x \o y) = Len(x) + Len(y)
        BY PlaceSplit
    <2>3. Place(t, b, at) /\ Place(s, b, at + Len(t)) /\ Len(t \o s) = Len(t) + Len(s)
        BY <1>1, <2>1, <2>2
    <2> QED BY <1>2, <2>3
<1>4. Word16(b, at) = n
    BY <1>1, <1>3, Word16Read
<1>5. Place(s, b, at + 2) /\ at + 2 \in Nat
    BY <1>1, <1>3
<1>6. s = SubSeq(b, (at + 2) + 1, (at + 2) + n)
    BY <1>5, PlaceIs
<1>7. at + 2 + n <= Len(b)
    BY <1>5 DEF Place
<1> HIDE DEF n, t
<1>8. (at + 2) + 1 = at + 2 + 1 /\ (at + 2) + n = at + 2 + n
    OBVIOUS
<1> QED BY <1>1, <1>3, <1>4, <1>6, <1>7 DEF String, Slice, Behind, n

-----------------------------------------------------------------------------
(* The fixed header *)

\* p is a packet of this body, whose fixed header has e bytes, h the first of them.
Framed(p, e, h, body) ==
    /\ p \in Seq(Nat) /\ Len(p) = e + Len(body) /\ Len(p) <= BufSize
    /\ EndsAt(p, e) /\ LengthAt(p, e) = Len(p) /\ Place(body, p, e)
    /\ p[1] = h /\ \A i \in 2..e : p[i] \in Bytes

LEMMA FiniMessage ==
    ASSUME NEW body \in Seq(Nat), BodyFits(body), NEW type \in Nat, NEW qos \in Nat, NEW retain \in Nat
    PROVE  \E e \in 2..3 :
              Framed(fini_message(body, type, qos, retain), e, HeaderByte(type, qos, retain), body)
<1> DEFINE n == Len(body)
           e == IF n > Base - 1 THEN 3 ELSE 2
           h == HeaderByte(type, qos, retain)
           r == RemainingLength(n)
           hr == <<h>> \o r
           p == hr \o body
<1>1. /\ n \in Nat /\ Base \in Nat /\ Base > 8 /\ BufSize \in Nat /\ BufSize <= Base * Base
      /\ n + 3 <= BufSize
    BY SizesAssumption, LenProperties DEF BodyFits, MaxFixedHeader
<1>2. h \in Nat
    BY DEF HeaderByte
<1>3. /\ n \div Base \in Nat /\ n % Base \in 0..Base - 1 /\ n = Base * (n \div Base) + (n % Base)
    BY <1>1
<1>4. n \div Base < Base
    <2> DEFINE q == n \div Base
    <2>1. q \in Nat /\ n = Base * q + (n % Base)
        BY <1>3
    <2> HIDE DEF q
    <2> SUFFICES ASSUME q >= Base PROVE FALSE
        BY <1>1, <2>1 DEF q
    <2>2. PICK d \in Nat : q = Base + d
        <3>1. q - Base \in Nat /\ q = Base + (q - Base)
            BY <1>1, <2>1
        <3> QED BY <3>1
    <2>3. Base * q = Base * Base + Base * d
        BY <1>1, <2>2
    <2>4. Base * d \in Nat /\ Base * Base \in Nat
        BY <1>1
    <2>5. n % Base \in Nat
        BY <1>3
    <2> DEFINE m == n % Base
               bb == Base * Base
               bd == Base * d
    <2>6. n = bb + bd + m /\ m \in Nat /\ bb \in Nat /\ bd \in Nat /\ n + 3 <= BufSize /\ BufSize <= bb
        BY <1>1, <2>1, <2>3, <2>4, <2>5
    <2> HIDE DEF m, bb, bd
    <2> QED BY <1>1, <2>6
<1>5. /\ r \in Seq(Nat) /\ Len(r) = e - 1 /\ e \in 2..3
      /\ \A i \in 1..e - 1 : r[i] \in Bytes /\ (r[i] < Base <=> i = e - 1)
      /\ (r[1] % Base) + (IF e = 2 THEN 0 ELSE Base * (r[2] % Base)) = n
    <2>1. CASE n > Base - 1
        <3> DEFINE x == Base + (n % Base)
                   y == n \div Base
        <3>1. r = <<x, y>> /\ e = 3
            BY <2>1 DEF RemainingLength
        <3>2. x \in Nat /\ y \in Nat /\ x < 2 * Base /\ y < Base /\ ~(x < Base)
            BY <1>1, <1>3, <1>4, SMTT(30)
        <3>3. y % Base = y
            BY <1>1, <3>2, SMTT(30)
        <3>4. x % Base = n % Base
            <4> DEFINE m == n % Base
            <4>1. m \in 0..Base - 1
                BY <1>3
            <4> HIDE DEF m
            <4>2. (Base + m) % Base = m
                BY <1>1, <4>1
            <4> QED BY <4>2 DEF m
        <3>5. (x % Base) + Base * (y % Base) = n
            <4>1. Base * y + (n % Base) = n
                BY <1>3
            <4>2. Base * y \in Nat /\ n % Base \in Nat
                BY <1>1, <1>3, <3>2
            <4> DEFINE u == Base * y
                       m == n % Base
            <4>3. m + u = n
                <5>1. u \in Nat /\ m \in Nat /\ u + m = n
                    BY <4>1, <4>2
                <5> HIDE DEF u, m
                <5> QED BY <5>1
            <4> QED BY <3>3, <3>4, <4>3
        <3> HIDE DEF x, y
        <3>6. x \in Bytes /\ y \in Bytes
            BY <1>1, <3>2 DEF Bytes, Word
        <3>7. r \in Seq(Nat) /\ Len(r) = 2 /\ r[1] = x /\ r[2] = y
            BY <3>1, <3>2
        <3>8. \A i \in 1..2 : r[i] \in Bytes /\ (r[i] < Base <=> i = 2)
            BY <3>2, <3>6, <3>7
        <3> HIDE DEF r
        <3>9. e - 1 = 2 /\ e \in 2..3 /\ e # 2
            BY <3>1
        <3> HIDE DEF e, n
        <3> QED BY <3>5, <3>7, <3>8, <3>9
    <2>2. CASE ~(n > Base - 1)
        <3>1. r = <<n>> /\ e = 2
            BY <2>2 DEF RemainingLength
        <3>2. n < Base /\ n % Base = n
            BY <1>1, <2>2, SMTT(30)
        <3> HIDE DEF n
        <3> QED BY <1>1, <3>1, <3>2 DEF Bytes, Word
    <2> QED BY <2>1, <2>2
<1> HIDE DEF r, h
<1>6. hr \in Seq(Nat) /\ Len(hr) = e /\ hr[1] = h /\ \A i \in 2..e : hr[i] = r[i - 1]
    BY <1>2, <1>5
<1>7. fini_message(body, type, qos, retain) = p
    BY DEF fini_message, h, r
<1> HIDE DEF hr, e, n
<1>8. IsJoin(p, hr, body, e, n)
    <2>1. IsJoin(hr \o body, hr, body, Len(hr), Len(body))
        BY <1>6, Join
    <2> QED BY <1>6, <2>1 DEF n
<1> HIDE DEF p
<1>9. /\ p \in Seq(Nat) /\ Len(p) = e + n /\ \A j \in 1..e : p[j] = hr[j]
      /\ \A j \in 1..n : p[e + j] = body[j]
    BY <1>8 DEF IsJoin
<1>10. p[1] = h /\ \A i \in 2..e : p[i] = r[i - 1] /\ i - 1 \in 1..e - 1
    <2>1. e \in 2..3
        BY <1>5
    <2>2. p[1] = hr[1]
        BY <1>9, <2>1
    <2>3. ASSUME NEW i \in 2..e PROVE p[i] = r[i - 1] /\ i - 1 \in 1..e - 1
        <3>1. i \in 1..e /\ i - 1 \in 1..e - 1
            BY <2>1
        <3>2. p[i] = hr[i]
            BY <1>9, <3>1
        <3> QED BY <1>6, <3>1, <3>2
    <2> QED BY <1>6, <2>2, <2>3
<1>11. EndsAt(p, e)
    <2>1. e \in 2..3 /\ e <= Len(p)
        BY <1>1, <1>5, <1>9
    <2>2. ASSUME NEW i \in 2..e PROVE p[i] < Base <=> i = e
        <3>1. p[i] = r[i - 1] /\ i - 1 \in 1..e - 1
            BY <1>10
        <3>2. r[i - 1] < Base <=> i - 1 = e - 1
            BY <1>5, <3>1
        <3>3. i - 1 = e - 1 <=> i = e
            BY <2>1
        <3> QED BY <3>1, <3>2, <3>3
    <2>3. e \in 2..e
        BY <2>1
    <2>4. p[e] < Base
        BY <2>2, <2>3
    <2> QED BY <2>1, <2>2, <2>4 DEF EndsAt
<1>12. LengthAt(p, e) = e + n
    <2>1. p[2] = r[1] /\ (e = 3 => p[3] = r[2])
        BY <1>5, <1>10
    <2> DEFINE a == r[1] % Base
               b == IF e = 2 THEN 0 ELSE Base * (r[2] % Base)
    <2>2. LengthAt(p, e) = e + a + b
        BY <1>5, <2>1 DEF LengthAt
    <2>3. a \in Nat
        BY <1>1, <1>5
    <2>4. a + b = n
        BY <1>5
    <2>5. b \in Int
        <3>1. CASE e = 2
            BY <3>1
        <3>2. CASE e # 2
            <4>1. e = 3 /\ 2 \in 1..e - 1
                BY <1>5, <3>2
            <4>2. r[2] \in Nat
                <5>1. r[2] \in Bytes
                    BY <1>5, <4>1
                <5> QED BY <1>1, <5>1 DEF Bytes, Word
            <4>3. r[2] % Base \in Int
                BY <1>1, <4>2
            <4>4. Base * (r[2] % Base) \in Int
                BY <1>1, <4>3
            <4> QED BY <3>2, <4>4
        <3> QED BY <3>1, <3>2
    <2> HIDE DEF a, b
    <2> QED BY <1>5, <2>2, <2>3, <2>4, <2>5
<1>13. Place(body, p, e)
    BY <1>1, <1>9 DEF Place, n
<1>14. e + n <= BufSize
    BY <1>1, <1>5
<1>15. \A i \in 2..e : p[i] \in Bytes
    BY <1>5, <1>10
<1>16. Framed(p, e, h, body)
    BY <1>9, <1>10, <1>11, <1>12, <1>13, <1>14, <1>15 DEF Framed, n
<1> QED BY <1>5, <1>7, <1>16 DEF h

\* A buffer that begins with p, whatever is behind it.
Begins(b, p) == b \in Seq(Nat) /\ p \in Seq(Nat) /\ Len(p) <= Len(b) /\ \A i \in 1..Len(p) : b[i] = p[i]

\* The readers find the length and the body of a packet in a buffer that begins with it.
Found(b, p, e, h, body) ==
    /\ LengthEnd(b, Len(b)) = e /\ mqtt_get_total_length(b, Len(b)) = Len(p)
    /\ Place(body, b, e) /\ (b[2] < Base <=> e = 2) /\ b[1] = h

LEMMA HeaderRead ==
    ASSUME NEW b, NEW p, Begins(b, p), NEW e, NEW h, NEW body \in Seq(Nat), Framed(p, e, h, body)
    PROVE  Found(b, p, e, h, body)
<1>0. EndsAt(p, e) /\ LengthAt(p, e) = Len(p) /\ Place(body, p, e) /\ p[1] = h
    BY DEF Framed
<1>1. /\ b \in Seq(Nat) /\ p \in Seq(Nat) /\ Len(p) \in Nat /\ Len(b) \in Nat /\ Len(p) <= Len(b)
      /\ \A i \in 1..Len(p) : b[i] = p[i]
    BY LenProperties DEF Begins
<1>2. e \in 2..3 /\ e <= Len(p) /\ p[e] < Base /\ \A i \in 2..e : p[i] < Base => i = e
    BY <1>0 DEF EndsAt
<1>3. b[1] = p[1] /\ \A i \in 2..e : b[i] = p[i]
    BY <1>1, <1>2
<1>4. EndsAt(b, e)
    <2>1. e \in 2..e /\ b[e] = p[e] /\ e <= Len(b)
        BY <1>1, <1>2, <1>3
    <2>2. \A i \in 2..e : b[i] < Base => i = e
        BY <1>2, <1>3
    <2> QED BY <1>2, <2>1, <2>2 DEF EndsAt
<1>5. LengthAt(b, e) = LengthAt(p, e)
    <2>1. b[2] = p[2] /\ (e # 2 => b[3] = p[3])
        BY <1>2, <1>3
    <2> QED BY <2>1 DEF LengthAt
<1>6. mqtt_get_total_length(b, Len(b)) = Len(p)
    BY <1>0, <1>1, <1>4, <1>5, TotalAt
<1>7. LengthEnd(b, Len(b)) = e
    <2> DEFINE n == Len(b)
               end == LengthEnd(b, n)
    <2>1. \/ end \in 2..n /\ b[end] < Base /\ \A i \in 2..n : b[i] < Base => end <= i
          \/ end = n /\ \A i \in 2..n : ~(b[i] < Base)
        BY <1>1, LengthEndIs
    <2> HIDE DEF end
    <2>2. e \in 2..n /\ b[e] < Base
        BY <1>1, <1>2, <1>3
    <2>3. end \in 2..n /\ b[end] < Base /\ end <= e
        BY <2>1, <2>2
    <2>4. end \in 2..e
        BY <1>2, <2>3
    <2> QED BY <1>2, <1>3, <2>3, <2>4 DEF end
<1>8. Place(body, b, e)
    <2>1. /\ e + Len(body) <= Len(p) /\ Len(body) \in Nat
          /\ \A i \in 1..Len(body) : body[i] = p[e + i]
        BY <1>0, LenProperties DEF Place
    <2>2. ASSUME NEW i \in 1..Len(body) PROVE body[i] = b[e + i]
        <3>1. e + i \in 1..Len(p)
            BY <1>1, <1>2, <2>1, SMTT(30)
        <3> QED BY <1>1, <2>1, <3>1
    <2>3. e + Len(body) <= Len(b)
        BY <1>1, <1>2, <2>1
    <2> QED BY <2>2, <2>3 DEF Place
<1>9. b[2] < Base <=> e = 2
    <2>1. 2 \in 2..e /\ b[2] = p[2]
        BY <1>2, <1>3
    <2> QED BY <1>2, <2>1
<1> QED BY <1>0, <1>3, <1>6, <1>7, <1>8, <1>9 DEF Found

-----------------------------------------------------------------------------
(* PUBLISH *)

HeaderFields(h, type, qos, retain) ==
    h \in 0..255 /\ h \div 16 = type /\ (h \div 2) % 4 = qos /\ h % 2 = retain

LEMMA HeaderByteRead ==
    ASSUME NEW type \in 0..15, NEW qos \in 0..2, NEW retain \in 0..1
    PROVE  HeaderFields(HeaderByte(type, qos, retain), type, qos, retain)
<1>1. HeaderByte(type, qos, retain) = 16 * type + 2 * qos + retain
    BY DEF HeaderByte
<1> DEFINE h == HeaderByte(type, qos, retain)
           l == 2 * qos + retain
<1>2. l \in 0..5 /\ h = 16 * type + l
    BY <1>1
<1>3. l \div 2 = qos /\ l % 2 = retain
    <2>1. qos \in {0, 1, 2} /\ retain \in {0, 1}
        OBVIOUS
    <2> QED BY <2>1
<1> HIDE DEF h, l
<1>4. h \div 16 = type
    BY <1>2
<1>5. h \div 2 = 8 * type + (l \div 2) /\ h % 2 = l % 2
    BY <1>2
<1>6. (8 * type + qos) % 4 = qos
    OBVIOUS
<1> QED BY <1>2, <1>3, <1>4, <1>5, <1>6 DEF h, HeaderFields

\* Whatever fits into a buffer has a length of two bytes.
LEMMA FitsLength ==
    ASSUME NEW body \in Seq(Nat), BodyFits(body)
    PROVE  Len(body) + 3 <= BufSize /\ Len(body) < Word * Word /\ Len(body) \in Nat
<1>1. Len(body) \in Nat /\ Len(body) + 3 <= BufSize /\ BufSize \in Nat /\ BufSize <= Base * Base
    BY SizesAssumption, LenProperties DEF BodyFits, MaxFixedHeader
<1>2. Base * Base <= Word * Word /\ Base * Base \in Nat /\ Word * Word \in Nat
    <2>1. Base \in Nat /\ Word = Base + Base
        BY SizesAssumption DEF Word
    <2>2. Word * Word = Base * Base + Base * Base + Base * Base + Base * Base
        BY <2>1
    <2>3. Base * Base \in Nat
        BY <2>1
    <2> QED BY <2>2, <2>3
<1> QED BY <1>1, <1>2

LEMMA Associative ==
    ASSUME NEW s \in Seq(Nat), NEW t \in Seq(Nat), NEW u \in Seq(Nat)
    PROVE  (s \o t) \o u = s \o (t \o u)
BY ConcatAssociative, SMTT(30)

LEMMA AppendStringIs ==
    ASSUME NEW s \in Seq(Nat)
    PROVE  append_string(s) \in Seq(Nat) /\ Len(append_string(s)) = 2 + Len(s)
<1> DEFINE n == Len(s)
           t == TwoBytes(n)
<1>1. n \in Nat /\ Word \in Nat /\ Word > 0
    BY SizesAssumption, LenProperties DEF Word
<1>2. t \in Seq(Nat) /\ Len(t) = 2
    <2>1. n \div Word \in Nat /\ n % Word \in Nat
        BY <1>1
    <2> QED BY <2>1 DEF TwoBytes
<1>3. append_string(s) = t \o s
    BY DEF append_string
<1> HIDE DEF t, n
<1>4. t \o s \in Seq(Nat) /\ Len(t \o s) = Len(t) + Len(s)
    BY <1>2, ConcatProperties
<1> QED BY <1>2, <1>3, <1>4

\* What the broker finds in a buffer that begins with a PUBLISH.
PublishIs(b, p, topic, data, qos, retain, id) ==
    /\ mqtt_get_type(b) = Type.PUBLISH
    /\ mqtt_get_publish_topic(b, Len(b)) = topic
    /\ mqtt_get_publish_data(b, Len(b)) = data
    /\ mqtt_get_qos(b) = qos /\ mqtt_get_retain(b) = retain
    /\ mqtt_get_total_length(b, Len(b)) = Len(p)
    /\ data # <<>> => mqtt_get_id(b, Len(b)) = IF qos > 0 THEN id ELSE 0

LEMMA PublishRead ==
    ASSUME NEW topic \in Seq(Nat), topic # <<>>, NEW data \in Seq(Nat), NEW qos \in 0..2, NEW retain \in 0..1,
           NEW id \in Nat, id < Word * Word, BodyFits(PublishBody(topic, data, qos, id)),
           NEW p, p = mqtt_msg_publish(topic, data, qos, retain, id), NEW b, Begins(b, p)
    PROVE  PublishIs(b, p, topic, data, qos, retain, id)
<1> DEFINE body == PublishBody(topic, data, qos, id)
           s == append_string(topic)
           i == IF qos > 0 THEN TwoBytes(id) ELSE <<>>
           m == IF qos > 0 THEN 2 ELSE 0
           id_d == i \o data
           n == Len(topic)
           d == Len(data)
           L == Len(b)
           h == HeaderByte(3, qos, retain)
<1>1. n \in Nat /\ n > 0 /\ d \in Nat /\ (data # <<>> => d > 0) /\ m \in Nat
    BY LenProperties, EmptySeq
<1>2. i \in Seq(Nat) /\ Len(i) = m
    <2>1. TwoBytes(id) \in Seq(Nat) /\ Len(TwoBytes(id)) = 2
        BY TwoBytesRead
    <2>2. CASE qos > 0
        BY <2>1, <2>2
    <2>3. CASE ~(qos > 0)
        BY <2>3
    <2> QED BY <2>2, <2>3
<1>3. s \in Seq(Nat) /\ Len(s) = 2 + n
    BY AppendStringIs
<1>4. id_d \in Seq(Nat) /\ Len(id_d) = m + d
    <2> HIDE DEF i, m
    <2> QED BY <1>2, ConcatProperties
<1>5. body = s \o id_d /\ body \in Seq(Nat) /\ Len(body) = 2 + n + m + d
    <2>1. body = s \o i \o data
        BY DEF PublishBody
    <2> HIDE DEF s, i, m, body, n, d
    <2>3. s \o i \o data = s \o id_d
        <3>1. s \in Seq(Nat) /\ i \in Seq(Nat) /\ data \in Seq(Nat)
            BY <1>2, <1>3
        <3>2. \A x, y, z \in Seq(Nat) : (x \o y) \o z = x \o (y \o z)
            BY Associative, ZenonT(60)
        <3> QED BY <3>1, <3>2, ZenonT(60)
    <2>4. s \o id_d \in Seq(Nat) /\ Len(s \o id_d) = Len(s) + Len(id_d)
        <3> HIDE DEF id_d
        <3> QED BY <1>3, <1>4, ConcatProperties
    <2> HIDE DEF id_d
    <2> QED BY <1>1, <1>3, <1>4, <2>1, <2>3, <2>4
<1>6. BodyFits(body)
    OBVIOUS
<1>7. p = fini_message(body, 3, qos, retain)
    <2>1. Type.PUBLISH = 3
        BY DEF Type
    <2> QED BY <1>6, <2>1 DEF mqtt_msg_publish, Finished
<1> HIDE DEF body, id_d, i, s
<1>8. PICK e \in 2..3 : Framed(p, e, h, body)
    <2>1. 3 \in Nat /\ qos \in Nat /\ retain \in Nat
        OBVIOUS
    <2>2. \E e \in 2..3 : Framed(fini_message(body, 3, qos, retain), e, HeaderByte(3, qos, retain), body)
        BY <1>5, <1>6, <2>1, FiniMessage
    <2> QED BY <1>7, <2>2
<1>9. e \in 2..3 /\ Len(p) = e + Len(body)
    BY <1>8 DEF Framed
<1> HIDE DEF h
<1>10. /\ LengthEnd(b, L) = e /\ mqtt_get_total_length(b, L) = Len(p)
       /\ Place(body, b, e) /\ b[1] = h
    <2>1. Found(b, p, e, h, body)
        BY <1>5, <1>8, HeaderRead
    <2> QED BY <2>1 DEF Found
<1>11. h \div 16 = 3 /\ (h \div 2) % 4 = qos /\ h % 2 = retain
    <2>1. 3 \in 0..15
        OBVIOUS
    <2>2. HeaderFields(HeaderByte(3, qos, retain), 3, qos, retain)
        BY <2>1, HeaderByteRead
    <2> QED BY <2>2 DEF h, HeaderFields
<1>12. b \in Seq(Nat) /\ L \in Nat /\ Len(p) <= L
    BY LenProperties DEF Begins
<1>13. \A at \in Nat : \A x, y \in Seq(Nat) : Place(x \o y, b, at) =>
             Place(x, b, at) /\ Place(y, b, at + Len(x)) /\ Len(x \o y) = Len(x) + Len(y)
    BY <1>12, PlaceSplit
<1>14. Place(s, b, e) /\ Place(id_d, b, e + (2 + n))
    BY <1>3, <1>4, <1>5, <1>9, <1>10, <1>13, SMTT(30)
<1>15. Place(i, b, e + (2 + n)) /\ Place(data, b, e + (2 + n) + m)
    <2>1. e + (2 + n) \in Nat
        BY <1>1, <1>9
    <2> HIDE DEF m, n
    <2> QED BY <1>2, <1>14, <1>13, <2>1 DEF id_d
<1>16. n < Word * Word
    <2>1. Len(body) < Word * Word
        BY <1>5, <1>6, FitsLength
    <2>2. Word * Word \in Nat
        BY SizesAssumption DEF Word
    <2> QED BY <1>1, <1>5, <2>1, <2>2
<1>17. Word16(b, e) = n /\ String(b, e) = topic /\ Behind(b, e) = e + 2 + n
    BY <1>9, <1>12, <1>14, <1>16, StringRead DEF s
<1>18. mqtt_get_qos(b) = qos /\ mqtt_get_retain(b) = retain /\ mqtt_get_type(b) = 3 /\ Type.PUBLISH = 3
    BY <1>10, <1>11 DEF mqtt_get_qos, mqtt_get_retain, mqtt_get_type, Type
<1>19. Len(p) = e + 2 + n + m + d
    BY <1>1, <1>5, <1>9
<1> HIDE DEF n, d, L
<1>20. mqtt_get_publish_topic(b, L) = topic
    <2>1. e + 2 < L /\ e + 2 + n <= L
        BY <1>1, <1>9, <1>12, <1>19
    <2> QED BY <1>10, <1>17, <2>1 DEF mqtt_get_publish_topic, HasString
<1>21. DataAt(b, L) = e + 2 + n + m
    BY <1>10, <1>17, <1>18 DEF DataAt
<1>22. data = SubSeq(b, (e + 2 + n + m) + 1, (e + 2 + n + m) + d)
    <2>1. e + (2 + n) + m \in Nat /\ e + (2 + n) + m = e + 2 + n + m
        BY <1>1, <1>9
    <2>2. Place(data, b, e + 2 + n + m) /\ e + 2 + n + m \in Nat
        BY <1>15, <2>1
    <2> DEFINE at == e + 2 + n + m
    <2> HIDE DEF at
    <2> QED BY <1>12, <2>2, PlaceIs DEF at, d
<1>23. mqtt_get_publish_data(b, L) = data
    <2> DEFINE total == mqtt_get_total_length(b, L)
               Has == /\ e + 2 < L /\ Behind(b, e) < L
                      /\ mqtt_get_qos(b) > 0 => Behind(b, e) + 2 < L
                      /\ total >= DataAt(b, L)
    <2>1. total = e + 2 + n + m + d /\ total <= L
        BY <1>10, <1>12, <1>19
    <2>2. Slice(b, DataAt(b, L), (IF total <= L THEN total ELSE L) - DataAt(b, L)) = data
        <3>1. total - DataAt(b, L) = d
            BY <1>1, <1>9, <1>21, <2>1
        <3> HIDE DEF total
        <3> QED BY <1>21, <1>22, <2>1, <3>1 DEF Slice
    <2>3. ASSUME ~Has PROVE data = <<>>
        <3> SUFFICES ASSUME d > 0 PROVE Has
            BY <1>1, <2>3
        <3>1. e + 2 + n < L /\ (qos > 0 => e + 2 + n + 2 < L) /\ e + 2 < L
            BY <1>1, <1>9, <1>12, <1>19
        <3> QED BY <1>1, <1>9, <1>17, <1>18, <1>21, <2>1, <3>1
    <2>4. mqtt_get_publish_data(b, L) =
             IF Has THEN Slice(b, DataAt(b, L), (IF total <= L THEN total ELSE L) - DataAt(b, L)) ELSE <<>>
        BY <1>10 DEF mqtt_get_publish_data
    <2> HIDE DEF Has, total
    <2> QED BY <2>2, <2>3, <2>4
<1>24. ASSUME data # <<>> PROVE mqtt_get_id(b, L) = IF qos > 0 THEN id ELSE 0
    <2>1. d > 0
        BY <1>1, <1>24
    <2>2. e + 2 + n < L /\ (qos > 0 => e + 2 + n + 2 < L) /\ e + 2 < L
        BY <1>1, <1>9, <1>12, <1>19, <2>1
    <2>3. ASSUME qos > 0 PROVE Word16(b, Behind(b, e)) = id
        <3>1. i = TwoBytes(id)
            BY <2>3 DEF i
        <3>2. Place(TwoBytes(id), b, e + 2 + n) /\ e + 2 + n \in Nat
            <4>1. e + (2 + n) = e + 2 + n /\ e + 2 + n \in Nat
                BY <1>1, <1>9
            <4> QED BY <1>15, <3>1, <4>1
        <3> DEFINE at == e + 2 + n
        <3>3. at \in Nat /\ Place(TwoBytes(id), b, at) /\ Behind(b, e) = at
            BY <1>17, <3>2
        <3> HIDE DEF at
        <3> QED BY <1>12, <3>3, Word16Read
    <2> QED BY <1>10, <1>17, <1>18, <2>2, <2>3 DEF mqtt_get_id
<1>25. L = Len(b)
    BY DEF L
<1> QED BY <1>10, <1>18, <1>20, <1>23, <1>24, <1>25 DEF PublishIs

-----------------------------------------------------------------------------
(* SUBSCRIBE and UNSUBSCRIBE *)

\* What the broker finds in a buffer that begins with a request, if its length takes one byte.
RequestIs(b, p, topic, id) ==
    b[2] < Base => mqtt_get_id(b, Len(b)) = id /\ RequestedTopic(b, Len(p)) = topic

RequestBody(topic, id, rest) == TwoBytes(id) \o append_string(topic) \o rest

LEMMA RequestRead ==
    ASSUME NEW topic \in Seq(Nat), topic # <<>>, NEW id \in Nat, id < Word * Word, NEW rest \in Seq(Nat),
           BodyFits(RequestBody(topic, id, rest)), NEW type \in {Type.SUBSCRIBE, Type.UNSUBSCRIBE},
           NEW p, p = fini_message(RequestBody(topic, id, rest), type, 1, 0), NEW b, Begins(b, p)
    PROVE  RequestIs(b, p, topic, id)
<1> DEFINE body == RequestBody(topic, id, rest)
           s == append_string(topic)
           i == TwoBytes(id)
           t == s \o rest
           n == Len(topic)
           d == Len(rest)
           h == HeaderByte(type, 1, 0)
<1>1. n \in Nat /\ n > 0 /\ d \in Nat
    BY LenProperties, EmptySeq
<1>2. i \in Seq(Nat) /\ Len(i) = 2
    BY TwoBytesRead
<1>3. s \in Seq(Nat) /\ Len(s) = 2 + n
    BY AppendStringIs
<1> HIDE DEF s, i
<1>4. t \in Seq(Nat) /\ Len(t) = 2 + n + d
    <2>1. s \o rest \in Seq(Nat) /\ Len(s \o rest) = Len(s) + Len(rest)
        BY <1>3, ConcatProperties
    <2> QED BY <1>1, <1>3, <2>1
<1>5. body = i \o t /\ body \in Seq(Nat) /\ Len(body) = 4 + n + d
    <2>1. body = i \o s \o rest
        BY DEF RequestBody, i, s
    <2>2. (i \o s) \o rest = i \o t
        BY <1>2, <1>3, Associative
    <2> HIDE DEF body, t
    <2>3. i \o t \in Seq(Nat) /\ Len(i \o t) = Len(i) + Len(t)
        BY <1>2, <1>4, ConcatProperties
    <2> HIDE DEF n, d
    <2> QED BY <1>1, <1>2, <1>4, <2>1, <2>2, <2>3
<1>6. BodyFits(body)
    OBVIOUS
<1>7. type \in 0..15 /\ type \in {8, 10}
    BY DEF Type
<1> HIDE DEF body
<1>8. PICK e \in 2..3 : Framed(p, e, h, body)
    <2>1. type \in Nat /\ 1 \in Nat /\ 0 \in Nat
        BY <1>7
    <2>2. \E e \in 2..3 : Framed(fini_message(body, type, 1, 0), e, HeaderByte(type, 1, 0), body)
        BY <1>5, <1>6, <2>1, FiniMessage
    <2> QED BY <2>2 DEF body
<1> HIDE DEF h, n, d, t
<1>9. /\ Place(body, b, e) /\ (b[2] < Base <=> e = 2) /\ b[1] = h
    <2>1. Found(b, p, e, h, body)
        BY <1>5, <1>8, HeaderRead
    <2> QED BY <2>1 DEF Found
<1>10. b \in Seq(Nat) /\ Len(b) \in Nat /\ Len(p) <= Len(b) /\ Len(p) = e + Len(body)
    <2>1. Len(p) = e + Len(body)
        BY <1>8 DEF Framed
    <2> QED BY <2>1, LenProperties DEF Begins
<1>11. mqtt_get_type(b) = type
    <2>1. 1 \in 0..2 /\ 0 \in 0..1
        OBVIOUS
    <2>2. HeaderFields(HeaderByte(type, 1, 0), type, 1, 0)
        BY <1>7, <2>1, HeaderByteRead
    <2> QED BY <1>9, <2>2 DEF h, HeaderFields, mqtt_get_type
<1> SUFFICES ASSUME b[2] < Base
             PROVE  mqtt_get_id(b, Len(b)) = id /\ RequestedTopic(b, Len(p)) = topic
    BY DEF RequestIs
<1>12. e = 2 /\ Len(p) = 6 + n + d
    BY <1>1, <1>5, <1>9, <1>10
<1>13. \A at \in Nat : \A x, y \in Seq(Nat) : Place(x \o y, b, at) =>
             Place(x, b, at) /\ Place(y, b, at + Len(x)) /\ Len(x \o y) = Len(x) + Len(y)
    BY <1>10, PlaceSplit
<1>14. Place(i, b, 2) /\ Place(t, b, 4)
    <2>1. 2 \in Nat /\ 2 + Len(i) = 4 /\ Place(i \o t, b, 2)
        BY <1>2, <1>5, <1>9, <1>12
    <2>2. Place(i, b, 2) /\ Place(t, b, 2 + Len(i))
        BY <1>2, <1>4, <1>13, <2>1
    <2>3. Place(t, b, 4)
        BY <2>1, <2>2
    <2> QED BY <2>2, <2>3
<1>15. Place(s, b, 4)
    <2>1. 4 \in Nat /\ Place(s \o rest, b, 4)
        BY <1>14 DEF t
    <2> QED BY <1>3, <1>13, <2>1
<1>16. Word16(b, 2) = id
    <2>1. 2 \in Nat /\ Place(TwoBytes(id), b, 2)
        BY <1>14 DEF i
    <2> QED BY <1>10, <2>1, Word16Read
<1>17. n < Word * Word
    <2>1. Len(body) < Word * Word
        BY <1>5, <1>6, FitsLength
    <2>2. Word * Word \in Nat
        BY SizesAssumption DEF Word
    <2> QED BY <1>1, <1>5, <2>1, <2>2
<1>18. Word16(b, 4) = n /\ String(b, 4) = topic
    <2>1. 4 \in Nat /\ Place(append_string(topic), b, 4) /\ Len(topic) < Word * Word
        BY <1>15, <1>17 DEF s, n
    <2>2. Word16(b, 4) = Len(topic) /\ String(b, 4) = topic
        BY <1>10, <2>1, StringRead
    <2> QED BY <2>2 DEF n
<1>19. mqtt_get_id(b, Len(b)) = id
    <2>1. Len(b) >= 4
        BY <1>1, <1>10, <1>12
    <2>2. Type.PUBLISH = 3
        BY DEF Type
    <2> QED BY <1>7, <1>11, <1>16, <2>1, <2>2 DEF mqtt_get_id
<1>20. HasString(b, 4, Len(p))
    BY <1>1, <1>12, <1>18 DEF HasString
<1> QED BY <1>18, <1>19, <1>20 DEF RequestedTopic

-----------------------------------------------------------------------------
(* The values in a packet *)

Values == Bytes \cup 0..255 \cup {MAGIC}

LEMMA ValuesAre == Values \in SUBSET Nat /\ Bytes \in SUBSET Values /\ 0..255 \in SUBSET Values /\ MAGIC \in Values
BY SizesAssumption DEF Values, Bytes, MAGIC, Word

LEMMA FramedValues ==
    ASSUME NEW p, NEW e \in 2..3, NEW h \in 0..255, NEW body \in Seq(Values), Framed(p, e, h, body)
    PROVE  p \in Seq(Values)
<1> DEFINE n == Len(body)
<1>1. p \in Seq(Nat) /\ Len(p) = e + n /\ p[1] = h /\ \A i \in 2..e : p[i] \in Values
    BY ValuesAre DEF Framed
<1>2. n \in Nat /\ \A i \in 1..n : body[i] \in Values /\ body[i] = p[e + i]
    BY LenProperties, ElementOfSeq DEF Framed, Place
<1> HIDE DEF n
<1>3. ASSUME NEW i \in 1..Len(p) PROVE p[i] \in Values
    <2>1. CASE i = 1
        BY <1>1, <2>1, ValuesAre
    <2>2. CASE i \in 2..e
        BY <1>1, <2>2
    <2>3. CASE i > e
        <3>1. i - e \in 1..n /\ e + (i - e) = i
            BY <1>1, <1>2, <2>3
        <3> QED BY <1>2, <3>1
    <2> QED BY <2>1, <2>2, <2>3
<1>4. p = [i \in 1..Len(p) |-> p[i]] /\ Len(p) \in Nat
    BY <1>1
<1> QED BY <1>3, <1>4

\* The pieces that bodies are put together from.
LEMMA PieceValues ==
    /\ \A n \in Nat : n < Word * Word => TwoBytes(n) \in Seq(Values)
    /\ \A s \in Seq(Values) : Len(s) < Word * Word => append_string(s) \in Seq(Values)
    /\ \A s, t \in Seq(Values) : s \o t \in Seq(Values)
    /\ <<>> \in Seq(Values) /\ \A v \in Values : <<v>> \in Seq(Values)
    /\ Seq(Values) \in SUBSET Seq(Nat)
<1>1. ASSUME NEW n \in Nat, n < Word * Word PROVE TwoBytes(n) \in Seq(Values)
    <2>1. TwoBytes(n)[1] \in Values /\ TwoBytes(n)[2] \in Values
        BY <1>1, TwoBytesRead, ValuesAre
    <2>2. TwoBytes(n) = <<TwoBytes(n)[1], TwoBytes(n)[2]>>
        BY DEF TwoBytes
    <2>3. \A x, y \in Values : <<x, y>> \in Seq(Values)
        OBVIOUS
    <2>4. <<TwoBytes(n)[1], TwoBytes(n)[2]>> \in Seq(Values)
        BY <2>1, <2>3
    <2> HIDE DEF Values
    <2> QED BY <2>2, <2>4, Zenon
<1>2. \A s, t \in Seq(Values) : s \o t \in Seq(Values)
    BY ConcatProperties
<1>3. ASSUME NEW s \in Seq(Values), Len(s) < Word * Word PROVE append_string(s) \in Seq(Values)
    <2>1. TwoBytes(Len(s)) \in Seq(Values)
        BY <1>1, <1>3, LenProperties
    <2> HIDE DEF Values
    <2> QED BY <1>2, <2>1 DEF append_string
<1>4. Seq(Values) \in SUBSET Seq(Nat)
    <2> SUFFICES ASSUME NEW s \in Seq(Values) PROVE s \in Seq(Nat)
        OBVIOUS
    <2>1. s = [i \in 1..Len(s) |-> s[i]] /\ Len(s) \in Nat
        OBVIOUS
    <2>2. ASSUME NEW i \in 1..Len(s) PROVE s[i] \in Nat
        <3>1. s[i] \in Values
            OBVIOUS
        <3> QED BY <3>1, ValuesAre
    <2> QED BY <2>1, <2>2
<1> QED BY <1>1, <1>2, <1>3, <1>4

-----------------------------------------------------------------------------
(* CONNECT *)

\* The flags are read bit by bit as they were put together.
FlagsAre(f, info) ==
    /\ f \in 0..255
    /\ Bit(f, 2) = info.clean /\ Bit(f, 4) = (info.will # <<>>) /\ (f \div 8) % 4 = info.willQos
    /\ Bit(f, 32) = info.willRetain /\ Bit(f, 64) = (info.pass # <<>>) /\ Bit(f, 128) = (info.user # <<>>)

LEMMA FlagsRead ==
    ASSUME NEW info \in Infos
    PROVE  FlagsAre(ConnectFlags(info), info)
<1>1. /\ info.clean \in BOOLEAN /\ info.willQos \in 0..3 /\ info.willRetain \in BOOLEAN
      /\ info.will = <<>> => info.willQos = 0 /\ ~info.willRetain
    BY InputsAssumption DEF ConnectInfo
<1> DEFINE c == IF info.clean THEN 1 ELSE 0
           w == IF info.will # <<>> THEN 1 ELSE 0
           r == IF info.willRetain THEN 1 ELSE 0
           p == IF info.pass # <<>> THEN 1 ELSE 0
           u == IF info.user # <<>> THEN 1 ELSE 0
           q == info.willQos
           f == ConnectFlags(info)
<1>2. f = 2 * c + (4 * w + 8 * q + 32 * r) + 64 * p + 128 * u
    <2>1. Flag(info.clean, 2) = 2 * c /\ Flag(info.pass # <<>>, 64) = 64 * p /\ Flag(info.user # <<>>, 128) = 128 * u
        BY DEF Flag
    <2>2. (IF info.will = <<>> THEN 0 ELSE 4 + 8 * info.willQos + Flag(info.willRetain, 32))
             = 4 * w + 8 * q + 32 * r
        BY <1>1 DEF Flag
    <2> HIDE DEF c, w, r, p, u, q
    <2> QED BY <2>1, <2>2 DEF ConnectFlags
<1>3. /\ c \in 0..1 /\ w \in 0..1 /\ r \in 0..1 /\ p \in 0..1 /\ u \in 0..1 /\ q \in 0..3
    BY <1>1
<1>4. /\ (c = 1) = info.clean /\ (w = 1) = (info.will # <<>>) /\ (r = 1) = info.willRetain
      /\ (p = 1) = (info.pass # <<>>) /\ (u = 1) = (info.user # <<>>) /\ q = info.willQos
    BY <1>1
<1> HIDE DEF c, w, r, p, u, q, f
<1>5. f \in 0..255
    BY <1>2, <1>3
<1>6. (f \div 2) % 2 = c /\ (f \div 4) % 2 = w /\ (f \div 8) % 4 = q
    <2>1. f \div 2 = c + 2 * (w + 2 * q + 8 * r + 16 * p + 32 * u)
        BY <1>2, <1>3
    <2>2. f \div 4 = w + 2 * (q + 4 * r + 8 * p + 16 * u)
        BY <1>2, <1>3
    <2>3. f \div 8 = q + 4 * (r + 2 * p + 4 * u)
        BY <1>2, <1>3
    <2> QED BY <1>3, <2>1, <2>2, <2>3
<1>7. (f \div 32) % 2 = r /\ (f \div 64) % 2 = p /\ (f \div 128) % 2 = u
    <2>1. f \div 32 = r + 2 * (p + 2 * u)
        BY <1>2, <1>3
    <2>2. f \div 64 = p + 2 * u
        BY <1>2, <1>3
    <2>3. f \div 128 = u
        BY <1>2, <1>3
    <2> QED BY <1>3, <2>1, <2>2, <2>3
<1>8. /\ Bit(f, 2) = (c = 1) /\ Bit(f, 4) = (w = 1) /\ Bit(f, 32) = (r = 1)
      /\ Bit(f, 64) = (p = 1) /\ Bit(f, 128) = (u = 1)
    BY <1>6, <1>7 DEF Bit
<1> QED BY <1>4, <1>5, <1>6, <1>8 DEF FlagsAre, f

\* Where the strings begin, one after the other.
NextStart(b, length, at) == IF at # 0 /\ HasString(b, at, length) THEN Behind(b, at) ELSE 0

LEMMA StartsAre ==
    ASSUME NEW b, NEW length
    PROVE  /\ Starts(b, length)[1] = 4
           /\ \A k \in 1..5 : Starts(b, length)[k + 1] = NextStart(b, length, Starts(b, length)[k])
<1> DEFINE Equation(f) == [k \in 1..6 |-> IF k = 1 THEN 4
                             ELSE IF f[k - 1] # 0 /\ HasString(b, f[k - 1], length) THEN Behind(b, f[k - 1]) ELSE 0]
           Next1(at) == NextStart(b, length, at)
           f1 == 4
           f2 == Next1(f1)
           f3 == Next1(f2)
           f4 == Next1(f3)
           f5 == Next1(f4)
           f6 == Next1(f5)
           f == <<f1, f2, f3, f4, f5, f6>>
           at == CHOOSE g : g = Equation(g)
<1>1. f = Equation(f)
    <2>1. \A x : Next1(x) = IF x # 0 /\ HasString(b, x, length) THEN Behind(b, x) ELSE 0
        BY DEF NextStart
    <2>2. \A k \in 2..6 : f[k] = Next1(f[k - 1])
        <3>1. /\ f[1] = f1 /\ f[2] = f2 /\ f[3] = f3 /\ f[4] = f4 /\ f[5] = f5 /\ f[6] = f6
            OBVIOUS
        <3>2. \A k \in 2..6 : k = 2 \/ k = 3 \/ k = 4 \/ k = 5 \/ k = 6
            OBVIOUS
        <3> HIDE DEF f, Next1, f1
        <3> QED BY <3>1, <3>2
    <2>3. f[1] = 4 /\ f = [k \in 1..6 |-> f[k]]
        OBVIOUS
    <2> HIDE DEF f, Next1
    <2>4. \A k \in 1..6 : f[k] = IF k = 1 THEN 4
              ELSE IF f[k - 1] # 0 /\ HasString(b, f[k - 1], length) THEN Behind(b, f[k - 1]) ELSE 0
        BY <2>1, <2>2, <2>3
    <2> QED BY <2>3, <2>4
<1>2. at = Equation(at)
    <2> HIDE DEF f
    <2> QED BY <1>1
<1>3. Starts(b, length) = at
    BY DEF Starts
<1> HIDE DEF at
<1>4. at[1] = 4 /\ \A k \in 2..6 : at[k] = NextStart(b, length, at[k - 1])
    BY <1>2 DEF NextStart
<1>5. ASSUME NEW k \in 1..5 PROVE at[k + 1] = NextStart(b, length, at[k])
    <2>1. k + 1 \in 2..6 /\ (k + 1) - 1 = k
        OBVIOUS
    <2> QED BY <1>4, <2>1
<1> QED BY <1>3, <1>4, <1>5

\* A string that is found where it was put.
Reads(b, length, at, s) ==
    /\ at \in Nat /\ at # 0 /\ HasString(b, at, length) /\ String(b, at) = s
    /\ Word16(b, at) = Len(s) /\ Behind(b, at) = at + 2 + Len(s)

LEMMA PieceRead ==
    ASSUME NEW b \in Seq(Nat), NEW at \in Nat, at # 0, NEW s \in Seq(Nat), Len(s) < Word * Word,
           Place(append_string(s), b, at), NEW length \in Nat,
           at + 2 < length, at + 2 + Len(s) <= length
    PROVE  Reads(b, length, at, s)
<1>1. Word16(b, at) = Len(s) /\ String(b, at) = s /\ Behind(b, at) = at + 2 + Len(s)
    BY StringRead
<1> QED BY <1>1 DEF Reads, HasString

-----------------------------------------------------------------------------

\* The pieces of a CONNECT.
Opening(info) == <<MAGIC, ConnectFlags(info)>>
IdPiece(info, behind) == append_string(IF info.id = <<>> THEN <<0, behind>> ELSE info.id)
WillPiece(info) == IF info.will = <<>> THEN <<>> ELSE append_string(info.will) \o append_string(info.willData)
ConnectBody(info, behind) ==
    Opening(info) \o IdPiece(info, behind) \o WillPiece(info) \o Optional(info.user) \o Optional(info.pass)

\* Five pieces, one behind the other.
LEMMA FivePieces ==
    ASSUME NEW a \in Seq(Nat), NEW i \in Seq(Nat), NEW w \in Seq(Nat), NEW u \in Seq(Nat), NEW q \in Seq(Nat)
    PROVE  /\ a \o i \o w \o u \o q \in Seq(Nat)
           /\ Len(a \o i \o w \o u \o q) = Len(a) + Len(i) + Len(w) + Len(u) + Len(q)
<1>1. \A x, y \in Seq(Nat) : x \o y \in Seq(Nat) /\ Len(x \o y) = Len(x) + Len(y)
    BY ConcatProperties
<1>2. a \o i \in Seq(Nat) /\ Len(a \o i) = Len(a) + Len(i)
    BY <1>1
<1>3. a \o i \o w \in Seq(Nat) /\ Len(a \o i \o w) = Len(a \o i) + Len(w)
    BY <1>1, <1>2
<1>4. a \o i \o w \o u \in Seq(Nat) /\ Len(a \o i \o w \o u) = Len(a \o i \o w) + Len(u)
    BY <1>1, <1>3
<1>5. a \o i \o w \o u \o q \in Seq(Nat) /\ Len(a \o i \o w \o u \o q) = Len(a \o i \o w \o u) + Len(q)
    BY <1>1, <1>4
<1> QED BY <1>2, <1>3, <1>4, <1>5

LEMMA FivePlaces ==
    ASSUME NEW a \in Seq(Nat), NEW i \in Seq(Nat), NEW w \in Seq(Nat), NEW u \in Seq(Nat), NEW q \in Seq(Nat),
           NEW b \in Seq(Nat), NEW at \in Nat, Place(a \o i \o w \o u \o q, b, at)
    PROVE  /\ Place(a, b, at) /\ Place(i, b, at + Len(a)) /\ Place(w, b, at + Len(a) + Len(i))
           /\ Place(u, b, at + Len(a) + Len(i) + Len(w))
           /\ Place(q, b, at + Len(a) + Len(i) + Len(w) + Len(u))
<1>1. \A x, y \in Seq(Nat) : x \o y \in Seq(Nat) /\ Len(x \o y) = Len(x) + Len(y)
    BY ConcatProperties
<1>2. \A x, y \in Seq(Nat) : Place(x \o y, b, at) => Place(x, b, at) /\ Place(y, b, at + Len(x))
    BY PlaceSplit
<1>3. a \o i \in Seq(Nat) /\ a \o i \o w \in Seq(Nat) /\ a \o i \o w \o u \in Seq(Nat)
    BY <1>1
<1> DEFINE la == Len(a)
           li == Len(i)
           lw == Len(w)
           lu == Len(u)
<1>4. la \in Nat /\ li \in Nat /\ lw \in Nat /\ lu \in Nat
    BY LenProperties
<1>5. Len(a \o i) = la + li /\ Len(a \o i \o w) = la + li + lw /\ Len(a \o i \o w \o u) = la + li + lw + lu
    BY <1>1, <1>3
<1> HIDE DEF la, li, lw, lu
<1>6. Place(a \o i \o w \o u, b, at) /\ Place(q, b, at + Len(a \o i \o w \o u))
    BY <1>2, <1>3
<1>7. Place(a \o i \o w, b, at) /\ Place(u, b, at + Len(a \o i \o w))
    BY <1>2, <1>3, <1>6
<1>8. Place(a \o i, b, at) /\ Place(w, b, at + Len(a \o i))
    BY <1>2, <1>3, <1>7
<1>9. Place(a, b, at) /\ Place(i, b, at + la)
    BY <1>2, <1>8 DEF la
<1>10. at + (la + li) = at + la + li /\ at + (la + li + lw) = at + la + li + lw
       /\ at + (la + li + lw + lu) = at + la + li + lw + lu
    BY <1>4
<1> QED BY <1>5, <1>6, <1>7, <1>8, <1>9, <1>10 DEF la, li, lw, lu

\* How long the pieces are, and of which values.
ConnectPieces(info, behind) ==
    /\ Opening(info) \in Seq(Nat) /\ Len(Opening(info)) = 2
    /\ IdPiece(info, behind) \in Seq(Nat)
    /\ info.id # <<>> => Len(IdPiece(info, behind)) = 2 + Len(info.id)
    /\ WillPiece(info) \in Seq(Nat)
    /\ Len(WillPiece(info)) = IF info.will = <<>> THEN 0 ELSE 2 + Len(info.will) + (2 + Len(info.willData))
    /\ Optional(info.user) \in Seq(Nat)
    /\ Len(Optional(info.user)) = IF info.user = <<>> THEN 0 ELSE 2 + Len(info.user)
    /\ Optional(info.pass) \in Seq(Nat)
    /\ Len(Optional(info.pass)) = IF info.pass = <<>> THEN 0 ELSE 2 + Len(info.pass)

InfoIs(info) ==
    /\ info.id \in Seq(Nat) /\ info.will \in Seq(Nat) /\ info.willData \in Seq(Nat)
    /\ info.user \in Seq(Nat) /\ info.pass \in Seq(Nat)
    /\ Len(info.id) \in Nat /\ Len(info.will) \in Nat /\ Len(info.willData) \in Nat
    /\ Len(info.user) \in Nat /\ Len(info.pass) \in Nat

LEMMA InfoTypes == ASSUME NEW info \in Infos PROVE InfoIs(info)
<1>1. info \in ConnectInfo
    BY InputsAssumption
<1>2. Seq(Bytes) \in SUBSET Seq(Nat)
    <2> SUFFICES ASSUME NEW s \in Seq(Bytes) PROVE s \in Seq(Nat)
        OBVIOUS
    <2>1. s = [i \in 1..Len(s) |-> s[i]] /\ Len(s) \in Nat
        OBVIOUS
    <2>2. ASSUME NEW i \in 1..Len(s) PROVE s[i] \in Nat
        <3>1. s[i] \in Bytes
            OBVIOUS
        <3> QED BY <3>1 DEF Bytes
    <2> QED BY <2>1, <2>2
<1>3. /\ info.id \in Seq(Bytes) /\ info.will \in Seq(Bytes) /\ info.willData \in Seq(Bytes)
      /\ info.user \in Seq(Bytes) /\ info.pass \in Seq(Bytes)
    BY <1>1 DEF ConnectInfo
<1>4. \A s \in Seq(Bytes) : s \in Seq(Nat) /\ Len(s) \in Nat
    BY <1>2, LenProperties
<1> QED BY <1>3, <1>4 DEF InfoIs

LEMMA ConnectPiecesAre ==
    ASSUME NEW info \in Infos, NEW behind \in {0, 1}
    PROVE  ConnectPieces(info, behind)
<1>1. InfoIs(info)
    BY InfoTypes
<1>2. Opening(info) \in Seq(Nat) /\ Len(Opening(info)) = 2
    <2>1. ConnectFlags(info) \in 0..255
        BY FlagsRead DEF FlagsAre
    <2>2. ConnectFlags(info) \in Nat /\ MAGIC \in Nat
        BY <2>1, ValuesAre
    <2> QED BY <2>2 DEF Opening
<1>3. \A s \in Seq(Nat) : append_string(s) \in Seq(Nat) /\ Len(append_string(s)) = 2 + Len(s)
    BY AppendStringIs
<1>4. IdPiece(info, behind) \in Seq(Nat) /\ (info.id # <<>> => Len(IdPiece(info, behind)) = 2 + Len(info.id))
    <2>1. CASE info.id = <<>>
        <3>1. <<0, behind>> \in Seq(Nat)
            OBVIOUS
        <3> QED BY <1>3, <2>1, <3>1 DEF IdPiece
    <2>2. CASE info.id # <<>>
        <3>1. IdPiece(info, behind) = append_string(info.id)
            BY <2>2 DEF IdPiece
        <3> QED BY <1>1, <1>3, <3>1 DEF InfoIs
    <2> QED BY <2>1, <2>2
<1>5. \A s \in Seq(Nat) : Optional(s) \in Seq(Nat) /\ Len(Optional(s)) = IF s = <<>> THEN 0 ELSE 2 + Len(s)
    <2> SUFFICES ASSUME NEW s \in Seq(Nat)
                 PROVE  Optional(s) \in Seq(Nat) /\ Len(Optional(s)) = IF s = <<>> THEN 0 ELSE 2 + Len(s)
        OBVIOUS
    <2>1. CASE s = <<>>
        BY <2>1 DEF Optional
    <2>2. CASE s # <<>>
        BY <1>3, <2>2 DEF Optional
    <2> QED BY <2>1, <2>2
<1>6. /\ WillPiece(info) \in Seq(Nat)
      /\ Len(WillPiece(info)) = IF info.will = <<>> THEN 0 ELSE 2 + Len(info.will) + (2 + Len(info.willData))
    <2>1. CASE info.will = <<>>
        BY <2>1 DEF WillPiece
    <2>2. CASE info.will # <<>>
        <3> DEFINE x == append_string(info.will)
                   y == append_string(info.willData)
        <3>1. x \in Seq(Nat) /\ y \in Seq(Nat) /\ Len(x) = 2 + Len(info.will) /\ Len(y) = 2 + Len(info.willData)
            BY <1>1, <1>3 DEF InfoIs
        <3>2. WillPiece(info) = x \o y
            BY <2>2 DEF WillPiece
        <3> HIDE DEF x, y
        <3>3. x \o y \in Seq(Nat) /\ Len(x \o y) = Len(x) + Len(y)
            BY <3>1, ConcatProperties
        <3> QED BY <2>2, <3>1, <3>2, <3>3
    <2> QED BY <2>1, <2>2
<1> QED BY <1>1, <1>2, <1>4, <1>5, <1>6 DEF ConnectPieces, InfoIs

ConnectSize(info, behind) ==
    2 + Len(IdPiece(info, behind)) + Len(WillPiece(info)) + Len(Optional(info.user)) + Len(Optional(info.pass))

LEMMA ConnectBodyIs ==
    ASSUME NEW info \in Infos, NEW behind \in {0, 1}
    PROVE  ConnectBody(info, behind) \in Seq(Nat) /\ Len(ConnectBody(info, behind)) = ConnectSize(info, behind)
<1>1. ConnectPieces(info, behind)
    BY ConnectPiecesAre
<1>2. \A a, i, w, u, q \in Seq(Nat) :
         /\ a \o i \o w \o u \o q \in Seq(Nat)
         /\ Len(a \o i \o w \o u \o q) = Len(a) + Len(i) + Len(w) + Len(u) + Len(q)
    BY FivePieces
<1>3. /\ Opening(info) \in Seq(Nat) /\ IdPiece(info, behind) \in Seq(Nat) /\ WillPiece(info) \in Seq(Nat)
      /\ Optional(info.user) \in Seq(Nat) /\ Optional(info.pass) \in Seq(Nat) /\ Len(Opening(info)) = 2
    BY <1>1 DEF ConnectPieces
<1> DEFINE a == Opening(info)
           i == IdPiece(info, behind)
           w == WillPiece(info)
           u == Optional(info.user)
           q == Optional(info.pass)
<1>4. ConnectBody(info, behind) = a \o i \o w \o u \o q
    BY DEF ConnectBody
<1>5. ConnectSize(info, behind) = 2 + Len(i) + Len(w) + Len(u) + Len(q) /\ Len(a) = 2
    BY <1>3 DEF ConnectSize
<1>7. a \in Seq(Nat) /\ i \in Seq(Nat) /\ w \in Seq(Nat) /\ u \in Seq(Nat) /\ q \in Seq(Nat)
    BY <1>3
<1> HIDE DEF a, i, w, u, q
<1>6. /\ a \o i \o w \o u \o q \in Seq(Nat)
      /\ Len(a \o i \o w \o u \o q) = Len(a) + Len(i) + Len(w) + Len(u) + Len(q)
    BY <1>2, <1>7
<1> QED BY <1>4, <1>5, <1>6

-----------------------------------------------------------------------------

LEMMA ConnectValues ==
    ASSUME NEW info \in Infos, NEW behind \in {0, 1}, BodyFits(ConnectBody(info, behind))
    PROVE  ConnectBody(info, behind) \in Seq(Values)
<1> DEFINE a == Opening(info)
           i == IdPiece(info, behind)
           w == WillPiece(info)
           u == Optional(info.user)
           q == Optional(info.pass)
           W2 == Word * Word
<1>1. ConnectPieces(info, behind) /\ InfoIs(info)
    BY ConnectPiecesAre, InfoTypes
<1>2. ConnectBody(info, behind) \in Seq(Nat) /\ Len(ConnectBody(info, behind)) = ConnectSize(info, behind)
    BY ConnectBodyIs
<1>3. 2 + Len(i) + Len(w) + Len(u) + Len(q) < W2
    BY <1>2, FitsLength DEF ConnectSize
<1>4. Len(i) \in Nat /\ Len(w) \in Nat /\ Len(u) \in Nat /\ Len(q) \in Nat /\ W2 \in Nat
    <2>1. i \in Seq(Nat) /\ w \in Seq(Nat) /\ u \in Seq(Nat) /\ q \in Seq(Nat)
        BY <1>1 DEF ConnectPieces
    <2>2. W2 \in Nat
        BY SizesAssumption DEF Word
    <2> HIDE DEF i, w, u, q, W2
    <2> QED BY <2>1, <2>2, LenProperties
<1>30. Len(i) < W2 /\ Len(w) < W2 /\ Len(u) < W2 /\ Len(q) < W2
    <2> DEFINE li == Len(i)
               lw == Len(w)
               lu == Len(u)
               lq == Len(q)
    <2>1. 2 + li + lw + lu + lq < W2 /\ li \in Nat /\ lw \in Nat /\ lu \in Nat /\ lq \in Nat /\ W2 \in Nat
        BY <1>3, <1>4
    <2> HIDE DEF li, lw, lu, lq, W2
    <2>2. li < W2 /\ lw < W2 /\ lu < W2 /\ lq < W2
        BY <2>1
    <2> QED BY <2>2 DEF li, lw, lu, lq
<1>31. \A k, m \in Nat : m < W2 /\ m = 2 + k => k < W2
    BY <1>4
<1>5. /\ info.id \in Seq(Values) /\ info.will \in Seq(Values) /\ info.willData \in Seq(Values)
      /\ info.user \in Seq(Values) /\ info.pass \in Seq(Values)
    <2>1. \A s \in Seq(Bytes) : s \in Seq(Values)
        <3> SUFFICES ASSUME NEW s \in Seq(Bytes) PROVE s \in Seq(Values)
            OBVIOUS
        <3>1. s = [k \in 1..Len(s) |-> s[k]] /\ Len(s) \in Nat
            OBVIOUS
        <3>2. ASSUME NEW k \in 1..Len(s) PROVE s[k] \in Values
            <4>1. s[k] \in Bytes
                OBVIOUS
            <4> QED BY <4>1, ValuesAre
        <3> HIDE DEF Values
        <3> QED BY <3>1, <3>2
    <2>2. info \in ConnectInfo
        BY InputsAssumption
    <2> QED BY <2>1, <2>2 DEF ConnectInfo
<1>6. \A s \in Seq(Values) : Len(s) < W2 => append_string(s) \in Seq(Values)
    BY PieceValues
<1>7. a \in Seq(Values)
    <2>1. ConnectFlags(info) \in Values /\ MAGIC \in Values
        BY FlagsRead, ValuesAre DEF FlagsAre
    <2>2. \A x, y \in Values : <<x, y>> \in Seq(Values)
        OBVIOUS
    <2> QED BY <2>1, <2>2 DEF Opening
<1>8. i \in Seq(Values)
    <2>1. CASE info.id = <<>>
        <3>1. 0 \in Values /\ behind \in Values
            <4>1. 0 \in 0..255 /\ behind \in 0..255
                OBVIOUS
            <4> QED BY <4>1, ValuesAre
        <3>2. \A x, y \in Values : <<x, y>> \in Seq(Values) /\ Len(<<x, y>>) = 2
            OBVIOUS
        <3>3. <<0, behind>> \in Seq(Values) /\ Len(<<0, behind>>) = 2
            BY <3>1, <3>2
        <3>4. 2 < W2
            BY <1>3, <1>4, SizesAssumption
        <3>5. i = append_string(<<0, behind>>)
            BY <2>1 DEF IdPiece
        <3> HIDE DEF i, W2
        <3> QED BY <1>6, <3>3, <3>4, <3>5
    <2>2. CASE info.id # <<>>
        <3>1. i = append_string(info.id) /\ Len(i) = 2 + Len(info.id) /\ Len(info.id) \in Nat
            BY <1>1, <2>2 DEF IdPiece, ConnectPieces, InfoIs
        <3> HIDE DEF i, w, u, q, W2
        <3>2. Len(info.id) < W2
            BY <1>4, <1>30, <1>31, <3>1
        <3> QED BY <1>5, <1>6, <3>1, <3>2
    <2> QED BY <2>1, <2>2
<1>9. w \in Seq(Values)
    <2>1. CASE info.will = <<>>
        BY <2>1, PieceValues DEF WillPiece
    <2>2. CASE info.will # <<>>
        <3> DEFINE x == append_string(info.will)
                   y == append_string(info.willData)
        <3>1. w = x \o y
            BY <2>2 DEF WillPiece
        <3>2. Len(w) = 2 + Len(info.will) + (2 + Len(info.willData))
            BY <1>1, <2>2 DEF ConnectPieces
        <3>3. Len(info.will) \in Nat /\ Len(info.willData) \in Nat
            BY <1>1 DEF InfoIs
        <3> HIDE DEF w, u, q, i, W2
        <3>4. Len(info.will) < W2 /\ Len(info.willData) < W2
            <4> DEFINE x1 == Len(info.will)
                       y1 == Len(info.willData)
            <4>1. Len(w) = 2 + x1 + (2 + y1) /\ x1 \in Nat /\ y1 \in Nat
                BY <3>2, <3>3
            <4>2. Len(w) < W2 /\ W2 \in Nat
                BY <1>4, <1>30
            <4> HIDE DEF x1, y1
            <4>3. x1 < W2 /\ y1 < W2
                BY <4>1, <4>2
            <4> QED BY <4>3 DEF x1, y1
        <3>5. x \in Seq(Values) /\ y \in Seq(Values)
            BY <1>5, <1>6, <3>4
        <3> HIDE DEF x, y
        <3> QED BY <3>1, <3>5, PieceValues
    <2> QED BY <2>1, <2>2
<1>10. u \in Seq(Values)
    <2>1. CASE info.user = <<>>
        BY <2>1, PieceValues DEF Optional
    <2>2. CASE info.user # <<>>
        <3>1. u = append_string(info.user) /\ Len(u) = 2 + Len(info.user) /\ Len(info.user) \in Nat
            BY <1>1, <2>2 DEF Optional, ConnectPieces, InfoIs
        <3> HIDE DEF i, w, u, q, W2
        <3>2. Len(info.user) < W2
            BY <1>4, <1>30, <1>31, <3>1
        <3> QED BY <1>5, <1>6, <3>1, <3>2
    <2> QED BY <2>1, <2>2
<1>11. q \in Seq(Values)
    <2>1. CASE info.pass = <<>>
        BY <2>1, PieceValues DEF Optional
    <2>2. CASE info.pass # <<>>
        <3>1. q = append_string(info.pass) /\ Len(q) = 2 + Len(info.pass) /\ Len(info.pass) \in Nat
            BY <1>1, <2>2 DEF Optional, ConnectPieces, InfoIs
        <3> HIDE DEF i, w, u, q, W2
        <3>2. Len(info.pass) < W2
            BY <1>4, <1>30, <1>31, <3>1
        <3> QED BY <1>5, <1>6, <3>1, <3>2
    <2> QED BY <2>1, <2>2
<1>12. ConnectBody(info, behind) = a \o i \o w \o u \o q
    BY DEF ConnectBody
<1> HIDE DEF a, i, w, u, q
<1>13. \A s, t \in Seq(Values) : s \o t \in Seq(Values)
    BY PieceValues
<1>14. a \o i \in Seq(Values)
    BY <1>7, <1>8, <1>13
<1>15. a \o i \o w \in Seq(Values)
    BY <1>9, <1>13, <1>14
<1>16. a \o i \o w \o u \in Seq(Values)
    BY <1>10, <1>13, <1>15
<1>17. a \o i \o w \o u \o q \in Seq(Values)
    BY <1>11, <1>13, <1>16
<1> QED BY <1>12, <1>17

\* What the broker makes of a CONNECT, as the client meant it.
ConnectIs(b, p, info) ==
    b[2] < Base /\ info.id # <<>> /\ Last4(info) # <<>> =>
        Connection(b, Len(p)) =
            IF Len(info.id) > MaxIdLen THEN [answer |-> "REFUSE_ID"]
            ELSE IF info.pass # <<>> /\ info.user = <<>> THEN [answer |-> "DROPPED"]
            ELSE [answer |-> "ACCEPTED", info |-> info]

\* The strings of a CONNECT in the broker's buffer: where they are, and that they are there.
At2(info) == 6 + Len(info.id)
AfterWill(info) == At2(info) + Len(WillPiece(info))
AfterUser(info) == AfterWill(info) + Len(Optional(info.user))
StringsFound(b, length, info) ==
    /\ length = AfterUser(info) + Len(Optional(info.pass))
    /\ b[3] = MAGIC /\ b[4] = ConnectFlags(info)
    /\ Reads(b, length, 4, info.id)
    /\ info.will # <<>> => /\ Reads(b, length, At2(info), info.will)
                           /\ Reads(b, length, At2(info) + 2 + Len(info.will), info.willData)
    /\ info.user # <<>> => Reads(b, length, AfterWill(info), info.user)
    /\ info.pass # <<>> => Reads(b, length, AfterUser(info), info.pass)

LEMMA ConnectStrings ==
    ASSUME NEW info \in Infos, NEW behind \in {0, 1}, BodyFits(ConnectBody(info, behind)),
           NEW p, p = fini_message(ConnectBody(info, behind), Type.CONNECT, 0, 0), NEW b, Begins(b, p),
           b[2] < Base, info.id # <<>>, Last4(info) # <<>>
    PROVE  StringsFound(b, Len(p), info)
<1> DEFINE body == ConnectBody(info, behind)
           a == Opening(info)
           i == IdPiece(info, behind)
           w == WillPiece(info)
           u == Optional(info.user)
           q == Optional(info.pass)
           h == HeaderByte(Type.CONNECT, 0, 0)
           n == Len(info.id)
           L == Len(p)
<1>1. ConnectPieces(info, behind) /\ InfoIs(info)
    BY ConnectPiecesAre, InfoTypes
<1>2. body \in Seq(Nat) /\ Len(body) = ConnectSize(info, behind)
    BY ConnectBodyIs
<1>3. BodyFits(body)
    OBVIOUS
<1>4. PICK e \in 2..3 : Framed(p, e, h, body)
    <2> HIDE DEF body
    <2>1. Type.CONNECT \in Nat /\ 0 \in Nat
        BY DEF Type
    <2>2. \E e \in 2..3 : Framed(fini_message(body, Type.CONNECT, 0, 0), e, HeaderByte(Type.CONNECT, 0, 0), body)
        BY <1>2, <1>3, <2>1, FiniMessage
    <2> QED BY <2>2 DEF body
<1>5. Place(body, b, 2) /\ e = 2
    <2> HIDE DEF body, h
    <2>1. Found(b, p, e, h, body)
        BY <1>2, <1>4, HeaderRead
    <2> QED BY <2>1 DEF Found
<1>6. a \in Seq(Nat) /\ i \in Seq(Nat) /\ w \in Seq(Nat) /\ u \in Seq(Nat) /\ q \in Seq(Nat) /\ Len(a) = 2
    BY <1>1 DEF ConnectPieces
<1>7. b \in Seq(Nat) /\ L \in Nat
    <2>1. b \in Seq(Nat) /\ p \in Seq(Nat)
        BY DEF Begins
    <2> QED BY <2>1, LenProperties
<1>8. body = a \o i \o w \o u \o q
    BY DEF ConnectBody
<1> HIDE DEF a, i, w, u, q
<1>9. /\ Place(a, b, 2) /\ Place(i, b, 4) /\ Place(w, b, 4 + Len(i)) /\ Place(u, b, 4 + Len(i) + Len(w))
      /\ Place(q, b, 4 + Len(i) + Len(w) + Len(u))
    <2>1. PICK at \in Nat : at = 2
        OBVIOUS
    <2>2. Place(a \o i \o w \o u \o q, b, at)
        BY <1>5, <1>8, <2>1
    <2>3. /\ Place(a, b, at) /\ Place(i, b, at + Len(a)) /\ Place(w, b, at + Len(a) + Len(i))
          /\ Place(u, b, at + Len(a) + Len(i) + Len(w))
          /\ Place(q, b, at + Len(a) + Len(i) + Len(w) + Len(u))
        BY <1>6, <1>7, <2>2, FivePlaces
    <2>4. at + Len(a) = 4
        BY <1>6, <2>1
    <2> QED BY <2>1, <2>3, <2>4
<1>10. /\ n \in Nat /\ Len(i) = 2 + n /\ Len(w) \in Nat /\ Len(u) \in Nat /\ Len(q) \in Nat
       /\ n > 0
    <2>1. Len(i) = 2 + n /\ n \in Nat
        BY <1>1 DEF ConnectPieces, InfoIs, i
    <2>2. n > 0
        <3>1. info.id \in Seq(Nat)
            BY <1>1 DEF InfoIs
        <3> QED BY <2>1, <3>1, EmptySeq
    <2> QED BY <1>6, <2>1, <2>2, LenProperties
<1>11. L = 2 + (2 + Len(i) + Len(w) + Len(u) + Len(q)) /\ Len(body) < Word * Word /\ Word * Word \in Nat
    <2>1. L = e + Len(body)
        BY <1>4 DEF Framed
    <2>2. Len(body) = 2 + Len(i) + Len(w) + Len(u) + Len(q)
        BY <1>2 DEF ConnectSize, i, w, u, q
    <2>3. Len(body) < Word * Word
        BY <1>2, <1>3, FitsLength
    <2>4. Word * Word \in Nat
        BY SizesAssumption DEF Word
    <2> QED BY <1>5, <2>1, <2>2, <2>3, <2>4
<1>12. 2 + Len(i) + Len(w) + Len(u) + Len(q) < Word * Word
    <2>1. Len(body) = 2 + Len(i) + Len(w) + Len(u) + Len(q)
        BY <1>2 DEF ConnectSize, i, w, u, q
    <2> QED BY <1>11, <2>1
<1> HIDE DEF body
<1> DEFINE a2 == 6 + n
           aw == a2 + Len(w)
           au == aw + Len(u)
           W2 == Word * Word
<1>13. 4 + Len(i) = a2 /\ 4 + Len(i) + Len(w) = aw /\ 4 + Len(i) + Len(w) + Len(u) = au /\ L = au + Len(q)
    BY <1>10, <1>11
<1>14. At2(info) = a2 /\ AfterWill(info) = aw /\ AfterUser(info) = au
    BY DEF At2, AfterWill, AfterUser, w, u
<1> DEFINE lw == Len(w)
           lu == Len(u)
           lq == Len(q)
           nw == Len(info.will)
           nd == Len(info.willData)
           nu == Len(info.user)
           np == Len(info.pass)
<1>15. b[3] = MAGIC /\ b[4] = ConnectFlags(info)
    <2>1. 1 \in 1..Len(a) /\ 2 \in 1..Len(a) /\ \A k \in 1..Len(a) : a[k] = b[2 + k]
        BY <1>6, <1>9 DEF Place
    <2>2. a[1] = MAGIC /\ a[2] = ConnectFlags(info)
        BY DEF a, Opening
    <2>3. 2 + 1 = 3 /\ 2 + 2 = 4
        OBVIOUS
    <2> QED BY <2>1, <2>2, <2>3
<1>16. ASSUME NEW at \in Nat, at # 0, NEW s \in Seq(Nat), Len(s) < W2, Place(append_string(s), b, at),
              at + 2 < L, at + 2 + Len(s) <= L
       PROVE  Reads(b, L, at, s)
    <2> HIDE DEF L
    <2> QED BY <1>7, <1>16, PieceRead
<1>17. /\ (info.will # <<>> => Len(w) = 2 + Len(info.will) + (2 + Len(info.willData)) /\ Len(info.will) > 0)
       /\ (info.user # <<>> => Len(u) = 2 + Len(info.user) /\ Len(info.user) > 0)
       /\ (info.pass # <<>> => Len(q) = 2 + Len(info.pass) /\ Len(info.pass) > 0)
       /\ (info.willData # <<>> => Len(info.willData) > 0)
    <2>1. \A s \in Seq(Nat) : s # <<>> /\ Len(s) \in Nat => Len(s) > 0
        BY EmptySeq
    <2> QED BY <1>1, <2>1 DEF ConnectPieces, InfoIs, w, u, q
<1>18. /\ Len(info.will) \in Nat /\ Len(info.willData) \in Nat /\ Len(info.user) \in Nat /\ Len(info.pass) \in Nat
       /\ W2 \in Nat
       /\ info.id \in Seq(Nat) /\ info.will \in Seq(Nat) /\ info.willData \in Seq(Nat)
       /\ info.user \in Seq(Nat) /\ info.pass \in Seq(Nat)
    BY <1>1, <1>11 DEF InfoIs
<1>30. /\ n \in Nat /\ n > 0 /\ lw \in Nat /\ lu \in Nat /\ lq \in Nat /\ W2 \in Nat
       /\ nw \in Nat /\ nd \in Nat /\ nu \in Nat /\ np \in Nat
       /\ L = 6 + n + lw + lu + lq /\ 4 + n + lw + lu + lq < W2
       /\ a2 = 6 + n /\ aw = 6 + n + lw /\ au = 6 + n + lw + lu
       /\ (info.will # <<>> => lw = 2 + nw + (2 + nd) /\ nw > 0)
       /\ (info.user # <<>> => lu = 2 + nu /\ nu > 0)
       /\ (info.pass # <<>> => lq = 2 + np /\ np > 0)
       /\ (info.willData # <<>> => nd > 0)
    <2>1. /\ n \in Nat /\ n > 0 /\ lw \in Nat /\ lu \in Nat /\ lq \in Nat /\ W2 \in Nat
          /\ nw \in Nat /\ nd \in Nat /\ nu \in Nat /\ np \in Nat
        BY <1>10, <1>18
    <2>2. /\ (info.will # <<>> => lw = 2 + nw + (2 + nd) /\ nw > 0)
          /\ (info.user # <<>> => lu = 2 + nu /\ nu > 0)
          /\ (info.pass # <<>> => lq = 2 + np /\ np > 0)
          /\ (info.willData # <<>> => nd > 0)
        BY <1>17
    <2>3. a2 = 6 + n /\ aw = 6 + n + lw /\ au = 6 + n + lw + lu
        OBVIOUS
    <2>4. L = 2 + (2 + (2 + n) + lw + lu + lq) /\ 2 + (2 + n) + lw + lu + lq < W2
        BY <1>10, <1>11, <1>12
    <2> HIDE DEF n, lw, lu, lq, nw, nd, nu, np, W2, L
    <2>5. L = 6 + n + lw + lu + lq /\ 4 + n + lw + lu + lq < W2
        BY <2>1, <2>4
    <2> QED BY <2>1, <2>2, <2>3, <2>5
<1>19. Reads(b, L, 4, info.id)
    <2>1. Place(append_string(info.id), b, 4)
        BY <1>9 DEF i, IdPiece
    <2>2. 4 \in Nat /\ 4 # 0 /\ 4 + 2 < L /\ 4 + 2 + Len(info.id) <= L
        BY <1>10, <1>11
    <2>3. Len(info.id) < W2
        BY <1>10, <1>12, <1>18, SMTT(30)
    <2> HIDE DEF L, W2
    <2> QED BY <1>16, <1>18, <2>1, <2>2, <2>3
<1>20. ASSUME info.will # <<>>
       PROVE  Reads(b, L, a2, info.will) /\ Reads(b, L, a2 + 2 + Len(info.will), info.willData)
    <2> DEFINE x == append_string(info.will)
               y == append_string(info.willData)
               a3 == a2 + 2 + Len(info.will)
    <2>1. x \in Seq(Nat) /\ y \in Seq(Nat) /\ Len(x) = 2 + Len(info.will)
        BY <1>18, AppendStringIs
    <2>2. w = x \o y
        BY <1>20 DEF w, WillPiece
    <2>3. Place(w, b, a2)
        BY <1>9, <1>13
    <2>4. a2 \in Nat /\ a2 # 0 /\ a3 \in Nat /\ a3 # 0 /\ a2 + (2 + Len(info.will)) = a3
        <3>1. a2 \in Nat /\ a2 # 0 /\ a2 + 2 + nw \in Nat /\ a2 + 2 + nw # 0 /\ a2 + (2 + nw) = a2 + 2 + nw
            <4> HIDE DEF n, lw, lu, lq, nw, nd, nu, np, W2, L, a2, aw, au
            <4> QED BY <1>30
        <3> QED BY <3>1
    <2>5. Place(x, b, a2) /\ Place(y, b, a3)
        <3> HIDE DEF x, y, a2, a3
        <3>1. Place(x \o y, b, a2)
            BY <2>2, <2>3
        <3>2. Place(x, b, a2) /\ Place(y, b, a2 + Len(x))
            BY <1>7, <2>1, <2>4, <3>1, PlaceSplit
        <3> QED BY <2>1, <2>4, <3>2
    <2>6. Len(info.will) < W2 /\ Len(info.willData) < W2
        <3>1. nw < W2 /\ nd < W2
            <4> HIDE DEF n, lw, lu, lq, nw, nd, nu, np, W2, L, a2, aw, au
            <4> QED BY <1>20, <1>30
        <3> QED BY <3>1
    <2>7. a2 + 2 < L /\ a2 + 2 + Len(info.will) <= L /\ a3 + 2 + Len(info.willData) <= L
        <3>1. a2 + 2 < L /\ a2 + 2 + nw <= L /\ a2 + 2 + nw + 2 + nd <= L
            <4> HIDE DEF n, lw, lu, lq, nw, nd, nu, np, W2, L, a2, aw, au
            <4> QED BY <1>20, <1>30
        <3> QED BY <3>1
    <2>8. a3 + 2 < L
        <3>1. info.willData # <<>> \/ info.user # <<>> \/ info.pass # <<>>
            BY <1>20 DEF Last4
        <3>2. a2 + 2 + nw + 2 < L
            <4> HIDE DEF n, lw, lu, lq, nw, nd, nu, np, W2, L, a2, aw, au
            <4>1. nd > 0 \/ lu > 0 \/ lq > 0
                BY <1>30, <3>1
            <4> QED BY <1>20, <1>30, <4>1
        <3> QED BY <3>2
    <2> HIDE DEF L, W2, a2, a3
    <2>9. Reads(b, L, a2, info.will)
        BY <1>16, <1>18, <2>4, <2>5, <2>6, <2>7
    <2>10. Reads(b, L, a3, info.willData)
        BY <1>16, <1>18, <2>4, <2>5, <2>6, <2>7, <2>8
    <2> QED BY <2>9, <2>10 DEF a3
<1>21. ASSUME info.user # <<>> PROVE Reads(b, L, aw, info.user)
    <2>1. Place(append_string(info.user), b, aw)
        BY <1>9, <1>13, <1>21 DEF u, Optional
    <2>2. aw \in Nat /\ aw # 0 /\ aw + 2 < L /\ aw + 2 + nu <= L /\ nu < W2
        <3> HIDE DEF n, lw, lu, lq, nw, nd, nu, np, W2, L, a2, aw, au
        <3>1. lu = 2 + nu /\ nu > 0
            BY <1>30, <1>21
        <3>2. aw \in Nat /\ aw # 0 /\ lq \in Nat /\ nu \in Nat /\ W2 \in Nat
            BY <1>30
        <3>3. L = aw + lu + lq /\ lu < W2
            BY <1>30
        <3> QED BY <3>1, <3>2, <3>3
    <2>3. aw + 2 + Len(info.user) <= L /\ Len(info.user) < W2
        BY <2>2
    <2> HIDE DEF L, W2, aw
    <2> QED BY <1>16, <1>18, <2>1, <2>2, <2>3
<1>22. ASSUME info.pass # <<>> PROVE Reads(b, L, au, info.pass)
    <2>1. Place(append_string(info.pass), b, au)
        BY <1>9, <1>13, <1>22 DEF q, Optional
    <2>2. au \in Nat /\ au # 0 /\ au + 2 < L /\ au + 2 + np <= L /\ np < W2
        <3> HIDE DEF n, lw, lu, lq, nw, nd, nu, np, W2, L, a2, aw, au
        <3>1. lq = 2 + np /\ np > 0
            BY <1>30, <1>22
        <3>2. au \in Nat /\ au # 0 /\ np \in Nat /\ W2 \in Nat
            BY <1>30
        <3>3. L = au + lq /\ lq < W2
            BY <1>30
        <3> QED BY <3>1, <3>2, <3>3
    <2>3. au + 2 + Len(info.pass) <= L /\ Len(info.pass) < W2
        BY <2>2
    <2> HIDE DEF L, W2, au
    <2> QED BY <1>16, <1>18, <2>1, <2>2, <2>3
<1>23. L = AfterUser(info) + Len(Optional(info.pass))
    BY <1>13, <1>14 DEF q
<1> HIDE DEF L, a2, aw, au
<1>24. L = Len(p)
    BY DEF L
<1> QED BY <1>14, <1>15, <1>19, <1>20, <1>21, <1>22, <1>23, <1>24 DEF StringsFound

-----------------------------------------------------------------------------

LEMMA ConnectRead ==
    ASSUME NEW info \in Infos, NEW behind \in {0, 1}, BodyFits(ConnectBody(info, behind)),
           NEW p, p = fini_message(ConnectBody(info, behind), Type.CONNECT, 0, 0), NEW b, Begins(b, p)
    PROVE  ConnectIs(b, p, info)
<1> SUFFICES ASSUME b[2] < Base, info.id # <<>>, Last4(info) # <<>>
             PROVE  Connection(b, Len(p)) =
                       IF Len(info.id) > MaxIdLen THEN [answer |-> "REFUSE_ID"]
                       ELSE IF info.pass # <<>> /\ info.user = <<>> THEN [answer |-> "DROPPED"]
                       ELSE [answer |-> "ACCEPTED", info |-> info]
    BY DEF ConnectIs
<1> DEFINE L == Len(p)
           flags == b[4]
           at == Starts(b, L)
           will == Bit(flags, 4)
           user == Bit(flags, 128)
           pass == Bit(flags, 64)
           K == IF will THEN 4 ELSE 2
           last == 1 + (IF will THEN 2 ELSE 0) + (IF user THEN 1 ELSE 0) + (IF pass THEN 1 ELSE 0)
           Field(there, k) == IF there THEN String(b, at[k]) ELSE <<>>
           found == [id |-> String(b, 4), clean |-> Bit(flags, 2),
                     will |-> Field(will, 2), willData |-> Field(will, 3),
                     willQos |-> (flags \div 8) % 4, willRetain |-> Bit(flags, 32),
                     user |-> Field(user, K), pass |-> Field(pass, K + 1)]
           NoId == at[2] = 0 \/ Word16(b, 4) > MaxIdLen \/ (Word16(b, 4) = 0 /\ ~Bit(flags, 2))
           Bad == \/ ~will /\ (Bit(flags, 32) \/ (flags \div 8) % 4 # 0)
                  \/ pass /\ ~user
                  \/ at[last + 1] = 0
<1>1. Connection(b, L) = IF b[3] # MAGIC THEN [answer |-> "REFUSE_PROTOCOL"]
                         ELSE IF NoId THEN [answer |-> "REFUSE_ID"]
                         ELSE IF Bad THEN [answer |-> "DROPPED"]
                         ELSE [answer |-> "ACCEPTED", info |-> found]
    BY DEF Connection
<1>2. StringsFound(b, L, info)
    BY ConnectStrings
<1>3. FlagsAre(flags, info)
    BY <1>2, FlagsRead DEF StringsFound
<1>4. /\ will = (info.will # <<>>) /\ user = (info.user # <<>>) /\ pass = (info.pass # <<>>)
      /\ Bit(flags, 2) = info.clean /\ (flags \div 8) % 4 = info.willQos /\ Bit(flags, 32) = info.willRetain
    BY <1>3 DEF FlagsAre
<1>5. /\ info.will = <<>> => info.willData = <<>> /\ info.willQos = 0 /\ ~info.willRetain
      /\ info \in ConnectInfo
    BY InputsAssumption
<1>6. InfoIs(info) /\ ConnectPieces(info, behind)
    BY InfoTypes, ConnectPiecesAre
<1> DEFINE a2 == At2(info)
           aw == AfterWill(info)
           au == AfterUser(info)
           n == Len(info.id)
           nw == Len(info.will)
           nd == Len(info.willData)
           nu == Len(info.user)
           np == Len(info.pass)
<1>7. /\ n \in Nat /\ nw \in Nat /\ nd \in Nat /\ nu \in Nat /\ np \in Nat
      /\ a2 = 6 + n
      /\ aw = IF info.will = <<>> THEN a2 ELSE a2 + (2 + nw + (2 + nd))
      /\ au = IF info.user = <<>> THEN aw ELSE aw + (2 + nu)
    <2>1. n \in Nat /\ nw \in Nat /\ nd \in Nat /\ nu \in Nat /\ np \in Nat
        BY <1>6 DEF InfoIs
    <2>2. a2 = 6 + n
        BY DEF At2
    <2> DEFINE lw == Len(WillPiece(info))
               lu == Len(Optional(info.user))
    <2>3. aw = a2 + lw /\ au = aw + lu
        BY DEF AfterWill, AfterUser
    <2>4. /\ lw = IF info.will = <<>> THEN 0 ELSE 2 + nw + (2 + nd)
          /\ lu = IF info.user = <<>> THEN 0 ELSE 2 + nu
        BY <1>6 DEF ConnectPieces
    <2> HIDE DEF a2, aw, au, n, nw, nd, nu, np, lw, lu
    <2>5. CASE info.will = <<>>
        BY <2>1, <2>2, <2>3, <2>4, <2>5
    <2>6. CASE info.will # <<>>
        BY <2>1, <2>2, <2>3, <2>4, <2>6
    <2> QED BY <2>5, <2>6
<1> HIDE DEF a2, aw, au, n, nw, nd, nu, np
<1>8. a2 \in Nat /\ a2 # 0 /\ aw \in Nat /\ aw # 0 /\ au \in Nat /\ au # 0
    BY <1>7, SMTT(30)
<1>9. \A x, s : Reads(b, L, x, s) => NextStart(b, L, x) = x + 2 + Len(s) /\ String(b, x) = s
    BY DEF Reads, NextStart
<1>10. at[1] = 4 /\ \A k \in 1..5 : at[k + 1] = NextStart(b, L, at[k])
    BY StartsAre
<1> HIDE DEF at, L, flags
<1>11. at[2] = a2 /\ String(b, 4) = info.id /\ Word16(b, 4) = n
    <2>1. Reads(b, L, 4, info.id)
        BY <1>2 DEF StringsFound
    <2>2. NextStart(b, L, 4) = 4 + 2 + n /\ String(b, 4) = info.id
        BY <1>9, <2>1 DEF n
    <2>3. at[1 + 1] = NextStart(b, L, 4)
        BY <1>10
    <2>4. Word16(b, 4) = n
        BY <2>1 DEF Reads, n
    <2> QED BY <1>7, <2>2, <2>3, <2>4
<1>12. ASSUME info.will # <<>>
       PROVE  at[4] = aw /\ String(b, at[2]) = info.will /\ String(b, at[3]) = info.willData
    <2>1. Reads(b, L, a2, info.will) /\ Reads(b, L, a2 + 2 + nw, info.willData)
        BY <1>2, <1>12 DEF StringsFound, a2, nw
    <2>2. at[2 + 1] = NextStart(b, L, a2) /\ at[3 + 1] = NextStart(b, L, at[3])
        BY <1>10, <1>11
    <2>3. at[3] = a2 + 2 + nw /\ String(b, a2) = info.will
        BY <1>9, <2>1, <2>2 DEF nw
    <2>4. at[4] = a2 + 2 + nw + 2 + nd /\ String(b, at[3]) = info.willData
        BY <1>9, <2>1, <2>2, <2>3 DEF nd
    <2> QED BY <1>7, <1>11, <1>12, <2>3, <2>4
<1>13. K \in {2, 4} /\ at[K] = aw
    BY <1>4, <1>7, <1>11, <1>12
<1>14. ASSUME info.user # <<>> PROVE at[K + 1] = au /\ String(b, at[K]) = info.user
    <2>1. Reads(b, L, aw, info.user)
        BY <1>2, <1>14 DEF StringsFound, aw
    <2>2. at[K + 1] = NextStart(b, L, aw)
        BY <1>10, <1>13
    <2>3. NextStart(b, L, aw) = aw + 2 + nu /\ String(b, aw) = info.user
        BY <1>9, <2>1 DEF nu
    <2>4. au = aw + 2 + nu
        <3>1. au = aw + (2 + nu)
            BY <1>7, <1>14
        <3>2. aw \in Nat /\ nu \in Nat
            BY <1>7, <1>8
        <3> QED BY <3>1, <3>2
    <2> HIDE DEF K
    <2> QED BY <1>13, <2>2, <2>3, <2>4
<1>15. ASSUME info.user # <<>>, info.pass # <<>>
       PROVE  at[K + 2] # 0 /\ String(b, at[K + 1]) = info.pass
    <2>1. Reads(b, L, au, info.pass)
        BY <1>2, <1>15 DEF StringsFound, au
    <2>2. at[(K + 1) + 1] = NextStart(b, L, au) /\ (K + 1) + 1 = K + 2
        BY <1>10, <1>13, <1>14, <1>15
    <2>3. NextStart(b, L, au) = au + 2 + np /\ String(b, au) = info.pass
        BY <1>9, <2>1 DEF np
    <2> QED BY <1>7, <1>8, <1>14, <1>15, <2>2, <2>3
<1>16. last + 1 = K + (IF user THEN 1 ELSE 0) + (IF pass THEN 1 ELSE 0)
    OBVIOUS
<1>17. NoId <=> n > MaxIdLen
    <2>1. n # 0
        <3>1. info.id \in Seq(Nat)
            BY <1>6 DEF InfoIs
        <3> QED BY <3>1, EmptySeq DEF n
    <2> QED BY <1>8, <1>11, <2>1
<1>18. b[3] = MAGIC
    BY <1>2 DEF StringsFound
<1>19. ASSUME info.pass # <<>>, info.user = <<>> PROVE Bad
    BY <1>4, <1>19
<1>20. ASSUME ~(info.pass # <<>> /\ info.user = <<>>) PROVE ~Bad /\ found = info
    <2>1. at[last + 1] # 0
        <3> DEFINE x == IF user THEN 1 ELSE 0
                   y == IF pass THEN 1 ELSE 0
        <3>4. last + 1 = K + x + y /\ K \in Nat
            BY <1>13, <1>16
        <3>5. x = (IF info.user # <<>> THEN 1 ELSE 0) /\ y = (IF info.pass # <<>> THEN 1 ELSE 0)
            BY <1>4
        <3> HIDE DEF x, y, last, K
        <3>1. CASE info.user = <<>>
            <4>1. last + 1 = K
                BY <1>20, <3>1, <3>4, <3>5
            <4> QED BY <1>8, <1>13, <4>1
        <3>2. CASE info.user # <<>> /\ info.pass = <<>>
            <4>1. last + 1 = K + 1
                BY <3>2, <3>4, <3>5
            <4> QED BY <1>8, <1>14, <3>2, <4>1
        <3>3. CASE info.user # <<>> /\ info.pass # <<>>
            <4>1. last + 1 = K + 2
                BY <3>3, <3>4, <3>5
            <4> QED BY <1>15, <3>3, <4>1
        <3> QED BY <3>1, <3>2, <3>3
    <2>2. ~Bad
        BY <1>4, <1>5, <1>20, <2>1, ZenonT(60)
    <2>3. Field(will, 2) = info.will /\ Field(will, 3) = info.willData
        BY <1>4, <1>5, <1>12
    <2>4. Field(user, K) = info.user
        BY <1>4, <1>14
    <2>5. Field(pass, K + 1) = info.pass
        BY <1>4, <1>15, <1>20
    <2>6. found = [id |-> info.id, clean |-> info.clean, will |-> info.will, willData |-> info.willData,
                   willQos |-> info.willQos, willRetain |-> info.willRetain, user |-> info.user,
                   pass |-> info.pass]
        BY <1>4, <1>11, <2>3, <2>4, <2>5
    <2>7. info = [id |-> info.id, clean |-> info.clean, will |-> info.will, willData |-> info.willData,
                  willQos |-> info.willQos, willRetain |-> info.willRetain, user |-> info.user,
                  pass |-> info.pass]
        BY <1>5 DEF ConnectInfo
    <2> QED BY <2>2, <2>6, <2>7
<1> HIDE DEF NoId, Bad, found, K, last, Field, will, user, pass
<1> QED BY <1>1, <1>17, <1>18, <1>19, <1>20 DEF n, L

-----------------------------------------------------------------------------
(* Every packet is made of Values, and fits *)

IsPacket(p) == p \in Seq(Values) /\ Len(p) <= BufSize

LEMMA WiderSeq ==
    ASSUME NEW S, NEW T, S \in SUBSET T, NEW s \in Seq(S)
    PROVE  s \in Seq(T)
<1>1. s = [i \in 1..Len(s) |-> s[i]] /\ Len(s) \in Nat
    OBVIOUS
<1>2. ASSUME NEW i \in 1..Len(s) PROVE s[i] \in T
    <2>1. s[i] \in S
        OBVIOUS
    <2> QED BY <2>1
<1> QED BY <1>1, <1>2

LEMMA InputTypes ==
    /\ Topics \in SUBSET Seq(Values) /\ Bodies \in SUBSET Seq(Values)
    /\ Topics \in SUBSET Seq(Nat) /\ Bodies \in SUBSET Seq(Nat)
<1>1. Topics \in SUBSET Seq(1..Word - 1) /\ Bodies \in SUBSET Seq(Bytes)
    BY InputsAssumption
<1>2. 1..Word - 1 \in SUBSET Values /\ Bytes \in SUBSET Values
    BY ValuesAre DEF Bytes
<1>3. Topics \in SUBSET Seq(Values) /\ Bodies \in SUBSET Seq(Values)
    <2> HIDE DEF Values
    <2> QED BY <1>1, <1>2, WiderSeq
<1>4. Seq(Values) \in SUBSET Seq(Nat)
    BY PieceValues
<1> QED BY <1>3, <1>4

LEMMA FinishedIs ==
    ASSUME NEW body, BodyFits(body) => body \in Seq(Values),
           NEW type \in 0..15, NEW qos \in 0..2, NEW retain \in 0..1
    PROVE  /\ IsPacket(Finished(body, type, qos, retain))
           /\ BodyFits(body) => Finished(body, type, qos, retain) # <<>>
<1> DEFINE p == Finished(body, type, qos, retain)
           f == fini_message(body, type, qos, retain)
           h == HeaderByte(type, qos, retain)
<1>1. CASE BodyFits(body)
    <2>1. body \in Seq(Values) /\ body \in Seq(Nat)
        BY <1>1, PieceValues
    <2>2. PICK e \in 2..3 : Framed(f, e, h, body)
        <3>1. type \in Nat /\ qos \in Nat /\ retain \in Nat
            OBVIOUS
        <3> QED BY <1>1, <2>1, <3>1, FiniMessage
    <2>3. h \in 0..255
        BY HeaderByteRead DEF HeaderFields
    <2>4. p = f
        BY <1>1 DEF Finished
    <2> HIDE DEF f, h
    <2>5. f \in Seq(Values)
        BY <2>1, <2>2, <2>3, FramedValues
    <2>6. Len(f) <= BufSize /\ Len(f) = e + Len(body) /\ Len(body) \in Nat
        BY <2>1, <2>2, LenProperties DEF Framed
    <2>7. f # <<>>
        <3> SUFFICES ASSUME f = <<>> PROVE FALSE
            OBVIOUS
        <3>1. Len(f) = 0
            OBVIOUS
        <3> QED BY <2>6, <3>1
    <2> QED BY <2>4, <2>5, <2>6, <2>7 DEF IsPacket
<1>2. CASE ~BodyFits(body)
    <2>1. p = <<>>
        BY <1>2 DEF Finished
    <2>2. IsPacket(<<>>)
        BY PieceValues, SizesAssumption DEF IsPacket
    <2> QED BY <1>2, <2>1, <2>2
<1> QED BY <1>1, <1>2

LEMMA PublishBodyIs ==
    ASSUME NEW topic \in Seq(Values), NEW data \in Seq(Values), NEW qos \in 0..2,
           NEW id \in Nat, id < Word * Word
    PROVE  /\ PublishBody(topic, data, qos, id) \in Seq(Nat)
           /\ Len(PublishBody(topic, data, qos, id)) =
                 2 + Len(topic) + (IF qos > 0 THEN 2 ELSE 0) + Len(data)
           /\ Len(append_string(topic)) = 2 + Len(topic)
           /\ BodyFits(PublishBody(topic, data, qos, id)) =>
                 PublishBody(topic, data, qos, id) \in Seq(Values)
<1> DEFINE s == append_string(topic)
           i == IF qos > 0 THEN TwoBytes(id) ELSE <<>>
           m == IF qos > 0 THEN 2 ELSE 0
<1>1. topic \in Seq(Nat) /\ data \in Seq(Nat) /\ Len(topic) \in Nat /\ Len(data) \in Nat
    <2>1. topic \in Seq(Nat) /\ data \in Seq(Nat)
        BY PieceValues
    <2> QED BY <2>1, LenProperties
<1>2. i \in Seq(Nat) /\ i \in Seq(Values) /\ Len(i) = m
    <2>1. TwoBytes(id) \in Seq(Nat) /\ Len(TwoBytes(id)) = 2 /\ TwoBytes(id) \in Seq(Values)
        BY TwoBytesRead, PieceValues
    <2>2. CASE qos > 0
        BY <2>1, <2>2
    <2>3. CASE ~(qos > 0)
        BY <2>3, PieceValues
    <2> QED BY <2>2, <2>3
<1>3. s \in Seq(Nat) /\ Len(s) = 2 + Len(topic)
    BY <1>1, AppendStringIs
<1>4. PublishBody(topic, data, qos, id) = s \o i \o data
    BY DEF PublishBody
<1> HIDE DEF s, i
<1>5. \A x, y \in Seq(Nat) : x \o y \in Seq(Nat) /\ Len(x \o y) = Len(x) + Len(y)
    BY ConcatProperties
<1>6. s \o i \in Seq(Nat) /\ Len(s \o i) = Len(s) + Len(i)
    BY <1>2, <1>3, <1>5
<1>7. s \o i \o data \in Seq(Nat) /\ Len(s \o i \o data) = Len(s \o i) + Len(data)
    BY <1>1, <1>5, <1>6
<1> DEFINE n == Len(topic)
           d == Len(data)
           l == Len(s \o i \o data)
<1>8. l = 2 + n + m + d /\ m \in 0..2 /\ n \in Nat /\ d \in Nat
    <2>1. l = ((2 + n) + m) + d
        BY <1>2, <1>3, <1>6, <1>7
    <2> QED BY <1>1, <2>1
<1>9. ASSUME BodyFits(PublishBody(topic, data, qos, id)) PROVE s \o i \o data \in Seq(Values)
    <2>1. BodyFits(s \o i \o data)
        BY <1>4, <1>9
    <2>2. l < Word * Word /\ Word * Word \in Nat
        <3>1. l < Word * Word
            BY <1>7, <2>1, FitsLength
        <3> QED BY <3>1, SizesAssumption DEF Word
    <2> HIDE DEF n, d, l, m
    <2>3. n < Word * Word
        BY <1>8, <2>2
    <2>4. s \in Seq(Values)
        BY <2>3, PieceValues DEF s, n
    <2>5. \A x, y \in Seq(Values) : x \o y \in Seq(Values)
        BY PieceValues
    <2>6. s \o i \in Seq(Values)
        BY <1>2, <2>4, <2>5
    <2> QED BY <2>5, <2>6
<1> QED BY <1>3, <1>4, <1>7, <1>8, <1>9 DEF s

LEMMA RequestBodyIs ==
    ASSUME NEW topic \in Seq(Values), NEW id \in Nat, id < Word * Word, NEW rest \in Seq(Values)
    PROVE  /\ RequestBody(topic, id, rest) \in Seq(Nat)
           /\ BodyFits(RequestBody(topic, id, rest)) => RequestBody(topic, id, rest) \in Seq(Values)
<1> DEFINE s == append_string(topic)
           i == TwoBytes(id)
<1>1. topic \in Seq(Nat) /\ rest \in Seq(Nat) /\ Len(topic) \in Nat /\ Len(rest) \in Nat
    <2>1. topic \in Seq(Nat) /\ rest \in Seq(Nat)
        BY PieceValues
    <2> QED BY <2>1, LenProperties
<1>2. i \in Seq(Nat) /\ i \in Seq(Values) /\ Len(i) = 2
    BY TwoBytesRead, PieceValues
<1>3. s \in Seq(Nat) /\ Len(s) = 2 + Len(topic)
    BY <1>1, AppendStringIs
<1>4. RequestBody(topic, id, rest) = i \o s \o rest
    BY DEF RequestBody
<1> HIDE DEF s, i
<1>5. \A x, y \in Seq(Nat) : x \o y \in Seq(Nat) /\ Len(x \o y) = Len(x) + Len(y)
    BY ConcatProperties
<1>6. i \o s \in Seq(Nat) /\ Len(i \o s) = Len(i) + Len(s)
    BY <1>2, <1>3, <1>5
<1>7. i \o s \o rest \in Seq(Nat) /\ Len(i \o s \o rest) = Len(i \o s) + Len(rest)
    BY <1>1, <1>5, <1>6
<1>8. ASSUME BodyFits(RequestBody(topic, id, rest)) PROVE i \o s \o rest \in Seq(Values)
    <2> DEFINE n == Len(topic)
               d == Len(rest)
               l == Len(i \o s \o rest)
    <2>1. BodyFits(i \o s \o rest)
        BY <1>4, <1>8
    <2>2. l < Word * Word /\ Word * Word \in Nat /\ l = (2 + (2 + n)) + d /\ n \in Nat /\ d \in Nat
        <3>1. l < Word * Word
            BY <1>7, <2>1, FitsLength
        <3> QED BY <1>1, <1>2, <1>3, <1>6, <1>7, <3>1, SizesAssumption DEF Word
    <2> HIDE DEF n, d, l
    <2>3. n < Word * Word
        BY <2>2
    <2>4. s \in Seq(Values)
        BY <2>3, PieceValues DEF s, n
    <2>5. \A x, y \in Seq(Values) : x \o y \in Seq(Values)
        BY PieceValues
    <2>6. i \o s \in Seq(Values)
        BY <1>2, <2>4, <2>5
    <2> QED BY <2>5, <2>6
<1> QED BY <1>4, <1>7, <1>8

LEMMA RequestWithoutRest ==
    ASSUME NEW topic \in Seq(Values), NEW id \in Nat, id < Word * Word
    PROVE  TwoBytes(id) \o append_string(topic) = RequestBody(topic, id, <<>>)
<1> DEFINE t == TwoBytes(id) \o append_string(topic)
<1>1. t \in Seq(Nat)
    <2>1. TwoBytes(id) \in Seq(Nat) /\ append_string(topic) \in Seq(Nat)
        BY TwoBytesRead, AppendStringIs, PieceValues
    <2> QED BY <2>1, ConcatProperties
<1>2. RequestBody(topic, id, <<>>) = t \o <<>>
    BY DEF RequestBody
<1> HIDE DEF t
<1>3. t \o <<>> = t
    BY <1>1, ConcatEmptySeq
<1> QED BY <1>2, <1>3 DEF t

-----------------------------------------------------------------------------
(* What was sent *)

\* s is a call that was made, with the packet it made: what the client may give, and the id that
\* the counter had.
PublishSent(s) ==
    /\ s.type = Type.PUBLISH /\ s.topic \in Topics /\ s.data \in Bodies /\ s.qos \in Qualities
    /\ s.retain \in 0..1 /\ s.id \in 0..Word * Word - 1
    /\ s.packet = mqtt_msg_publish(s.topic, s.data, s.qos, s.retain, s.id)
    /\ s.qos = 0 => s.id = 0
    /\ s.qos > 0 /\ s.packet # <<>> => s.id # 0
RequestSent(s) ==
    /\ s.topic \in Topics \ {<<>>} /\ s.id \in 1..Word * Word - 1
    /\ \/ /\ s.type = Type.SUBSCRIBE /\ s.qos \in Qualities
          /\ s.packet = mqtt_msg_subscribe(s.topic, s.qos, s.id)
       \/ s.type = Type.UNSUBSCRIBE /\ s.packet = mqtt_msg_unsubscribe(s.topic, s.id)
ConnectSent(s) ==
    /\ s.type = Type.CONNECT /\ s.info \in Infos
    /\ \E behind \in {0, 1} : s.packet = mqtt_msg_connect(s.info, behind)
OtherSent(s) ==
    \/ s.type = Type.PINGREQ /\ s.packet = mqtt_msg_pingreq
    \/ s.type = Type.NONE /\ s.packet = <<>>

CallIs(s) == PublishSent(s) \/ RequestSent(s) \/ ConnectSent(s) \/ OtherSent(s)

LEMMA Qualities02 == Qualities \in SUBSET (0..2) /\ \A q \in Qualities : <<q>> \in Seq(Values)
<1>1. Qualities \in SUBSET (0..2)
    BY InputsAssumption
<1>2. \A q \in 0..2 : q \in 0..255
    OBVIOUS
<1>3. \A q \in Qualities : q \in Values
    BY <1>1, <1>2, ValuesAre
<1> QED BY <1>1, <1>3, PieceValues

LEMMA W2Nat == Word * Word \in Nat /\ Word * Word > 2 /\ Word \in Nat
<1>1. Word \in Nat /\ Word > 2
    BY SizesAssumption DEF Word
<1>2. PICK k \in Nat : Word = 2 + k
    <2>1. Word - 2 \in Nat /\ Word = 2 + (Word - 2)
        BY <1>1
    <2> QED BY <2>1
<1>3. Word * Word = 2 * Word + k * Word /\ k * Word \in Nat
    BY <1>1, <1>2
<1> QED BY <1>1, <1>3

\* A PUBLISH that is not the empty packet had a topic and fitted.
LEMMA PublishPacket ==
    ASSUME NEW topic \in Topics, NEW data \in Bodies, NEW qos \in 0..2, NEW retain \in 0..1,
           NEW id \in Nat, id < Word * Word
    PROVE  /\ IsPacket(mqtt_msg_publish(topic, data, qos, retain, id))
           /\ mqtt_msg_publish(topic, data, qos, retain, id) # <<>> <=>
                 topic # <<>> /\ BodyFits(PublishBody(topic, data, qos, id))
<1> DEFINE body == PublishBody(topic, data, qos, id)
           p == mqtt_msg_publish(topic, data, qos, retain, id)
<1>1. topic \in Seq(Values) /\ data \in Seq(Values)
    BY InputTypes
<1>2. BodyFits(body) => body \in Seq(Values)
    BY <1>1, PublishBodyIs
<1>3. IsPacket(<<>>)
    BY PieceValues, SizesAssumption DEF IsPacket
<1>4. p = IF topic = <<>> THEN <<>> ELSE Finished(body, Type.PUBLISH, qos, retain)
    BY DEF mqtt_msg_publish
<1>5. Type.PUBLISH \in 0..15
    BY DEF Type
<1> HIDE DEF body
<1>6. /\ IsPacket(Finished(body, Type.PUBLISH, qos, retain))
      /\ BodyFits(body) => Finished(body, Type.PUBLISH, qos, retain) # <<>>
    BY <1>2, <1>5, FinishedIs
<1>7. ~BodyFits(body) => Finished(body, Type.PUBLISH, qos, retain) = <<>>
    BY DEF Finished
<1> QED BY <1>3, <1>4, <1>6, <1>7 DEF body

LEMMA RequestPacket ==
    ASSUME NEW topic \in Topics, NEW id \in Nat, id < Word * Word
    PROVE  /\ \A qos \in Qualities : IsPacket(mqtt_msg_subscribe(topic, qos, id))
           /\ IsPacket(mqtt_msg_unsubscribe(topic, id))
<1>1. topic \in Seq(Values) /\ <<>> \in Seq(Values) /\ \A qos \in Qualities : <<qos>> \in Seq(Values)
    BY InputTypes, Qualities02, PieceValues
<1>2. ASSUME NEW rest \in Seq(Values)
      PROVE  BodyFits(RequestBody(topic, id, rest)) => RequestBody(topic, id, rest) \in Seq(Values)
    BY <1>1, RequestBodyIs
<1>3. Type.SUBSCRIBE \in 0..15 /\ Type.UNSUBSCRIBE \in 0..15 /\ 1 \in 0..2 /\ 0 \in 0..1
    BY DEF Type
<1>4. \A rest \in Seq(Values) : \A type \in 0..15 : IsPacket(Finished(RequestBody(topic, id, rest), type, 1, 0))
    BY <1>2, <1>3, FinishedIs
<1>5. \A qos : mqtt_msg_subscribe(topic, qos, id) = Finished(RequestBody(topic, id, <<qos>>), Type.SUBSCRIBE, 1, 0)
    BY DEF mqtt_msg_subscribe, RequestBody
<1>6. mqtt_msg_unsubscribe(topic, id) = Finished(RequestBody(topic, id, <<>>), Type.UNSUBSCRIBE, 1, 0)
    BY <1>1, RequestWithoutRest DEF mqtt_msg_unsubscribe
<1> QED BY <1>1, <1>3, <1>4, <1>5, <1>6

LEMMA ConnectPacket ==
    ASSUME NEW info \in Infos, NEW behind \in {0, 1}
    PROVE  /\ IsPacket(mqtt_msg_connect(info, behind))
           /\ mqtt_msg_connect(info, behind) = Finished(ConnectBody(info, behind), Type.CONNECT, 0, 0)
<1>1. mqtt_msg_connect(info, behind) = Finished(ConnectBody(info, behind), Type.CONNECT, 0, 0)
    BY DEF mqtt_msg_connect, ConnectBody, Opening, IdPiece, WillPiece
<1>2. BodyFits(ConnectBody(info, behind)) => ConnectBody(info, behind) \in Seq(Values)
    BY ConnectValues
<1>3. Type.CONNECT \in 0..15 /\ 0 \in 0..2 /\ 0 \in 0..1
    BY DEF Type
<1>4. IsPacket(Finished(ConnectBody(info, behind), Type.CONNECT, 0, 0))
    BY <1>2, <1>3, FinishedIs
<1> QED BY <1>1, <1>4

LEMMA PingPacket == IsPacket(mqtt_msg_pingreq)
<1>1. Type.PINGREQ \in 0..15 /\ 0 \in 0..2 /\ 0 \in 0..1 /\ <<>> \in Seq(Values)
    BY PieceValues DEF Type
<1> QED BY <1>1, FinishedIs DEF mqtt_msg_pingreq

-----------------------------------------------------------------------------
(* The broker's buffer *)

BufferIs(b) == b \in [1..BufSize -> Values]

LEMMA BufferSeq ==
    ASSUME NEW b, BufferIs(b)
    PROVE  b \in Seq(Values) /\ b \in Seq(Nat) /\ Len(b) = BufSize
<1>1. BufSize \in Nat
    BY SizesAssumption
<1>2. b \in Seq(Values) /\ Len(b) = BufSize
    <2> HIDE DEF Values
    <2> QED BY <1>1 DEF BufferIs
<1> QED BY <1>2, PieceValues

\* What is received begins with the packet.
LEMMA ReceivedIs ==
    ASSUME NEW p, IsPacket(p), BufferIs(in_buffer)
    PROVE  BufferIs(Received(p)) /\ Begins(Received(p), p)
<1> DEFINE n == Len(p)
           t == SubSeq(in_buffer, n + 1, BufSize)
           r == p \o t
<1>1. in_buffer \in Seq(Nat) /\ in_buffer \in Seq(Values) /\ Len(in_buffer) = BufSize /\ BufSize \in Nat
    BY BufferSeq, SizesAssumption
<1>2. p \in Seq(Values) /\ p \in Seq(Nat) /\ n \in Nat /\ n <= BufSize
    <2>1. p \in Seq(Values) /\ p \in Seq(Nat) /\ Len(p) <= BufSize
        BY PieceValues DEF IsPacket
    <2> QED BY <2>1, LenProperties
<1>3. t \in Seq(Nat) /\ Len(t) = BufSize - n /\ \A x \in 1..BufSize - n : t[x] = in_buffer[n + x]
    BY <1>1, <1>2, PartIs
<1>4. Received(p) = r
    BY DEF Received
<1> HIDE DEF t
<1>5. IsJoin(r, p, t, n, BufSize - n)
    <2>1. IsJoin(p \o t, p, t, Len(p), Len(t))
        BY <1>2, <1>3, Join
    <2> QED BY <1>3, <2>1
<1> HIDE DEF r, n
<1>6. /\ r \in Seq(Nat) /\ Len(r) = n + (BufSize - n)
      /\ \A j \in 1..n : r[j] = p[j]
      /\ \A j \in 1..BufSize - n : r[n + j] = t[j]
    BY <1>5 DEF IsJoin
<1>7. Len(r) = BufSize
    BY <1>1, <1>2, <1>6
<1>8. ASSUME NEW i \in 1..BufSize PROVE r[i] \in Values
    <2>1. CASE i <= n
        <3>1. i \in 1..Len(p)
            BY <1>2, <2>1 DEF n
        <3>2. p[i] \in Values
            BY <1>2, <3>1, ElementOfSeq
        <3> QED BY <1>2, <1>6, <2>1, <3>2
    <2>2. CASE ~(i <= n)
        <3>1. i - n \in 1..BufSize - n /\ n + (i - n) = i
            BY <1>1, <1>2, <2>2
        <3>2. r[i] = in_buffer[i]
            BY <1>3, <1>6, <3>1
        <3>3. in_buffer[i] \in Values
            BY DEF BufferIs
        <3> QED BY <3>2, <3>3
    <2> QED BY <2>1, <2>2
<1>9. BufferIs(r)
    <2>1. r = [i \in 1..BufSize |-> r[i]]
        BY <1>6, <1>7
    <2> HIDE DEF Values
    <2> QED BY <1>8, <2>1 DEF BufferIs
<1>10. Begins(r, p)
    BY <1>2, <1>6, <1>7 DEF Begins, n
<1> QED BY <1>4, <1>9, <1>10

-----------------------------------------------------------------------------
(* The invariant of the codec *)

\* The last packet is what the library makes of a call that was made, and the broker's buffer,
\* whatever older packets left in it, begins with it.
CodecInv ==
    /\ message_id \in 0..Word * Word - 1
    /\ BufferIs(in_buffer)
    /\ IsPacket(sent.packet) /\ CallIs(sent)
    /\ Begins(in_buffer, sent.packet)

LEMMA Sending ==
    ASSUME NEW p, IsPacket(p), BufferIs(in_buffer), in_buffer' = Received(p), sent'.packet = p, CallIs(sent'),
           message_id' \in 0..Word * Word - 1
    PROVE  CodecInv'
<1>1. BufferIs(Received(p)) /\ Begins(Received(p), p)
    BY ReceivedIs
<1> QED BY <1>1 DEF CodecInv

LEMMA NextIdIs ==
    ASSUME NEW id \in 0..Word * Word - 1
    PROVE  NextId(id) \in 1..Word * Word - 1
BY W2Nat DEF NextId

LEMMA EmptyBegins ==
    ASSUME NEW b, BufferIs(b)
    PROVE  Begins(b, <<>>) /\ IsPacket(<<>>)
<1>1. b \in Seq(Nat) /\ Len(b) = BufSize /\ BufSize \in Nat
    BY BufferSeq, SizesAssumption
<1>2. IsPacket(<<>>)
    BY <1>1, PieceValues DEF IsPacket
<1> QED BY <1>1, <1>2 DEF Begins

LEMMA ZerosAre == BufferIs(Zeros)
<1>1. 0 \in Values
    <2>1. 0 \in 0..255
        OBVIOUS
    <2> QED BY <2>1, ValuesAre
<1> QED BY <1>1 DEF BufferIs, Zeros

LEMMA CodecInit == Init => CodecInv
<1> SUFFICES ASSUME Init PROVE CodecInv
    OBVIOUS
<1>1. BufferIs(in_buffer) /\ message_id = 0
    BY ZerosAre DEF Init
<1>2. sent.type = Type.NONE /\ sent.packet = <<>>
    BY DEF Init, NotSent, Call
<1>3. CallIs(sent)
    BY <1>2 DEF CallIs, OtherSent
<1>4. Begins(in_buffer, sent.packet) /\ IsPacket(sent.packet)
    BY <1>1, <1>2, EmptyBegins
<1>5. message_id \in 0..Word * Word - 1
    BY <1>1, W2Nat
<1> QED BY <1>1, <1>3, <1>4, <1>5 DEF CodecInv

LEMMA CodecPublish ==
    ASSUME CodecInv, NEW t \in Topics, NEW d \in Bodies, NEW q \in Qualities, NEW r \in 0..1, Publish(t, d, q, r)
    PROVE  CodecInv'
<1> DEFINE id == IF q > 0 THEN message_id' ELSE 0
           p == mqtt_msg_publish(t, d, q, r, id)
           s == append_string(t)
<1>1. message_id \in 0..Word * Word - 1 /\ BufferIs(in_buffer) /\ q \in 0..2
    BY Qualities02 DEF CodecInv
<1>2. message_id' = IF q > 0 /\ t # <<>> /\ BodyFits(s) THEN NextId(message_id) ELSE message_id
    BY DEF Publish
<1>3. message_id' \in 0..Word * Word - 1
    BY <1>1, <1>2, W2Nat, NextIdIs, SMTT(30)
<1>4. id \in 0..Word * Word - 1 /\ id \in Nat /\ id < Word * Word
    BY <1>3, W2Nat
<1>5. in_buffer' = Received(p) /\ sent' = [Call(Type.PUBLISH, t, d, q, r, id, <<>>) EXCEPT !.packet = p]
    BY DEF Publish, Send
<1>6. q = 0 => id = 0
    BY <1>1
<1> HIDE DEF id
<1>7. /\ IsPacket(p)
      /\ p # <<>> <=> t # <<>> /\ BodyFits(PublishBody(t, d, q, id))
    BY <1>1, <1>4, PublishPacket
<1>8. ASSUME q > 0, p # <<>> PROVE id # 0
    <2>1. t \in Seq(Values) /\ d \in Seq(Values)
        BY InputTypes
    <2>2. /\ Len(PublishBody(t, d, q, id)) = 2 + Len(t) + (IF q > 0 THEN 2 ELSE 0) + Len(d)
          /\ Len(s) = 2 + Len(t)
        BY <1>1, <1>4, <2>1, PublishBodyIs
    <2>3. Len(t) \in Nat /\ Len(d) \in Nat
        BY <2>1, LenProperties
    <2> DEFINE x == Len(t)
               y == Len(d)
               l == Len(PublishBody(t, d, q, id))
    <2>4. l = 2 + x + 2 + y /\ x \in Nat /\ y \in Nat /\ l + 3 <= BufSize
        <3>1. MaxFixedHeader + l <= BufSize
            BY <1>7, <1>8 DEF BodyFits
        <3>2. l = 2 + x + 2 + y
            BY <1>8, <2>2
        <3>3. x \in Nat /\ y \in Nat
            BY <2>3
        <3> HIDE DEF x, y, l
        <3> QED BY <3>1, <3>2, <3>3, SizesAssumption DEF MaxFixedHeader
    <2>5. 3 + (2 + x) <= BufSize
        <3> HIDE DEF x, y, l
        <3> QED BY <2>4, SizesAssumption
    <2>6. BodyFits(s)
        BY <2>2, <2>5 DEF BodyFits, MaxFixedHeader
    <2>7. message_id' \in 1..Word * Word - 1
        BY <1>1, <1>2, <1>7, <1>8, <2>6, NextIdIs
    <2> QED BY <1>8, <2>7 DEF id
<1> HIDE DEF p
<1>9. /\ sent'.type = Type.PUBLISH /\ sent'.topic = t /\ sent'.data = d /\ sent'.qos = q /\ sent'.retain = r
      /\ sent'.id = id /\ sent'.packet = p
    BY <1>5 DEF Call
<1>10. PublishSent(sent')
    BY <1>1, <1>4, <1>6, <1>8, <1>9 DEF PublishSent, p
<1>11. CallIs(sent')
    BY <1>10 DEF CallIs
<1> QED BY <1>1, <1>3, <1>5, <1>7, <1>9, <1>11, Sending

LEMMA CodecSubscribe ==
    ASSUME CodecInv, NEW t \in Topics \ {<<>>}, NEW q \in Qualities, Subscribe(t, q)
    PROVE  CodecInv'
<1> DEFINE p == mqtt_msg_subscribe(t, q, message_id')
<1>1. message_id \in 0..Word * Word - 1 /\ BufferIs(in_buffer)
    BY DEF CodecInv
<1>2. message_id' \in 1..Word * Word - 1 /\ message_id' \in 0..Word * Word - 1 /\ message_id' \in Nat
      /\ message_id' < Word * Word
    BY <1>1, NextIdIs, W2Nat DEF Subscribe
<1>3. in_buffer' = Received(p)
      /\ sent' = [Call(Type.SUBSCRIBE, t, <<>>, q, 0, message_id', <<>>) EXCEPT !.packet = p]
    BY DEF Subscribe, Send
<1>4. IsPacket(p)
    BY <1>2, RequestPacket
<1> HIDE DEF p
<1>5. /\ sent'.type = Type.SUBSCRIBE /\ sent'.topic = t /\ sent'.qos = q
      /\ sent'.id = message_id' /\ sent'.packet = p
    BY <1>3 DEF Call
<1>6. CallIs(sent')
    BY <1>2, <1>5 DEF CallIs, RequestSent, p
<1> QED BY <1>1, <1>2, <1>3, <1>4, <1>5, <1>6, Sending

LEMMA CodecUnsubscribe ==
    ASSUME CodecInv, NEW t \in Topics \ {<<>>}, Unsubscribe(t)
    PROVE  CodecInv'
<1> DEFINE p == mqtt_msg_unsubscribe(t, message_id')
<1>1. message_id \in 0..Word * Word - 1 /\ BufferIs(in_buffer)
    BY DEF CodecInv
<1>2. message_id' \in 1..Word * Word - 1 /\ message_id' \in 0..Word * Word - 1 /\ message_id' \in Nat
      /\ message_id' < Word * Word
    BY <1>1, NextIdIs, W2Nat DEF Unsubscribe
<1>3. in_buffer' = Received(p)
      /\ sent' = [Call(Type.UNSUBSCRIBE, t, <<>>, 0, 0, message_id', <<>>) EXCEPT !.packet = p]
    BY DEF Unsubscribe, Send
<1>4. IsPacket(p)
    BY <1>2, RequestPacket
<1> HIDE DEF p
<1>5. /\ sent'.type = Type.UNSUBSCRIBE /\ sent'.topic = t /\ sent'.id = message_id' /\ sent'.packet = p
    BY <1>3 DEF Call
<1>6. CallIs(sent')
    BY <1>2, <1>5 DEF CallIs, RequestSent, p
<1> QED BY <1>1, <1>2, <1>3, <1>4, <1>5, <1>6, Sending

LEMMA CodecConnect ==
    ASSUME CodecInv, NEW info \in Infos, NEW behind \in {0, 1}, Connect(info, behind)
    PROVE  CodecInv'
<1> DEFINE p == mqtt_msg_connect(info, behind)
<1>1. BufferIs(in_buffer)
    BY DEF CodecInv
<1>2. message_id' \in 0..Word * Word - 1
    BY W2Nat DEF Connect
<1>3. in_buffer' = Received(p) /\ sent' = [Call(Type.CONNECT, <<>>, <<>>, 0, 0, 0, info) EXCEPT !.packet = p]
    BY DEF Connect
<1>4. IsPacket(p)
    BY ConnectPacket
<1> HIDE DEF p
<1>5. sent'.type = Type.CONNECT /\ sent'.info = info /\ sent'.packet = p
    BY <1>3 DEF Call
<1>6. CallIs(sent')
    BY <1>5 DEF CallIs, ConnectSent, p
<1> QED BY <1>1, <1>2, <1>3, <1>4, <1>5, <1>6, Sending

LEMMA CodecLongAfter ==
    ASSUME CodecInv, LongAfter
    PROVE  CodecInv'
<1> DEFINE p == mqtt_msg_pingreq
<1>1. BufferIs(in_buffer)
    BY DEF CodecInv
<1>2. message_id' \in 0..Word * Word - 1
    BY W2Nat DEF LongAfter
<1>3. in_buffer' = Received(p) /\ sent' = [Call(Type.PINGREQ, <<>>, <<>>, 0, 0, 0, <<>>) EXCEPT !.packet = p]
    BY DEF LongAfter, Send
<1>4. IsPacket(p)
    BY PingPacket
<1> HIDE DEF p
<1>5. sent'.type = Type.PINGREQ /\ sent'.packet = p
    BY <1>3 DEF Call
<1>6. CallIs(sent')
    BY <1>5 DEF CallIs, OtherSent, p
<1> QED BY <1>1, <1>2, <1>3, <1>4, <1>5, <1>6, Sending

LEMMA CodecClose ==
    ASSUME CodecInv, Close
    PROVE  CodecInv'
<1>1. message_id' = message_id /\ in_buffer' = Zeros /\ sent' = NotSent
    BY DEF Close
<1>2. sent'.type = Type.NONE /\ sent'.packet = <<>>
    BY <1>1 DEF NotSent, Call
<1>3. CallIs(sent')
    BY <1>2 DEF CallIs, OtherSent
<1>4. BufferIs(in_buffer') /\ Begins(in_buffer', sent'.packet) /\ IsPacket(sent'.packet)
    BY <1>1, <1>2, ZerosAre, EmptyBegins
<1> QED BY <1>1, <1>3, <1>4 DEF CodecInv

LEMMA CodecStep == CodecInv /\ [Next]_vars => CodecInv'
<1> SUFFICES ASSUME CodecInv, [Next]_vars PROVE CodecInv'
    OBVIOUS
<1>1. CASE UNCHANGED vars
    BY <1>1 DEF vars, CodecInv
<1>2. CASE Next
    BY <1>2, CodecPublish, CodecSubscribe, CodecUnsubscribe, CodecConnect, CodecLongAfter, CodecClose DEF Next
<1> QED BY <1>1, <1>2

LEMMA CodecAlways == Spec => []CodecInv
<1> QED BY CodecInit, CodecStep, PTL DEF Spec

-----------------------------------------------------------------------------
(* What the broker reads *)

LEMMA TypesDiffer ==
    /\ Type.PUBLISH = 3 /\ Type.CONNECT = 1 /\ Type.SUBSCRIBE = 8 /\ Type.UNSUBSCRIBE = 10
    /\ Type.PINGREQ = 12 /\ Type.NONE = 0
BY DEF Type

LEMMA InvBuffer ==
    ASSUME CodecInv
    PROVE  in_buffer \in Seq(Nat) /\ Len(in_buffer) = BufSize /\ Begins(in_buffer, sent.packet)
           /\ Begins(sent.packet, sent.packet)
<1>1. BufferIs(in_buffer) /\ Begins(in_buffer, sent.packet) /\ sent.packet \in Seq(Nat)
    BY DEF CodecInv, Begins
<1>2. Len(sent.packet) \in Nat
    BY <1>1, LenProperties
<1> QED BY <1>1, <1>2, BufferSeq DEF Begins

LEMMA PublishFacts ==
    ASSUME CodecInv, Is(Type.PUBLISH)
    PROVE  /\ PublishSent(sent)
           /\ sent.topic \in Seq(Nat) /\ sent.topic # <<>> /\ sent.data \in Seq(Nat)
           /\ sent.topic \in Seq(Values) /\ sent.data \in Seq(Values)
           /\ sent.qos \in 0..2 /\ sent.retain \in 0..1 /\ sent.id \in Nat /\ sent.id < Word * Word
           /\ BodyFits(PublishBody(sent.topic, sent.data, sent.qos, sent.id))
           /\ sent.packet = mqtt_msg_publish(sent.topic, sent.data, sent.qos, sent.retain, sent.id)
<1>1. sent.type = Type.PUBLISH /\ sent.packet # <<>> /\ CallIs(sent)
    BY DEF Is, CodecInv
<1>2. PublishSent(sent)
    BY <1>1, TypesDiffer DEF CallIs, RequestSent, ConnectSent, OtherSent
<1>3. /\ sent.topic \in Topics /\ sent.data \in Bodies /\ sent.qos \in 0..2 /\ sent.retain \in 0..1
      /\ sent.id \in Nat /\ sent.id < Word * Word
      /\ sent.packet = mqtt_msg_publish(sent.topic, sent.data, sent.qos, sent.retain, sent.id)
    <2>1. /\ sent.topic \in Topics /\ sent.data \in Bodies /\ sent.qos \in Qualities /\ sent.retain \in 0..1
          /\ sent.id \in 0..Word * Word - 1
          /\ sent.packet = mqtt_msg_publish(sent.topic, sent.data, sent.qos, sent.retain, sent.id)
        BY <1>2 DEF PublishSent
    <2>2. \A k \in 0..Word * Word - 1 : k \in Nat /\ k < Word * Word
        BY W2Nat
    <2>3. sent.qos \in 0..2
        BY <2>1, Qualities02
    <2> QED BY <2>1, <2>2, <2>3
<1>4. sent.topic # <<>> /\ BodyFits(PublishBody(sent.topic, sent.data, sent.qos, sent.id))
    BY <1>1, <1>3, PublishPacket
<1> QED BY <1>2, <1>3, <1>4, InputTypes

LEMMA PublishHolds ==
    ASSUME CodecInv, Is(Type.PUBLISH)
    PROVE  /\ PublishIs(in_buffer, sent.packet, sent.topic, sent.data, sent.qos, sent.retain, sent.id)
           /\ PublishIs(sent.packet, sent.packet, sent.topic, sent.data, sent.qos, sent.retain, sent.id)
<1> DEFINE topic == sent.topic
           data == sent.data
           qos == sent.qos
           retain == sent.retain
           id == sent.id
           p == sent.packet
<1>1. /\ topic \in Seq(Nat) /\ topic # <<>> /\ data \in Seq(Nat)
      /\ qos \in 0..2 /\ retain \in 0..1 /\ id \in Nat /\ id < Word * Word
      /\ BodyFits(PublishBody(topic, data, qos, id))
      /\ p = mqtt_msg_publish(topic, data, qos, retain, id)
    BY PublishFacts
<1>2. Begins(in_buffer, p) /\ Begins(p, p)
    BY InvBuffer
<1> HIDE DEF topic, data, qos, retain, id, p
<1>3. \A b : Begins(b, p) => PublishIs(b, p, topic, data, qos, retain, id)
    BY <1>1, PublishRead
<1> QED BY <1>2, <1>3 DEF topic, data, qos, retain, id, p

LEMMA PublishRelays ==
    ASSUME CodecInv, Is(Type.PUBLISH)
    PROVE  mqtt_msg_publish(sent.topic, sent.data, 0, 0, 0) # <<>>
<1> DEFINE n == Len(sent.topic)
           d == Len(sent.data)
           m == IF sent.qos > 0 THEN 2 ELSE 0
           l == Len(PublishBody(sent.topic, sent.data, sent.qos, sent.id))
           k == Len(PublishBody(sent.topic, sent.data, 0, 0))
<1>1. PICK z \in Nat : z = 0
    OBVIOUS
<1>2. z \in 0..2 /\ z \in 0..1 /\ z < Word * Word /\ ~(z > 0)
    BY <1>1, W2Nat
<1>3. l = 2 + n + m + d
    BY PublishFacts, PublishBodyIs, ZenonT(60)
<1>4. k = 2 + n + 0 + d
    <2>1. Len(PublishBody(sent.topic, sent.data, z, z)) = 2 + n + (IF z > 0 THEN 2 ELSE 0) + d
        BY <1>2, PublishFacts, PublishBodyIs, ZenonT(60)
    <2> QED BY <1>1, <1>2, <2>1
<1>5. n \in Nat /\ d \in Nat /\ m \in 0..2
    <2>1. n \in Nat /\ d \in Nat
        BY PublishFacts, LenProperties
    <2> QED BY <2>1
<1>6. 3 + l <= BufSize
    BY PublishFacts DEF BodyFits, MaxFixedHeader
<1> HIDE DEF n, d, m, l, k
<1>7. 3 + k <= BufSize
    BY <1>3, <1>4, <1>5, <1>6, SizesAssumption
<1>8. BodyFits(PublishBody(sent.topic, sent.data, 0, 0))
    BY <1>7 DEF BodyFits, MaxFixedHeader, k
<1>9. sent.topic \in Topics /\ sent.data \in Bodies /\ sent.topic # <<>>
    BY PublishFacts DEF PublishSent
<1> QED BY <1>1, <1>2, <1>8, <1>9, PublishPacket

LEMMA RequestHolds ==
    ASSUME CodecInv, Is(Type.SUBSCRIBE) \/ Is(Type.UNSUBSCRIBE)
    PROVE  sent.id # 0 /\ RequestIs(in_buffer, sent.packet, sent.topic, sent.id)
<1> DEFINE topic == sent.topic
           id == sent.id
           p == sent.packet
<1>1. sent.type \in {Type.SUBSCRIBE, Type.UNSUBSCRIBE} /\ p # <<>> /\ CallIs(sent)
    BY DEF Is, CodecInv
<1>2. RequestSent(sent)
    BY <1>1, TypesDiffer DEF CallIs, PublishSent, ConnectSent, OtherSent
<1>3. topic \in Topics /\ topic # <<>> /\ id \in 1..Word * Word - 1
    BY <1>2 DEF RequestSent
<1>4. topic \in Seq(Nat) /\ topic \in Seq(Values) /\ id \in Nat /\ id < Word * Word /\ id # 0
    BY <1>3, InputTypes, W2Nat
<1>5. \E rest \in Seq(Values) : p = Finished(RequestBody(topic, id, rest), sent.type, 1, 0)
    <2>1. CASE sent.type = Type.SUBSCRIBE
        <3>1. p = mqtt_msg_subscribe(topic, sent.qos, id) /\ sent.qos \in Qualities
            BY <1>2, <2>1, TypesDiffer DEF RequestSent
        <3>2. <<sent.qos>> \in Seq(Values)
            BY <3>1, Qualities02
        <3>3. p = Finished(RequestBody(topic, id, <<sent.qos>>), sent.type, 1, 0)
            BY <2>1, <3>1 DEF mqtt_msg_subscribe, RequestBody
        <3> QED BY <3>2, <3>3
    <2>2. CASE sent.type = Type.UNSUBSCRIBE
        <3>1. p = mqtt_msg_unsubscribe(topic, id)
            BY <1>2, <2>2, TypesDiffer DEF RequestSent
        <3>2. p = Finished(RequestBody(topic, id, <<>>), sent.type, 1, 0)
            BY <1>4, <2>2, <3>1, RequestWithoutRest DEF mqtt_msg_unsubscribe
        <3> QED BY <3>2, PieceValues
    <2> QED BY <1>1, <2>1, <2>2
<1>6. PICK rest \in Seq(Values) : p = Finished(RequestBody(topic, id, rest), sent.type, 1, 0)
    BY <1>5
<1>7. BodyFits(RequestBody(topic, id, rest)) /\ p = fini_message(RequestBody(topic, id, rest), sent.type, 1, 0)
    BY <1>1, <1>6 DEF Finished
<1>8. Begins(in_buffer, p) /\ rest \in Seq(Nat)
    BY InvBuffer, PieceValues
<1> HIDE DEF topic, id, p
<1>9. RequestIs(in_buffer, p, topic, id)
    BY <1>1, <1>3, <1>4, <1>7, <1>8, RequestRead
<1> QED BY <1>4, <1>9 DEF topic, id, p

LEMMA ConnectHolds ==
    ASSUME CodecInv, Is(Type.CONNECT)
    PROVE  ConnectIs(in_buffer, sent.packet, sent.info)
<1>1. sent.type = Type.CONNECT /\ sent.packet # <<>> /\ CallIs(sent)
    BY DEF Is, CodecInv
<1>2. ConnectSent(sent)
    BY <1>1, TypesDiffer DEF CallIs, PublishSent, RequestSent, OtherSent
<1>3. sent.info \in Infos
    BY <1>2 DEF ConnectSent
<1>4. PICK behind \in {0, 1} : sent.packet = mqtt_msg_connect(sent.info, behind)
    BY <1>2 DEF ConnectSent
<1>5. sent.packet = Finished(ConnectBody(sent.info, behind), Type.CONNECT, 0, 0)
    BY <1>3, <1>4, ConnectPacket
<1>6. /\ BodyFits(ConnectBody(sent.info, behind))
      /\ sent.packet = fini_message(ConnectBody(sent.info, behind), Type.CONNECT, 0, 0)
    BY <1>1, <1>5 DEF Finished
<1>7. Begins(in_buffer, sent.packet)
    BY InvBuffer
<1> QED BY <1>3, <1>6, <1>7, ConnectRead

\* The types that PacketCodec states hold: the counter stays in two bytes, the broker's buffer
\* keeps its length and holds bytes, and no packet is longer than the buffer, whatever the client
\* is given to send.
THEOREM CodecTypes == Spec => []TypeOK
<1>1. CodecInv => TypeOK
    BY DEF CodecInv, TypeOK, BufferIs, IsPacket, Values
<1> QED BY <1>1, CodecAlways, PTL

\* ReadAsWritten: the broker reads every packet as the library wrote it, whatever older packets
\* left in its buffer behind it (PublishArrives, RequestArrives, ConnectArrives), what it read
\* can be published again (RelayFits), and ids are never the one that stands for none (IdIsKnown).
THEOREM CodecCorrect == Spec => []ReadAsWritten
<1>1. ASSUME CodecInv PROVE PublishArrives /\ RelayFits
    <2> SUFFICES ASSUME Is(Type.PUBLISH)
                 PROVE  /\ mqtt_get_type(in_buffer) = Type.PUBLISH
                        /\ mqtt_get_publish_topic(in_buffer, BufSize) = sent.topic
                        /\ mqtt_get_publish_data(in_buffer, BufSize) = sent.data
                        /\ <<mqtt_get_qos(in_buffer), mqtt_get_retain(in_buffer)>> = <<sent.qos, sent.retain>>
                        /\ mqtt_get_total_length(in_buffer, BufSize) = Len(sent.packet)
                        /\ mqtt_msg_publish(sent.topic, sent.data, 0, 0, 0) # <<>>
        BY DEF PublishArrives, RelayFits
    <2>1. PublishIs(in_buffer, sent.packet, sent.topic, sent.data, sent.qos, sent.retain, sent.id)
        BY <1>1, PublishHolds
    <2>2. Len(in_buffer) = BufSize
        BY <1>1, InvBuffer
    <2>3. mqtt_msg_publish(sent.topic, sent.data, 0, 0, 0) # <<>>
        BY <1>1, PublishRelays
    <2> QED BY <2>1, <2>2, <2>3 DEF PublishIs
<1>2. ASSUME CodecInv PROVE RequestArrives
    <2>1. Len(in_buffer) = BufSize
        BY <1>2, InvBuffer
    <2> QED BY <1>2, <2>1, RequestHolds DEF RequestArrives, RequestIs
<1>3. ASSUME CodecInv PROVE IdIsKnown
    <2>1. Is(Type.SUBSCRIBE) \/ Is(Type.UNSUBSCRIBE) => sent.id # 0
        BY <1>3, RequestHolds
    <2>2. ASSUME Is(Type.PUBLISH)
          PROVE  /\ sent.qos > 0 => sent.id # 0
                 /\ sent.data # <<>> => mqtt_get_id(sent.packet, Len(sent.packet)) = sent.id
        <3>1. PublishIs(sent.packet, sent.packet, sent.topic, sent.data, sent.qos, sent.retain, sent.id)
            BY <1>3, <2>2, PublishHolds
        <3>2. sent.qos > 0 => sent.id # 0
            BY <1>3, <2>2, PublishFacts DEF PublishSent, Is
        <3>3. sent.qos \in 0..2 /\ (sent.qos = 0 => sent.id = 0)
            BY <1>3, <2>2, PublishFacts DEF PublishSent
        <3> QED BY <3>1, <3>2, <3>3 DEF PublishIs
    <2> QED BY <2>1, <2>2 DEF IdIsKnown
<1>4. ASSUME CodecInv PROVE ConnectArrives
    BY <1>4, ConnectHolds DEF ConnectArrives, ConnectIs
<1>5. CodecInv => ReadAsWritten
    BY <1>1, <1>2, <1>3, <1>4 DEF ReadAsWritten
<1> QED BY <1>5, CodecAlways, PTL

-----------------------------------------------------------------------------
(* The levels of a string *)

\* The n elements of s behind the first a.
Part(p, s, a, n) == /\ n \in Nat /\ p = [x \in 1..n |-> s[a + x]] /\ Len(p) = n /\ (p = <<>> <=> n = 0)

LEMMA PartOf ==
    ASSUME NEW C, NEW s \in Seq(C), NEW a \in Nat, NEW b \in Nat, a <= b, b <= Len(s)
    PROVE  Part(SubSeq(s, a + 1, b), s, a, b - a)
<1> DEFINE p == SubSeq(s, a + 1, b)
           n == b - a
<1>1. Len(s) \in Nat /\ n \in Nat
    BY LenProperties
<1>2. \A i \in a + 1..b : s[i] \in C
    <2>1. \A i \in a + 1..b : i \in 1..Len(s)
        BY <1>1
    <2> QED BY <2>1, ElementOfSeq
<1>3. a + 1 \in Int /\ b \in Int
    OBVIOUS
<1>4. /\ p \in Seq(C) /\ Len(p) = (IF a + 1 <= b THEN b - (a + 1) + 1 ELSE 0)
      /\ \A i \in 1..b - (a + 1) + 1 : p[i] = s[(a + 1) + i - 1]
    BY <1>2, <1>3, SubSeqProperties
<1> HIDE DEF p
<1>5. Len(p) = n
    BY <1>1, <1>4
<1>6. ASSUME NEW i \in 1..n PROVE p[i] = s[a + i]
    <2>1. i \in 1..b - (a + 1) + 1 /\ (a + 1) + i - 1 = a + i
        BY <1>1
    <2> QED BY <1>4, <2>1
<1>7. p = [x \in 1..n |-> p[x]]
    BY <1>4, <1>5
<1>8. p = <<>> <=> n = 0
    BY <1>4, <1>5, EmptySeq
<1> HIDE DEF n
<1>9. p = [x \in 1..n |-> s[a + x]]
    BY <1>6, <1>7
<1> QED BY <1>1, <1>5, <1>8, <1>9 DEF Part, p, n

\* The n places in f cut s into its levels.
Cut(s, f, n) ==
    /\ n \in Nat /\ n >= 2 /\ Ascends(f, n, Bounds(s))
    /\ f[1] = 0 /\ f[n] = Len(s) + 1
    /\ \A k \in 1..n - 1 : f[k] \in Nat /\ f[k + 1] \in Nat /\ f[k] < f[k + 1] /\ f[k + 1] <= Len(s) + 1
    /\ \A k \in 2..n - 1 : f[k] \in 1..Len(s) /\ s[f[k]] = "/"
    /\ \A k \in 1..n - 1 : \A i \in 1..Len(s) : f[k] < i /\ i < f[k + 1] => s[i] # "/"
    /\ \A i \in 1..Len(s) : s[i] # "/" => \E k \in 1..n - 1 : f[k] < i /\ i < f[k + 1]

LevelsAt(s, f, n) ==
    /\ Len(Levels(s)) = n - 1 /\ DOMAIN Levels(s) = 1..n - 1
    /\ \A k \in 1..n - 1 : Part(Levels(s)[k], s, f[k], f[k + 1] - f[k] - 1)

LEMMA BoundsAre ==
    ASSUME NEW C, NEW s \in Seq(C)
    PROVE  /\ Len(s) \in Nat /\ Bounds(s) \in SUBSET (0..Len(s) + 1)
           /\ \A i \in 0..Len(s) + 1 : i \in Bounds(s) <=> i = 0 \/ i = Len(s) + 1 \/ s[i] = "/"
           /\ DOMAIN s = 1..Len(s)
<1>1. Len(s) \in Nat /\ DOMAIN s = 1..Len(s)
    BY LenProperties
<1> QED BY <1>1 DEF Bounds, Positions

LEMMA CutIs ==
    ASSUME NEW C, NEW s \in Seq(C), NEW f, NEW n, Ascends(f, n, Bounds(s))
    PROVE  Cut(s, f, n)
<1> DEFINE L == Len(s)
<1>1. /\ L \in Nat /\ Bounds(s) \in SUBSET (0..L + 1)
      /\ \A i \in 0..L + 1 : i \in Bounds(s) <=> i = 0 \/ i = L + 1 \/ s[i] = "/"
    BY BoundsAre
<1> HIDE DEF L
<1>2. /\ n \in Nat /\ f \in [1..n -> Bounds(s)]
      /\ \A i, j \in 1..n : i < j => f[i] < f[j]
      /\ \A x \in Bounds(s) : \E i \in 1..n : f[i] = x
    BY DEF Ascends
<1>3. \A i \in 1..n : f[i] \in Bounds(s) /\ f[i] \in 0..L + 1 /\ f[i] \in Nat
    BY <1>1, <1>2
<1>4. PICK i \in 1..n : f[i] = 0
    <2>1. 0 \in Bounds(s)
        BY <1>1
    <2> QED BY <1>2, <2>1
<1>5. PICK j \in 1..n : f[j] = L + 1
    <2>1. L + 1 \in Bounds(s)
        BY <1>1
    <2> QED BY <1>2, <2>1
<1>6. i = 1
    <2> SUFFICES ASSUME i # 1 PROVE FALSE
        OBVIOUS
    <2>1. 1 \in 1..n /\ 1 < i
        BY <1>2
    <2>2. f[1] < f[i] /\ f[1] \in Nat
        BY <1>2, <1>3, <2>1
    <2> QED BY <1>4, <2>2
<1>7. j = n
    <2> SUFFICES ASSUME j # n PROVE FALSE
        OBVIOUS
    <2>1. n \in 1..n /\ j < n
        BY <1>2
    <2>2. f[j] < f[n] /\ f[n] \in 0..L + 1
        BY <1>2, <1>3, <2>1
    <2> QED BY <1>1, <1>5, <2>2
<1>8. n >= 2
    BY <1>1, <1>2, <1>4, <1>5, <1>6, <1>7
<1>9. ASSUME NEW k \in 1..n - 1
      PROVE  f[k] \in Nat /\ f[k + 1] \in Nat /\ f[k] < f[k + 1] /\ f[k + 1] <= L + 1
    <2>1. k \in 1..n /\ k + 1 \in 1..n /\ k < k + 1
        BY <1>2
    <2> QED BY <1>1, <1>2, <1>3, <2>1
<1>10. ASSUME NEW k \in 2..n - 1 PROVE f[k] \in 1..L /\ s[f[k]] = "/"
    <2>1. k \in 1..n /\ 1 \in 1..n /\ n \in 1..n /\ 1 < k /\ k < n
        BY <1>2
    <2>2. f[1] < f[k] /\ f[k] < f[n] /\ f[k] \in Bounds(s) /\ f[k] \in 0..L + 1
        BY <1>2, <1>3, <2>1
    <2>3. 0 < f[k] /\ f[k] < L + 1
        BY <1>4, <1>5, <1>6, <1>7, <2>2
    <2> QED BY <1>1, <2>2, <2>3
<1>11. ASSUME NEW k \in 1..n - 1, NEW x \in 1..L, f[k] < x, x < f[k + 1] PROVE s[x] # "/"
    <2> SUFFICES ASSUME s[x] = "/" PROVE FALSE
        OBVIOUS
    <2>1. x \in Bounds(s)
        BY <1>1
    <2>2. PICK m \in 1..n : f[m] = x
        BY <1>2, <2>1
    <2>3. k \in 1..n /\ k + 1 \in 1..n
        BY <1>2
    <2>4. m <= k \/ k + 1 <= m
        BY <1>2, <2>3
    <2>5. f[m] <= f[k] \/ f[k + 1] <= f[m]
        <3>1. CASE m = k \/ m = k + 1
            BY <1>3, <3>1, <2>3
        <3>2. CASE m < k
            BY <1>2, <1>3, <2>3, <3>2
        <3>3. CASE k + 1 < m
            BY <1>2, <1>3, <2>3, <3>3
        <3> QED BY <1>2, <2>3, <2>4, <3>1, <3>2, <3>3
    <2> QED BY <1>1, <1>3, <1>11, <2>2, <2>3, <2>5
<1>12. ASSUME NEW x \in 1..L, s[x] # "/" PROVE \E k \in 1..n - 1 : f[k] < x /\ x < f[k + 1]
    <2> DEFINE S == {k \in 1..n : x < f[k]}
    <2>1. n \in S
        BY <1>1, <1>2, <1>5, <1>7, <1>8
    <2>2. PICK k \in S : \A m \in S : k <= m
        <3>1. S \in SUBSET Nat /\ S # {}
            BY <2>1
        <3> HIDE DEF S
        <3> QED BY <3>1, LeastElement
    <2>3. k # 1
        BY <1>4, <1>6
    <2>4. k - 1 \in 1..n - 1 /\ k - 1 \in 1..n /\ (k - 1) + 1 = k
        BY <1>2, <2>3
    <2>5. k - 1 \notin S
        BY <2>2, <2>4
    <2>6. ~(x < f[k - 1]) /\ x < f[k]
        BY <2>4, <2>5
    <2>7. f[k - 1] \in Bounds(s) /\ f[k - 1] \in 0..L + 1
        BY <1>3, <2>4
    <2>8. f[k - 1] # x
        <3> SUFFICES ASSUME f[k - 1] = x PROVE FALSE
            OBVIOUS
        <3>1. x = 0 \/ x = L + 1 \/ s[x] = "/"
            BY <1>1, <2>7
        <3> QED BY <1>1, <1>12, <3>1
    <2>9. f[k - 1] < x
        BY <1>1, <2>6, <2>7, <2>8
    <2> QED BY <2>4, <2>6, <2>9
<1>13. f[1] = 0 /\ f[n] = L + 1
    BY <1>4, <1>5, <1>6, <1>7
<1> QED BY <1>2, <1>8, <1>9, <1>10, <1>11, <1>12, <1>13 DEF Cut, L

LEMMA LevelsAre ==
    ASSUME NEW C, NEW s \in Seq(C), NEW f, NEW n, Ascends(f, n, Bounds(s))
    PROVE  LevelsAt(s, f, n)
<1>1. Cut(s, f, n)
    BY CutIs
<1>2. Ascending(Bounds(s)) = f /\ Len(f) = n
    BY AscendingIs
<1>3. Levels(s) = [k \in 1..n - 1 |-> SubSeq(s, f[k] + 1, f[k + 1] - 1)]
    BY <1>2 DEF Levels
<1>4. n - 1 \in Nat
    BY <1>1 DEF Cut
<1>5. Len(Levels(s)) = n - 1 /\ DOMAIN Levels(s) = 1..n - 1
    BY <1>3, <1>4
<1>6. ASSUME NEW k \in 1..n - 1 PROVE Part(Levels(s)[k], s, f[k], f[k + 1] - f[k] - 1)
    <2> DEFINE a == f[k]
               b == f[k + 1] - 1
    <2>1. a \in Nat /\ b \in Nat /\ a <= b /\ b <= Len(s) /\ b - a = f[k + 1] - f[k] - 1
        <3>1. f[k] \in Nat /\ f[k + 1] \in Nat /\ f[k] < f[k + 1] /\ f[k + 1] <= Len(s) + 1
            BY <1>1 DEF Cut
        <3>2. Len(s) \in Nat
            BY LenProperties
        <3> QED BY <3>1, <3>2
    <2>2. Levels(s)[k] = SubSeq(s, a + 1, b)
        BY <1>3
    <2> HIDE DEF a, b
    <2>3. Part(SubSeq(s, a + 1, b), s, a, b - a)
        BY <2>1, PartOf
    <2> QED BY <2>1, <2>2, <2>3 DEF a
<1> QED BY <1>5, <1>6 DEF LevelsAt

LEMMA LevelsExist ==
    ASSUME NEW C, NEW s \in Seq(C)
    PROVE  \E n, f : Cut(s, f, n) /\ LevelsAt(s, f, n) /\ Ascends(f, n, Bounds(s))
<1>1. Len(s) + 1 \in Nat /\ Bounds(s) \in SUBSET (0..Len(s) + 1)
    BY BoundsAre
<1>2. PICK n \in Nat : \E f : Ascends(f, n, Bounds(s))
    BY <1>1, AscentExists
<1>3. PICK f : Ascends(f, n, Bounds(s))
    BY <1>2
<1> QED BY <1>3, CutIs, LevelsAre

-----------------------------------------------------------------------------
(* Names that are valid *)

\* The i-th character is in the k-th level.
InLevel(f, k, i) == f[k] < i /\ i < f[k + 1]

LEMMA OneLevel ==
    ASSUME NEW s, NEW f, NEW n, Cut(s, f, n), NEW k \in 1..n - 1, NEW m \in 1..n - 1, NEW i \in Nat,
           InLevel(f, k, i), InLevel(f, m, i)
    PROVE  k = m
<1> SUFFICES ASSUME k # m PROVE FALSE
    OBVIOUS
<1>1. n \in Nat /\ f \in [1..n -> Bounds(s)] /\ \A x, y \in 1..n : x < y => f[x] < f[y]
    BY DEF Cut, Ascends
<1>2. /\ f[k] \in Nat /\ f[k + 1] \in Nat /\ f[m] \in Nat /\ f[m + 1] \in Nat
    BY DEF Cut
<1>3. k \in 1..n /\ k + 1 \in 1..n /\ m \in 1..n /\ m + 1 \in 1..n
    BY <1>1
<1>4. CASE k < m
    <2>1. k + 1 = m \/ k + 1 < m
        BY <1>3, <1>4
    <2>2. f[k + 1] <= f[m]
        BY <1>1, <1>2, <1>3, <2>1
    <2> QED BY <1>2, <2>2 DEF InLevel
<1>5. CASE m < k
    <2>1. m + 1 = k \/ m + 1 < k
        BY <1>3, <1>5
    <2>2. f[m + 1] <= f[k]
        BY <1>1, <1>2, <1>3, <2>1
    <2> QED BY <1>2, <2>2 DEF InLevel
<1> QED BY <1>3, <1>4, <1>5

\* A character has no neighbours but '/' iff it is alone in its level.
Alone(s, i) == (i > 1 => s[i - 1] = "/") /\ (i < Len(s) => s[i + 1] = "/")

LEMMA AloneInLevel ==
    ASSUME NEW C, NEW s \in Seq(C), NEW f, NEW n, Cut(s, f, n), LevelsAt(s, f, n),
           NEW k \in 1..n - 1, NEW i \in 1..Len(s), InLevel(f, k, i)
    PROVE  /\ Alone(s, i) <=> Len(Levels(s)[k]) = 1
           /\ Alone(s, i) <=> f[k] = i - 1 /\ f[k + 1] = i + 1
<1> DEFINE L == Len(s)
<1>1. L \in Nat
    BY LenProperties
<1>2. /\ n \in Nat /\ n >= 2 /\ f[1] = 0 /\ f[n] = L + 1
      /\ f[k] \in Nat /\ f[k + 1] \in Nat /\ f[k + 1] <= L + 1
      /\ \A m \in 2..n - 1 : f[m] \in 1..L /\ s[f[m]] = "/"
      /\ \A x \in 1..L : f[k] < x /\ x < f[k + 1] => s[x] # "/"
    BY DEF Cut
<1>3. f[k] < i /\ i < f[k + 1] /\ i \in 1..L
    BY DEF InLevel
<1>4. (i > 1 => s[i - 1] = "/") <=> f[k] = i - 1
    <2>1. ASSUME i > 1, s[i - 1] = "/" PROVE f[k] = i - 1
        <3>1. i - 1 \in 1..L
            BY <1>1, <2>1
        <3>2. ~(f[k] < i - 1)
            BY <1>2, <1>3, <2>1, <3>1
        <3> QED BY <1>2, <1>3, <3>2
    <2>2. ASSUME ~(i > 1) PROVE f[k] = i - 1
        BY <1>2, <1>3, <2>2
    <2>3. ASSUME f[k] = i - 1, i > 1 PROVE s[i - 1] = "/"
        <3>1. k # 1
            BY <1>2, <2>3
        <3>2. k \in 2..n - 1
            BY <1>2, <3>1
        <3> QED BY <1>2, <2>3, <3>2
    <2> QED BY <2>1, <2>2, <2>3
<1>5. (i < L => s[i + 1] = "/") <=> f[k + 1] = i + 1
    <2>1. ASSUME i < L, s[i + 1] = "/" PROVE f[k + 1] = i + 1
        <3>1. i + 1 \in 1..L
            BY <1>1, <2>1
        <3>2. ~(i + 1 < f[k + 1])
            BY <1>2, <1>3, <2>1, <3>1
        <3> QED BY <1>2, <1>3, <3>2
    <2>2. ASSUME ~(i < L) PROVE f[k + 1] = i + 1
        BY <1>1, <1>2, <1>3, <2>2
    <2>3. ASSUME f[k + 1] = i + 1, i < L PROVE s[i + 1] = "/"
        <3>1. k + 1 # n
            BY <1>1, <1>2, <2>3
        <3>2. k + 1 \in 2..n - 1
            BY <1>2, <3>1
        <3> QED BY <1>2, <2>3, <3>2
    <2> QED BY <2>1, <2>2, <2>3
<1>6. Len(Levels(s)[k]) = f[k + 1] - f[k] - 1
    BY DEF LevelsAt, Part
<1>7. Alone(s, i) <=> f[k] = i - 1 /\ f[k + 1] = i + 1
    BY <1>4, <1>5 DEF Alone
<1>8. (f[k] = i - 1 /\ f[k + 1] = i + 1) <=> f[k + 1] - f[k] - 1 = 1
    <2> DEFINE a == f[k]
               b == f[k + 1]
    <2>1. a \in Nat /\ b \in Nat /\ a < i /\ i < b /\ i \in Nat
        BY <1>2, <1>3
    <2> HIDE DEF a, b
    <2>2. (a = i - 1 /\ b = i + 1) <=> b - a - 1 = 1
        BY <2>1
    <2> QED BY <2>2 DEF a, b
<1> QED BY <1>6, <1>7, <1>8

HasChar(l, c) == Positions(l, c) # {}

\* A level has a character c iff there is one of the string in it.
LEMMA InsideLevel ==
    ASSUME NEW C, NEW s \in Seq(C), NEW f, NEW n, Cut(s, f, n), LevelsAt(s, f, n), NEW k \in 1..n - 1, NEW c
    PROVE  HasChar(Levels(s)[k], c) <=> \E i \in 1..Len(s) : InLevel(f, k, i) /\ s[i] = c
<1> DEFINE l == Levels(s)[k]
           m == f[k + 1] - f[k] - 1
<1>1. m \in Nat /\ l = [x \in 1..m |-> s[f[k] + x]]
    BY DEF LevelsAt, Part
<1>2. f[k] \in Nat /\ f[k + 1] \in Nat /\ f[k + 1] <= Len(s) + 1 /\ Len(s) \in Nat
    BY LenProperties DEF Cut
<1>3. Positions(l, c) = {x \in 1..m : s[f[k] + x] = c}
    BY <1>1 DEF Positions
<1> HIDE DEF l
<1>4. ASSUME NEW x \in 1..m, s[f[k] + x] = c PROVE \E i \in 1..Len(s) : InLevel(f, k, i) /\ s[i] = c
    <2>1. f[k] + x \in 1..Len(s) /\ f[k] < f[k] + x /\ f[k] + x < f[k + 1]
        BY <1>2
    <2> QED BY <1>4, <2>1 DEF InLevel
<1>5. ASSUME NEW i \in 1..Len(s), InLevel(f, k, i), s[i] = c PROVE \E x \in 1..m : s[f[k] + x] = c
    <2>1. i - f[k] \in 1..m /\ f[k] + (i - f[k]) = i
        BY <1>2, <1>5 DEF InLevel
    <2> QED BY <1>5, <2>1
<1> QED BY <1>3, <1>4, <1>5 DEF l, HasChar

LEMMA NeighboursByLevels ==
    ASSUME NEW C, NEW s \in Seq(C), NEW f, NEW n, Cut(s, f, n), LevelsAt(s, f, n), NEW c, c # "/"
    PROVE  (\A i \in Positions(s, c) : Alone(s, i)) <=>
              \A k \in DOMAIN Levels(s) : HasChar(Levels(s)[k], c) => Len(Levels(s)[k]) = 1
<1>1. DOMAIN Levels(s) = 1..n - 1
    BY DEF LevelsAt
<1>2. Positions(s, c) = {i \in 1..Len(s) : s[i] = c}
    <2>1. DOMAIN s = 1..Len(s)
        BY LenProperties
    <2> QED BY <2>1 DEF Positions
<1>3. ASSUME \A i \in Positions(s, c) : Alone(s, i), NEW k \in 1..n - 1, HasChar(Levels(s)[k], c)
      PROVE  Len(Levels(s)[k]) = 1
    <2>0. HasChar(Levels(s)[k], c) <=> \E i \in 1..Len(s) : InLevel(f, k, i) /\ s[i] = c
        BY InsideLevel
    <2>1. PICK i \in 1..Len(s) : InLevel(f, k, i) /\ s[i] = c
        BY <1>3, <2>0
    <2>2. Alone(s, i)
        BY <1>2, <1>3, <2>1
    <2> QED BY <2>1, <2>2, AloneInLevel
<1>4. ASSUME \A k \in 1..n - 1 : HasChar(Levels(s)[k], c) => Len(Levels(s)[k]) = 1,
             NEW i \in Positions(s, c)
      PROVE  Alone(s, i)
    <2>1. i \in 1..Len(s) /\ s[i] = c
        BY <1>2
    <2>2. PICK k \in 1..n - 1 : InLevel(f, k, i)
        BY <2>1 DEF Cut, InLevel
    <2>0. HasChar(Levels(s)[k], c) <=> \E j \in 1..Len(s) : InLevel(f, k, j) /\ s[j] = c
        BY InsideLevel
    <2>3. Len(Levels(s)[k]) = 1
        BY <1>4, <2>0, <2>1, <2>2
    <2> QED BY <2>1, <2>2, <2>3, AloneInLevel
<1> QED BY <1>1, <1>3, <1>4

\* A '#' that is alone is a level of its own: the first at the beginning, the last at the end.
HashAt(s, f, n, k, i) ==
    /\ i \in 1..Len(s) /\ s[i] = "#" /\ InLevel(f, k, i) /\ f[k] = i - 1
    /\ (i = 1 <=> k = 1) /\ (i = Len(s) <=> k = n - 1)

LEMMA HashLevel ==
    ASSUME NEW C, NEW s \in Seq(C), NEW f, NEW n, Cut(s, f, n), LevelsAt(s, f, n),
           \A i \in Positions(s, "#") : Alone(s, i), NEW k \in 1..n - 1
    PROVE  /\ Levels(s)[k] = <<"#">> => \E i : HashAt(s, f, n, k, i)
           /\ \A i \in 1..Len(s) : s[i] = "#" /\ InLevel(f, k, i) =>
                 Levels(s)[k] = <<"#">> /\ HashAt(s, f, n, k, i)
<1> DEFINE L == Len(s)
           l == Levels(s)[k]
           m == f[k + 1] - f[k] - 1
<1>1. L \in Nat /\ DOMAIN s = 1..L
    BY LenProperties
<1>2. /\ n \in Nat /\ n >= 2 /\ f[1] = 0 /\ f[n] = L + 1
      /\ f[k] \in Nat /\ f[k + 1] \in Nat /\ f[k] < f[k + 1] /\ f[k + 1] <= L + 1
      /\ \A x \in 2..n - 1 : f[x] \in 1..L
    BY DEF Cut
<1>3. m \in Nat /\ l = [x \in 1..m |-> s[f[k] + x]] /\ Len(l) = m
    BY DEF LevelsAt, Part
<1> HIDE DEF l, L
<1>4. ASSUME NEW i \in 1..L, s[i] = "#", InLevel(f, k, i)
      PROVE  l = <<"#">> /\ HashAt(s, f, n, k, i)
    <2>1. i \in Positions(s, "#")
        BY <1>1, <1>4 DEF Positions
    <2>2. f[k] = i - 1 /\ f[k + 1] = i + 1
        BY <1>4, <2>1, AloneInLevel DEF L
    <2>3. m = 1 /\ f[k] + 1 = i
        BY <1>2, <2>2
    <2>4. l = <<"#">>
        <3>1. l = [x \in 1..1 |-> s[f[k] + x]]
            BY <1>3, <2>3
        <3>2. \A x \in 1..1 : s[f[k] + x] = "#"
            BY <1>4, <2>3
        <3>3. l = [x \in 1..1 |-> "#"]
            BY <3>1, <3>2
        <3> QED BY <3>3
    <2>5. i = 1 <=> k = 1
        <3>1. k = 1 => i = 1
            BY <1>2, <2>2
        <3>2. k # 1 => i # 1
            <4>1. k # 1 => k \in 2..n - 1
                BY <1>2
            <4> QED BY <1>2, <2>2, <4>1
        <3> QED BY <3>1, <3>2
    <2>6. i = L <=> k = n - 1
        <3>1. k = n - 1 => i = L
            BY <1>1, <1>2, <2>2
        <3>2. k # n - 1 => i # L
            <4>1. k # n - 1 => k + 1 \in 2..n - 1
                BY <1>2
            <4> QED BY <1>1, <1>2, <2>2, <4>1
        <3> QED BY <3>1, <3>2
    <2> QED BY <1>4, <2>2, <2>4, <2>5, <2>6 DEF HashAt, L
<1>5. ASSUME l = <<"#">> PROVE \E i : HashAt(s, f, n, k, i)
    <2>1. Len(l) = 1 /\ l[1] = "#"
        BY <1>5
    <2>2. m = 1
        BY <1>3, <2>1
    <2>3. s[f[k] + 1] = "#" /\ f[k] + 1 \in 1..L /\ f[k] < f[k] + 1 /\ f[k] + 1 < f[k + 1]
        <3>1. l[1] = s[f[k] + 1]
            BY <1>3, <2>2
        <3> QED BY <1>1, <1>2, <2>1, <2>2, <3>1
    <2> QED BY <1>4, <2>3 DEF InLevel
<1> QED BY <1>4, <1>5 DEF l, L

\* What Topics_isValidName finds by looking at neighbours is what the levels say.
LEMMA ValidIs ==
    ASSUME NEW C, NEW s \in Seq(C)
    PROVE  Topics_isValidName(s) <=> ValidByLevels(Levels(s))
<1>1. PICK n, f : Cut(s, f, n) /\ LevelsAt(s, f, n)
    BY LevelsExist
<1> DEFINE ls == Levels(s)
           Single == \A k \in DOMAIN ls : \A c \in {"#", "+"} : Positions(ls[k], c) # {} => Len(ls[k]) = 1
           OneHash == \A k \in DOMAIN ls : ls[k] = <<"#">> =>
                         k \in {1, Len(ls)} /\ \A m \in DOMAIN ls : ls[m] = <<"#">> => m = k
           Alones == \A c \in {"#", "+"} : \A i \in Positions(s, c) : Alone(s, i)
<1>2. Topics_isValidName(s) <=> HashInPlace(s) /\ Alones
    BY DEF Topics_isValidName, Alone
<1>3. ValidByLevels(ls) <=> Single /\ OneHash
    BY DEF ValidByLevels
<1>4. Alones <=> Single
    <2>1. \A c \in {"#", "+"} : (\A i \in Positions(s, c) : Alone(s, i)) <=>
              \A k \in DOMAIN ls : HasChar(ls[k], c) => Len(ls[k]) = 1
        <3>1. "#" # "/" /\ "+" # "/"
            OBVIOUS
        <3> QED BY <1>1, <3>1, NeighboursByLevels
    <2> HIDE DEF ls
    <2> QED BY <2>1 DEF HasChar
<1>5. ASSUME Alones PROVE HashInPlace(s) <=> OneHash
    <2>1. \A i \in Positions(s, "#") : Alone(s, i)
        BY <1>5
    <2>2. DOMAIN ls = 1..n - 1 /\ Len(ls) = n - 1
        BY <1>1 DEF LevelsAt
    <2>3. /\ \A k \in 1..n - 1 : ls[k] = <<"#">> => \E i : HashAt(s, f, n, k, i)
          /\ \A k \in 1..n - 1 : \A i \in 1..Len(s) : s[i] = "#" /\ InLevel(f, k, i) =>
                ls[k] = <<"#">> /\ HashAt(s, f, n, k, i)
        BY <1>1, <2>1, HashLevel
    <2>4. Positions(s, "#") = {i \in 1..Len(s) : s[i] = "#"}
        <3>1. DOMAIN s = 1..Len(s)
            BY LenProperties
        <3> QED BY <3>1 DEF Positions
    <2>5. \A i \in Positions(s, "#") : \E k \in 1..n - 1 : InLevel(f, k, i) /\ ls[k] = <<"#">> /\ HashAt(s, f, n, k, i)
        <3> SUFFICES ASSUME NEW i \in Positions(s, "#")
                     PROVE  \E k \in 1..n - 1 : InLevel(f, k, i) /\ ls[k] = <<"#">> /\ HashAt(s, f, n, k, i)
            OBVIOUS
        <3>1. i \in 1..Len(s) /\ s[i] = "#" /\ s[i] # "/"
            BY <2>4
        <3>2. PICK k \in 1..n - 1 : InLevel(f, k, i)
            BY <1>1, <3>1 DEF Cut, InLevel
        <3> QED BY <2>3, <3>1, <3>2
    <2> HIDE DEF ls
    <2>6. ASSUME HashInPlace(s) PROVE OneHash
        <3> SUFFICES ASSUME NEW k \in 1..n - 1, ls[k] = <<"#">>
                     PROVE  k \in {1, n - 1} /\ \A m \in 1..n - 1 : ls[m] = <<"#">> => m = k
            BY <2>2
        <3>1. PICK i : HashAt(s, f, n, k, i)
            BY <2>3
        <3>2. i \in Positions(s, "#")
            BY <2>4, <3>1 DEF HashAt
        <3>3. k \in {1, n - 1}
            BY <2>6, <3>1, <3>2 DEF HashInPlace, HashAt
        <3>4. ASSUME NEW m \in 1..n - 1, ls[m] = <<"#">> PROVE m = k
            <4>1. PICK j : HashAt(s, f, n, m, j)
                BY <2>3, <3>4
            <4>2. j \in Positions(s, "#")
                BY <2>4, <4>1 DEF HashAt
            <4>3. i = j
                BY <2>6, <3>2, <4>2 DEF HashInPlace
            <4> QED BY <1>1, <3>1, <4>1, <4>3, OneLevel DEF HashAt
        <3> QED BY <3>3, <3>4
    <2>7. ASSUME OneHash PROVE HashInPlace(s)
        <3>1. ASSUME NEW i \in Positions(s, "#") PROVE i \in {1, Len(s)}
            <4>1. PICK k \in 1..n - 1 : ls[k] = <<"#">> /\ HashAt(s, f, n, k, i)
                BY <2>5
            <4>2. k \in {1, n - 1}
                BY <2>2, <2>7, <4>1
            <4> QED BY <4>1, <4>2 DEF HashAt
        <3>2. ASSUME NEW i \in Positions(s, "#"), NEW j \in Positions(s, "#") PROVE i = j
            <4>1. PICK k \in 1..n - 1 : ls[k] = <<"#">> /\ HashAt(s, f, n, k, i)
                BY <2>5
            <4>2. PICK m \in 1..n - 1 : ls[m] = <<"#">> /\ HashAt(s, f, n, m, j)
                BY <2>5
            <4>3. m = k
                BY <2>2, <2>7, <4>1, <4>2
            <4>4. f[k] = i - 1 /\ f[k] = j - 1 /\ i \in 1..Len(s) /\ j \in 1..Len(s)
                BY <4>1, <4>2, <4>3 DEF HashAt
            <4> QED BY <4>4
        <3> QED BY <3>1, <3>2 DEF HashInPlace
    <2> QED BY <2>6, <2>7
<1> HIDE DEF Alones, Single, OneHash
<1> QED BY <1>2, <1>3, <1>4, <1>5 DEF ls

-----------------------------------------------------------------------------
(* Tokens *)

\* The token that begins at i ends at e.
EndsToken(s, i, e) ==
    /\ e \in i..Len(s) /\ \A k \in i..e : s[k] # "/"
    /\ e = Len(s) \/ s[e + 1] = "/"

LEMMA TokenEndIs ==
    ASSUME NEW C, NEW s \in Seq(C), NEW i \in Nat, NEW e, EndsToken(s, i, e)
    PROVE  TokenEnd(s, i) = e
<1>1. Len(s) \in Nat
    BY LenProperties
<1>2. e \in i..Len(s) /\ (\A k \in i..e : s[k] # "/") /\ (e = Len(s) \/ s[e + 1] = "/")
    BY DEF EndsToken
<1>3. ASSUME NEW j \in i..Len(s), \A k \in i..j : s[k] # "/", j = Len(s) \/ s[j + 1] = "/"
      PROVE  j = e
    <2>1. ~(j < e)
        <3> SUFFICES ASSUME j < e PROVE FALSE
            OBVIOUS
        <3>1. j + 1 \in i..e /\ j # Len(s)
            BY <1>1, <1>2
        <3> QED BY <1>2, <1>3, <3>1
    <2>2. ~(e < j)
        <3> SUFFICES ASSUME e < j PROVE FALSE
            OBVIOUS
        <3>1. e + 1 \in i..j /\ e # Len(s)
            BY <1>1, <1>2
        <3> QED BY <1>2, <1>3, <3>1
    <2> QED BY <1>1, <1>2, <2>1, <2>2
<1> QED BY <1>2, <1>3 DEF TokenEnd

\* The n tokens begin at the places in g and end at those in e.
TokensAt(s, g, e, n) ==
    /\ Ascends(g, n, TokenStarts(s))
    /\ \A k \in 1..n : EndsToken(s, g[k], e[k])

LEMMA TokensAre ==
    ASSUME NEW C, NEW s \in Seq(C), NEW g, NEW e, NEW n, TokensAt(s, g, e, n)
    PROVE  Tokens(s) = [k \in 1..n |-> SubSeq(s, g[k], e[k])]
<1>1. Ascending(TokenStarts(s)) = g /\ DOMAIN g = 1..n
    BY AscendingIs DEF TokensAt
<1>2. ASSUME NEW k \in 1..n PROVE TokenEnd(s, g[k]) = e[k]
    <2>1. g[k] \in Nat /\ EndsToken(s, g[k], e[k])
        BY DEF TokensAt, Ascends
    <2> QED BY <2>1, TokenEndIs
<1> QED BY <1>1, <1>2 DEF Tokens

LEMMA StartsIn ==
    ASSUME NEW C, NEW s \in Seq(C)
    PROVE  /\ TokenStarts(s) = {i \in 1..Len(s) : s[i] # "/" /\ (i = 1 \/ s[i - 1] = "/")}
           /\ Len(s) \in Nat
<1>1. DOMAIN s = 1..Len(s) /\ Len(s) \in Nat
    BY LenProperties
<1> QED BY <1>1 DEF TokenStarts

LEMMA EveryEnd ==
    ASSUME NEW C, NEW s \in Seq(C), NEW i \in TokenStarts(s)
    PROVE  \E e \in Nat : EndsToken(s, i, e)
<1>1. i \in 1..Len(s) /\ s[i] # "/" /\ Len(s) \in Nat
    BY StartsIn
<1> DEFINE S == {k \in i..Len(s) : k = Len(s) \/ s[k + 1] = "/"}
<1>2. PICK e \in S : \A k \in S : e <= k
    <2>1. Len(s) \in S /\ S \in SUBSET Nat
        BY <1>1
    <2> HIDE DEF S
    <2> QED BY <2>1, LeastElement
<1>3. ASSUME NEW k \in i..e, s[k] = "/" PROVE FALSE
    <2>1. k # i
        BY <1>1, <1>3
    <2>2. k - 1 \in i..Len(s) /\ (k - 1) + 1 = k
        BY <1>1, <2>1
    <2>3. k - 1 \in S
        BY <1>3, <2>2
    <2>4. e <= k - 1
        BY <1>2, <2>3
    <2>5. e \in Nat /\ k \in Nat /\ k <= e
        BY <1>1, <1>3
    <2> QED BY <2>4, <2>5
<1>4. e \in Nat
    BY <1>1
<1> QED BY <1>2, <1>3, <1>4 DEF EndsToken

LEMMA TokensExist ==
    ASSUME NEW C, NEW s \in Seq(C)
    PROVE  \E n, g, e : TokensAt(s, g, e, n)
<1>1. TokenStarts(s) \in SUBSET (0..Len(s)) /\ Len(s) \in Nat
    BY StartsIn
<1>2. PICK n \in Nat : \E g : Ascends(g, n, TokenStarts(s))
    BY <1>1, AscentExists
<1>3. PICK g : Ascends(g, n, TokenStarts(s))
    BY <1>2
<1> DEFINE e == [k \in 1..n |-> CHOOSE x \in Nat : EndsToken(s, g[k], x)]
<1>4. \A k \in 1..n : EndsToken(s, g[k], e[k])
    <2> SUFFICES ASSUME NEW k \in 1..n PROVE EndsToken(s, g[k], e[k])
        OBVIOUS
    <2>1. g[k] \in TokenStarts(s)
        BY <1>3 DEF Ascends
    <2>2. \E x \in Nat : EndsToken(s, g[k], x)
        BY <2>1, EveryEnd
    <2> QED BY <2>2
<1> HIDE DEF e
<1> QED BY <1>3, <1>4 DEF TokensAt

\* Where no level is empty, strtok_r finds the levels.
LEMMA TokensAreLevels ==
    ASSUME NEW C, NEW s \in Seq(C), NoEmptyLevel(s)
    PROVE  Tokens(s) = Levels(s)
<1>1. PICK n, f : Cut(s, f, n) /\ LevelsAt(s, f, n) /\ Ascends(f, n, Bounds(s))
    BY LevelsExist
<1> DEFINE L == Len(s)
           N == n - 1
           g == [k \in 1..N |-> f[k] + 1]
           e == [k \in 1..N |-> f[k + 1] - 1]
<1>2. /\ n \in Nat /\ n >= 2 /\ f[1] = 0 /\ f[n] = L + 1 /\ L \in Nat
      /\ \A k \in 1..N : f[k] \in Nat /\ f[k + 1] \in Nat /\ f[k] < f[k + 1] /\ f[k + 1] <= L + 1
      /\ \A k \in 2..N : f[k] \in 1..L /\ s[f[k]] = "/"
      /\ \A k \in 1..N : \A i \in 1..L : f[k] < i /\ i < f[k + 1] => s[i] # "/"
      /\ \A i \in 1..L : s[i] # "/" => \E k \in 1..N : f[k] < i /\ i < f[k + 1]
    BY <1>1, LenProperties DEF Cut
<1>3. /\ Len(Levels(s)) = N /\ DOMAIN Levels(s) = 1..N
      /\ \A k \in 1..N : Part(Levels(s)[k], s, f[k], f[k + 1] - f[k] - 1)
    BY <1>1 DEF LevelsAt
<1> HIDE DEF L, N
<1>4. N \in Nat /\ n = N + 1
    BY <1>2 DEF N
<1>5. \A k \in 1..N : f[k + 1] >= f[k] + 2
    <2> SUFFICES ASSUME NEW k \in 1..N PROVE f[k + 1] >= f[k] + 2
        OBVIOUS
    <2>1. Levels(s)[k] # <<>>
        BY <1>3 DEF NoEmptyLevel
    <2>2. f[k + 1] - f[k] - 1 # 0
        BY <1>3, <2>1 DEF Part
    <2> QED BY <1>2, <2>2
<1>6. TokenStarts(s) = {i \in 1..L : s[i] # "/" /\ (i = 1 \/ s[i - 1] = "/")}
    BY StartsIn DEF L
<1>7. ASSUME NEW k \in 1..N PROVE f[k] + 1 \in TokenStarts(s)
    <2>1. f[k] + 1 \in 1..L /\ f[k] < f[k] + 1 /\ f[k] + 1 < f[k + 1]
        BY <1>2, <1>5
    <2>2. s[f[k] + 1] # "/"
        BY <1>2, <2>1
    <2>3. f[k] + 1 = 1 \/ s[(f[k] + 1) - 1] = "/"
        <3>1. CASE k = 1
            BY <1>2, <3>1
        <3>2. CASE k # 1
            <4>1. k \in 2..N
                BY <3>2
            <4>2. (f[k] + 1) - 1 = f[k]
                BY <1>2
            <4> QED BY <1>2, <4>1, <4>2
        <3> QED BY <3>1, <3>2
    <2> QED BY <1>6, <2>1, <2>2, <2>3
<1>8. ASSUME NEW i \in TokenStarts(s) PROVE \E k \in 1..N : f[k] + 1 = i
    <2>1. i \in 1..L /\ s[i] # "/" /\ (i = 1 \/ s[i - 1] = "/")
        BY <1>6
    <2>2. PICK k \in 1..N : f[k] < i /\ i < f[k + 1]
        BY <1>2, <2>1
    <2>3. CASE i = 1
        BY <1>2, <2>2, <2>3
    <2>4. CASE i # 1
        <3>1. i - 1 \in 1..L
            BY <1>2, <2>1, <2>4
        <3>2. ~(f[k] < i - 1)
            BY <1>2, <2>1, <2>2, <2>4, <3>1
        <3>3. f[k] \in Nat /\ i \in Nat /\ f[k] < i
            BY <1>2, <2>1, <2>2
        <3>4. f[k] + 1 = i
            BY <3>2, <3>3
        <3> QED BY <3>4
    <2> QED BY <2>3, <2>4
<1>9. Ascends(g, N, TokenStarts(s))
    <2>1. \A i, j \in 1..N : i < j => f[i] < f[j]
        BY <1>1, <1>4 DEF Ascends
    <2>2. \A i, j \in 1..N : i < j => f[i] + 1 < f[j] + 1
        BY <1>2, <2>1
    <2>3. TokenStarts(s) \in SUBSET Nat
        BY <1>6
    <2>4. g \in [1..N -> TokenStarts(s)]
        BY <1>7
    <2>5. \A i \in 1..N : g[i] = f[i] + 1
        OBVIOUS
    <2> HIDE DEF g
    <2> QED BY <1>4, <1>8, <2>2, <2>3, <2>4, <2>5 DEF Ascends
<1>10. ASSUME NEW k \in 1..N PROVE EndsToken(s, g[k], e[k])
    <2>1. g[k] = f[k] + 1 /\ e[k] = f[k + 1] - 1
        OBVIOUS
    <2> DEFINE a == f[k]
               b == f[k + 1]
    <2>2. a \in Nat /\ b \in Nat /\ a + 2 <= b /\ b <= L + 1 /\ \A i \in 1..L : a < i /\ i < b => s[i] # "/"
        BY <1>2, <1>5
    <2>3. b = L + 1 \/ s[b] = "/"
        <3>1. CASE k = N
            BY <1>2, <1>4, <3>1
        <3>2. CASE k # N
            <4>1. k + 1 \in 2..N
                BY <1>4, <3>2
            <4> QED BY <1>2, <4>1
        <3> QED BY <3>1, <3>2
    <2> HIDE DEF a, b
    <2>4. b - 1 \in a + 1..L /\ (\A i \in a + 1..b - 1 : s[i] # "/") /\ (b - 1) + 1 = b /\ (b = L + 1 => b - 1 = L)
        BY <1>2, <2>2
    <2>5. EndsToken(s, a + 1, b - 1)
        BY <2>3, <2>4 DEF EndsToken, L
    <2> QED BY <2>1, <2>5 DEF a, b
<1>11. Tokens(s) = [k \in 1..N |-> SubSeq(s, g[k], e[k])]
    <2> HIDE DEF g, e
    <2>1. TokensAt(s, g, e, N)
        BY <1>9, <1>10 DEF TokensAt
    <2> QED BY <2>1, TokensAre
<1>12. Levels(s) = [k \in 1..N |-> SubSeq(s, f[k] + 1, f[k + 1] - 1)]
    <2>1. Ascending(Bounds(s)) = f /\ Len(f) = n
        BY <1>1, AscendingIs
    <2> QED BY <2>1 DEF Levels, N
<1> QED BY <1>11, <1>12

-----------------------------------------------------------------------------
(* A '/' more or less *)

\* r is s without its i-th character.
Without(r, s, i) ==
    /\ Len(s) \in Nat /\ i \in 1..Len(s) /\ Len(r) = Len(s) - 1
    /\ \A x \in 1..Len(s) - 1 : r[x] = IF x < i THEN s[x] ELSE s[x + 1]

LEMMA RemoveAtIs ==
    ASSUME NEW C, NEW s \in Seq(C), NEW i \in 1..Len(s)
    PROVE  RemoveAt(s, i) \in Seq(C) /\ Without(RemoveAt(s, i), s, i)
<1> DEFINE L == Len(s)
           p == SubSeq(s, 0 + 1, i - 1)
           q == SubSeq(s, i + 1, L)
<1>1. L \in Nat /\ i \in 1..L
    BY LenProperties
<1>2. Part(p, s, 0, (i - 1) - 0) /\ Part(q, s, i, L - i)
    <2>1. 0 \in Nat /\ i - 1 \in Nat /\ 0 <= i - 1 /\ i - 1 <= L /\ i \in Nat /\ i <= L
        BY <1>1
    <2>2. \A a, b \in Nat : a <= b /\ b <= L => Part(SubSeq(s, a + 1, b), s, a, b - a)
        BY PartOf
    <2> QED BY <1>1, <2>1, <2>2
<1>3. \A x \in 1..L : s[x] \in C
    BY ElementOfSeq
<1>4. p \in Seq(C) /\ Len(p) = i - 1 /\ \A x \in 1..i - 1 : p[x] = s[x]
    <2> HIDE DEF p, L
    <2>1. p = [x \in 1..i - 1 |-> s[x]]
        BY <1>1, <1>2 DEF Part
    <2>2. i - 1 \in Nat /\ \A x \in 1..i - 1 : x \in 1..L
        BY <1>1
    <2> QED BY <1>3, <2>1, <2>2
<1>5. q \in Seq(C) /\ Len(q) = L - i /\ \A x \in 1..L - i : q[x] = s[i + x]
    <2> HIDE DEF q, L
    <2>1. q = [x \in 1..L - i |-> s[i + x]]
        BY <1>1, <1>2 DEF Part
    <2>2. L - i \in Nat /\ \A x \in 1..L - i : i + x \in 1..L
        BY <1>1
    <2> QED BY <1>3, <2>1, <2>2
<1>6. RemoveAt(s, i) = p \o q
    <2>1. 0 + 1 = 1
        OBVIOUS
    <2> QED BY <2>1 DEF RemoveAt
<1> HIDE DEF p, q, L
<1>7. /\ p \o q \in Seq(C) /\ Len(p \o q) = Len(p) + Len(q)
      /\ \A x \in 1..Len(p) + Len(q) : (p \o q)[x] = IF x <= Len(p) THEN p[x] ELSE q[x - Len(p)]
    <2>1. \A u, v \in Seq(C) :
              /\ u \o v \in Seq(C) /\ Len(u \o v) = Len(u) + Len(v)
              /\ \A x \in 1..Len(u) + Len(v) : (u \o v)[x] = IF x <= Len(u) THEN u[x] ELSE v[x - Len(u)]
        BY ConcatProperties
    <2> QED BY <1>4, <1>5, <2>1, Zenon
<1>8. Len(p) = i - 1 /\ Len(p) + Len(q) = L - 1
    BY <1>1, <1>4, <1>5
<1>9. ASSUME NEW x \in 1..L - 1 PROVE (p \o q)[x] = IF x < i THEN s[x] ELSE s[x + 1]
    <2>1. CASE x < i
        <3>1. x \in 1..i - 1
            BY <1>1, <2>1
        <3>2. x <= i - 1
            BY <3>1
        <3>3. x \in 1..Len(p) + Len(q) /\ x <= Len(p)
            BY <1>8, <3>2
        <3>4. (p \o q)[x] = p[x]
            BY <1>7, <3>3
        <3> QED BY <1>4, <2>1, <3>1, <3>4
    <2>2. CASE ~(x < i)
        <3>1. x - (i - 1) \in 1..L - i /\ i + (x - (i - 1)) = x + 1 /\ ~(x <= i - 1)
            BY <1>1, <2>2
        <3>2. x \in 1..Len(p) + Len(q) /\ ~(x <= Len(p)) /\ x - Len(p) = x - (i - 1)
            BY <1>8, <3>1
        <3>3. (p \o q)[x] = q[x - (i - 1)]
            BY <1>7, <3>2
        <3> QED BY <1>5, <2>2, <3>1, <3>3
    <2> QED BY <2>1, <2>2
<1> QED BY <1>1, <1>6, <1>7, <1>8, <1>9 DEF Without, L

\* Where the x-th character of the longer string is in the shorter one.
Moved(x, i) == IF x < i THEN x ELSE x - 1

LEMMA MovedChar ==
    ASSUME NEW r, NEW s, NEW i, Without(r, s, i), NEW x \in 1..Len(s), x # i
    PROVE  Moved(x, i) \in 1..Len(r) /\ r[Moved(x, i)] = s[x]
<1> DEFINE L == Len(s)
<1>1. L \in Nat /\ i \in 1..L /\ Len(r) = L - 1 /\ \A y \in 1..L - 1 : r[y] = IF y < i THEN s[y] ELSE s[y + 1]
    BY DEF Without
<1> HIDE DEF L
<1>2. x \in 1..L
    BY DEF L
<1>3. CASE x < i
    <2>1. x \in 1..L - 1 /\ Moved(x, i) = x
        BY <1>1, <1>2, <1>3 DEF Moved
    <2> QED BY <1>1, <1>3, <2>1
<1>4. CASE ~(x < i)
    <2>1. x - 1 \in 1..L - 1 /\ ~(x - 1 < i) /\ (x - 1) + 1 = x /\ Moved(x, i) = x - 1
        BY <1>1, <1>2, <1>4 DEF Moved
    <2> QED BY <1>1, <2>1
<1> QED BY <1>3, <1>4

\* The '/' has another before or behind it, or an end of the string.
Doubled(s, i) == s[i] = "/" /\ (i = 1 \/ i = Len(s) \/ s[i - 1] = "/" \/ s[i + 1] = "/")

LEMMA StartsMove ==
    ASSUME NEW C, NEW s \in Seq(C), NEW r \in Seq(C), NEW i, Without(r, s, i), Doubled(s, i)
    PROVE  /\ \A x \in TokenStarts(s) : x # i /\ Moved(x, i) \in TokenStarts(r)
           /\ \A y \in TokenStarts(r) : \E x \in TokenStarts(s) : y = Moved(x, i)
<1> DEFINE L == Len(s)
<1>1. L \in Nat /\ i \in 1..L /\ Len(r) = L - 1 /\ \A y \in 1..L - 1 : r[y] = IF y < i THEN s[y] ELSE s[y + 1]
    BY DEF Without
<1>2. /\ TokenStarts(s) = {x \in 1..L : s[x] # "/" /\ (x = 1 \/ s[x - 1] = "/")}
      /\ TokenStarts(r) = {x \in 1..L - 1 : r[x] # "/" /\ (x = 1 \/ r[x - 1] = "/")}
    BY <1>1, StartsIn
<1>3. s[i] = "/" /\ (i = 1 \/ i = L \/ s[i - 1] = "/" \/ s[i + 1] = "/")
    BY DEF Doubled
<1> HIDE DEF L
<1>4. ASSUME NEW x \in TokenStarts(s) PROVE x # i /\ Moved(x, i) \in TokenStarts(r)
    <2>1. x \in 1..L /\ s[x] # "/" /\ (x = 1 \/ s[x - 1] = "/")
        BY <1>2
    <2>2. x # i
        BY <1>3, <2>1
    <2>3. Moved(x, i) \in 1..L - 1 /\ r[Moved(x, i)] = s[x]
        BY <1>1, <2>1, <2>2, MovedChar DEF L
    <2>4. CASE x < i
        <3>1. Moved(x, i) = x
            BY <2>4 DEF Moved
        <3>2. CASE x = 1
            BY <1>2, <2>1, <2>2, <2>3, <3>1, <3>2
        <3>3. CASE x # 1
            <4>1. x - 1 \in 1..L - 1 /\ x - 1 < i
                BY <1>1, <2>1, <2>4, <3>3
            <4>2. r[x - 1] = s[x - 1]
                BY <1>1, <4>1
            <4> QED BY <1>2, <2>1, <2>2, <2>3, <3>1, <3>3, <4>2
        <3> QED BY <3>2, <3>3
    <2>5. CASE x = i + 1
        <3>1. Moved(x, i) = i
            BY <1>1, <2>5 DEF Moved
        <3>2. CASE i = 1
            BY <1>2, <2>1, <2>2, <2>3, <3>1, <3>2
        <3>3. CASE i # 1
            <4>1. i - 1 \in 1..L - 1 /\ i - 1 < i
                BY <1>1, <3>3
            <4>2. s[i - 1] = "/"
                BY <1>1, <1>3, <2>1, <2>5, <3>3
            <4>3. r[i - 1] = s[i - 1]
                BY <1>1, <4>1
            <4> QED BY <1>2, <2>1, <2>2, <2>3, <3>1, <4>2, <4>3
        <3> QED BY <3>2, <3>3
    <2>6. CASE x > i + 1
        <3>1. /\ Moved(x, i) = x - 1 /\ (x - 1) - 1 \in 1..L - 1 /\ ~((x - 1) - 1 < i)
              /\ ((x - 1) - 1) + 1 = x - 1 /\ x # 1
            BY <1>1, <2>1, <2>6 DEF Moved
        <3>2. r[(x - 1) - 1] = "/"
            BY <1>1, <2>1, <3>1
        <3> QED BY <1>2, <2>1, <2>2, <2>3, <3>1, <3>2
    <2> QED BY <1>1, <2>1, <2>2, <2>4, <2>5, <2>6
<1>5. ASSUME NEW y \in TokenStarts(r) PROVE \E x \in TokenStarts(s) : y = Moved(x, i)
    <2>1. y \in 1..L - 1 /\ r[y] # "/" /\ (y = 1 \/ r[y - 1] = "/")
        BY <1>2
    <2>2. CASE y < i
        <3>1. y \in 1..L /\ y = Moved(y, i) /\ s[y] # "/"
            BY <1>1, <2>1, <2>2 DEF Moved
        <3>2. y = 1 \/ s[y - 1] = "/"
            <4>1. y # 1 => y - 1 \in 1..L - 1 /\ y - 1 < i
                BY <2>1, <2>2, <1>1
            <4> QED BY <1>1, <2>1, <4>1
        <3> QED BY <1>2, <3>1, <3>2
    <2>3. CASE ~(y < i)
        <3>1. y + 1 \in 1..L /\ y = Moved(y + 1, i) /\ s[y + 1] # "/" /\ (y + 1) - 1 = y
            BY <1>1, <2>1, <2>3 DEF Moved
        <3>2. s[y] = "/"
            <4>1. CASE y = i
                BY <1>3, <4>1
            <4>2. CASE y # i
                <5>1. y - 1 \in 1..L - 1 /\ ~(y - 1 < i) /\ (y - 1) + 1 = y /\ y # 1
                    BY <1>1, <2>1, <2>3, <4>2
                <5> QED BY <1>1, <2>1, <5>1
            <4> QED BY <4>1, <4>2
        <3> QED BY <1>2, <3>1, <3>2
    <2> QED BY <2>2, <2>3
<1> QED BY <1>4, <1>5

TokenMoves(r, s, i, x, e) ==
    /\ EndsToken(r, Moved(x, i), Moved(e, i))
    /\ SubSeq(r, Moved(x, i), Moved(e, i)) = SubSeq(s, x, e)

LEMMA EndsMove ==
    ASSUME NEW C, NEW s \in Seq(C), NEW r \in Seq(C), NEW i, Without(r, s, i), Doubled(s, i),
           NEW x \in TokenStarts(s), NEW e, EndsToken(s, x, e)
    PROVE  TokenMoves(r, s, i, x, e)
<1> DEFINE L == Len(s)
<1>1. L \in Nat /\ i \in 1..L /\ Len(r) = L - 1 /\ \A y \in 1..L - 1 : r[y] = IF y < i THEN s[y] ELSE s[y + 1]
    BY DEF Without
<1>2. x \in 1..L
    BY StartsIn
<1>3. s[i] = "/" /\ (i = 1 \/ i = L \/ s[i - 1] = "/" \/ s[i + 1] = "/")
    BY DEF Doubled
<1>4. e \in x..L /\ (\A k \in x..e : s[k] # "/") /\ (e = L \/ s[e + 1] = "/")
    BY DEF EndsToken
<1> HIDE DEF L
<1>5. e < i \/ i < x
    BY <1>1, <1>2, <1>3, <1>4
<1>6. PICK d \in {0, 1} : /\ Moved(x, i) = x - d /\ Moved(e, i) = e - d
                          /\ x - d >= 1 /\ e - d <= L - 1
                          /\ \A k \in x - d..e - d : r[k] = s[k + d]
                          /\ e - d = L - 1 \/ r[(e - d) + 1] = "/"
    <2>1. CASE e < i
        <3>1. Moved(x, i) = x - 0 /\ Moved(e, i) = e - 0 /\ x - 0 >= 1 /\ e - 0 <= L - 1
            BY <1>1, <1>2, <1>4, <2>1 DEF Moved
        <3>2. ASSUME NEW k \in x - 0..e - 0 PROVE r[k] = s[k + 0]
            <4>1. k \in 1..L - 1 /\ k < i /\ k + 0 = k
                BY <1>1, <1>2, <1>4, <2>1
            <4> QED BY <1>1, <4>1
        <3>3. e - 0 = L - 1 \/ r[(e - 0) + 1] = "/"
            <4>1. CASE e = L - 1
                BY <4>1
            <4>2. CASE e # L - 1 /\ e + 1 = i
                <5>1. s[i - 1] # "/" /\ i # 1 /\ i # L
                    BY <1>1, <1>2, <1>4, <4>2
                <5>2. s[i + 1] = "/"
                    BY <1>3, <5>1
                <5>3. i \in 1..L - 1 /\ ~(i < i) /\ (e - 0) + 1 = i
                    BY <1>1, <1>2, <1>4, <4>2
                <5> QED BY <1>1, <5>2, <5>3
            <4>3. CASE e # L - 1 /\ e + 1 # i
                <5>1. e + 1 \in 1..L - 1 /\ e + 1 < i /\ (e - 0) + 1 = e + 1 /\ e # L
                    BY <1>1, <1>2, <1>4, <2>1, <4>3
                <5> QED BY <1>1, <1>4, <5>1
            <4> QED BY <4>1, <4>2, <4>3
        <3> QED BY <3>1, <3>2, <3>3
    <2>2. CASE i < x
        <3>1. Moved(x, i) = x - 1 /\ Moved(e, i) = e - 1 /\ x - 1 >= 1 /\ e - 1 <= L - 1
            BY <1>1, <1>2, <1>4, <2>2 DEF Moved
        <3>2. ASSUME NEW k \in x - 1..e - 1 PROVE r[k] = s[k + 1]
            <4>1. k \in 1..L - 1 /\ ~(k < i)
                BY <1>1, <1>2, <1>4, <2>2
            <4> QED BY <1>1, <4>1
        <3>3. e - 1 = L - 1 \/ r[(e - 1) + 1] = "/"
            <4>1. CASE e = L
                BY <1>1, <4>1
            <4>2. CASE e # L
                <5>1. e \in 1..L - 1 /\ ~(e < i) /\ (e - 1) + 1 = e
                    BY <1>1, <1>2, <1>4, <2>2, <4>2
                <5> QED BY <1>1, <1>4, <4>2, <5>1
            <4> QED BY <4>1, <4>2
        <3> QED BY <3>1, <3>2, <3>3
    <2> QED BY <1>5, <2>1, <2>2
<1>7. EndsToken(r, x - d, e - d)
    <2>1. e - d \in x - d..L - 1
        BY <1>1, <1>2, <1>4, <1>6
    <2>2. ASSUME NEW k \in x - d..e - d PROVE r[k] # "/"
        <3>1. k + d \in x..e
            BY <1>1, <1>2, <1>4, <1>6
        <3>2. r[k] = s[k + d]
            BY <1>6
        <3> QED BY <1>4, <3>1, <3>2
    <2> QED BY <1>1, <1>6, <2>1, <2>2 DEF EndsToken
<1>8. SubSeq(r, x - d, e - d) = SubSeq(s, x, e)
    <2> DEFINE a == (x - d) - 1
               b == x - 1
               n == e - b
    <2>1. /\ a \in Nat /\ e - d \in Nat /\ a <= e - d /\ e - d <= L - 1
          /\ b \in Nat /\ e \in Nat /\ b <= e /\ e <= L
          /\ a + 1 = x - d /\ b + 1 = x /\ (e - d) - a = n
        BY <1>1, <1>2, <1>4, <1>6
    <2>2. \A j, k \in Nat : j <= k /\ k <= L => Part(SubSeq(s, j + 1, k), s, j, k - j)
        BY PartOf DEF L
    <2>3. \A j, k \in Nat : j <= k /\ k <= L - 1 => Part(SubSeq(r, j + 1, k), r, j, k - j)
        BY <1>1, PartOf
    <2>4. \A y \in 1..n : r[a + y] = s[b + y]
        <3> SUFFICES ASSUME NEW y \in 1..n PROVE r[a + y] = s[b + y]
            OBVIOUS
        <3>1. a + y \in x - d..e - d /\ (a + y) + d = b + y
            BY <1>1, <1>2, <1>4, <1>6
        <3>2. r[a + y] = s[(a + y) + d]
            BY <1>6, <3>1
        <3> QED BY <3>1, <3>2
    <2> HIDE DEF a, b, n
    <2>5. Part(SubSeq(s, b + 1, e), s, b, e - b)
        BY <2>1, <2>2
    <2>6. Part(SubSeq(r, a + 1, e - d), r, a, (e - d) - a)
        BY <2>1, <2>3
    <2>7. SubSeq(s, x, e) = [y \in 1..n |-> s[b + y]]
        BY <2>1, <2>5 DEF Part, n
    <2>8. SubSeq(r, x - d, e - d) = [y \in 1..n |-> r[a + y]]
        BY <2>1, <2>6 DEF Part
    <2> QED BY <2>4, <2>7, <2>8
<1> QED BY <1>6, <1>7, <1>8 DEF TokenMoves

\* strtok_r does not see it.
LEMMA TokensMerge ==
    ASSUME NEW C, NEW s \in Seq(C), NEW r \in Seq(C), NEW i, Without(r, s, i), Doubled(s, i)
    PROVE  Tokens(r) = Tokens(s)
<1>1. PICK n, g, e : TokensAt(s, g, e, n)
    BY TokensExist
<1> DEFINE h == [k \in 1..n |-> Moved(g[k], i)]
           d == [k \in 1..n |-> Moved(e[k], i)]
<1>2. /\ n \in Nat /\ g \in [1..n -> TokenStarts(s)] /\ TokenStarts(s) \in SUBSET Nat
      /\ \A j, k \in 1..n : j < k => g[j] < g[k]
      /\ \A x \in TokenStarts(s) : \E k \in 1..n : g[k] = x
      /\ \A k \in 1..n : EndsToken(s, g[k], e[k])
    BY <1>1 DEF TokensAt, Ascends
<1>3. /\ \A x \in TokenStarts(s) : x # i /\ Moved(x, i) \in TokenStarts(r)
      /\ \A y \in TokenStarts(r) : \E x \in TokenStarts(s) : y = Moved(x, i)
    BY StartsMove
<1>4. TokenStarts(r) \in SUBSET Nat /\ i \in Nat
    <2>1. i \in Nat
        BY DEF Without
    <2> QED BY <2>1, StartsIn
<1>5. Ascends(h, n, TokenStarts(r))
    <2>1. h \in [1..n -> TokenStarts(r)]
        BY <1>2, <1>3
    <2>2. ASSUME NEW j \in 1..n, NEW k \in 1..n, j < k PROVE h[j] < h[k]
        <3>1. g[j] \in Nat /\ g[k] \in Nat /\ g[j] < g[k] /\ g[j] # i /\ g[k] # i
            BY <1>2, <1>3, <2>2
        <3>2. Moved(g[j], i) < Moved(g[k], i)
            BY <1>4, <3>1 DEF Moved
        <3> QED BY <3>2
    <2>3. ASSUME NEW y \in TokenStarts(r) PROVE \E k \in 1..n : h[k] = y
        <3>1. PICK x \in TokenStarts(s) : y = Moved(x, i)
            BY <1>3
        <3>2. PICK k \in 1..n : g[k] = x
            BY <1>2
        <3> QED BY <3>1, <3>2
    <2> HIDE DEF h
    <2> QED BY <1>2, <1>4, <2>1, <2>2, <2>3 DEF Ascends
<1>6. ASSUME NEW k \in 1..n
      PROVE  EndsToken(r, h[k], d[k]) /\ SubSeq(r, h[k], d[k]) = SubSeq(s, g[k], e[k])
    <2>1. g[k] \in TokenStarts(s) /\ EndsToken(s, g[k], e[k])
        BY <1>2
    <2>2. TokenMoves(r, s, i, g[k], e[k])
        BY <2>1, EndsMove
    <2> QED BY <2>2 DEF TokenMoves
<1> HIDE DEF h, d
<1>7. TokensAt(r, h, d, n)
    BY <1>5, <1>6 DEF TokensAt
<1>8. Tokens(r) = [k \in 1..n |-> SubSeq(r, h[k], d[k])] /\ Tokens(s) = [k \in 1..n |-> SubSeq(s, g[k], e[k])]
    BY <1>1, <1>7, TokensAre
<1> QED BY <1>6, <1>8

-----------------------------------------------------------------------------
(* A '/' more or less is not seen *)

\* Reverse, place by place.
Reversed(r, s) == /\ Len(s) \in Nat /\ Len(r) = Len(s)
                  /\ \A x \in 1..Len(s) : r[x] = s[(Len(s) - x) + 1]

LEMMA ReverseIs ==
    ASSUME NEW C, NEW s \in Seq(C)
    PROVE  Reverse(s) \in Seq(C) /\ Reversed(Reverse(s), s)
<1>1. Len(s) \in Nat /\ \A x \in 1..Len(s) : s[x] \in C
    BY LenProperties, ElementOfSeq
<1> DEFINE L == Len(s)
           r == [x \in 1..L |-> s[(L - x) + 1]]
<1>2. Reverse(s) = r
    BY DEF Reverse
<1>3. \A x \in 1..L : (L - x) + 1 \in 1..L
    BY <1>1
<1>4. r \in Seq(C) /\ Len(r) = L
    <2> HIDE DEF L
    <2>1. L \in Nat /\ \A x \in 1..L : s[(L - x) + 1] \in C
        BY <1>1, <1>3 DEF L
    <2> QED BY <2>1
<1>5. \A x \in 1..L : r[x] = s[(L - x) + 1]
    OBVIOUS
<1> QED BY <1>1, <1>2, <1>4, <1>5 DEF Reversed

LEMMA ReverseWithout ==
    ASSUME NEW s, NEW r, NEW i, Without(r, s, i), NEW a, NEW b, Reversed(a, r), Reversed(b, s),
           Doubled(s, i), i = Len(s) \/ s[i + 1] = "/"
    PROVE  Without(a, b, (Len(s) - i) + 1) /\ Doubled(b, (Len(s) - i) + 1)
<1> DEFINE L == Len(s)
           j == (L - i) + 1
<1>1. L \in Nat /\ i \in 1..L /\ Len(r) = L - 1 /\ \A x \in 1..L - 1 : r[x] = IF x < i THEN s[x] ELSE s[x + 1]
    BY DEF Without
<1>2. Len(b) = L /\ \A x \in 1..L : b[x] = s[(L - x) + 1]
    BY DEF Reversed
<1>3. Len(a) = L - 1 /\ \A x \in 1..L - 1 : a[x] = r[((L - 1) - x) + 1]
    BY <1>1 DEF Reversed
<1>4. s[i] = "/" /\ (i = L \/ s[i + 1] = "/")
    BY DEF Doubled
<1> HIDE DEF L
<1>5. j \in 1..L /\ (L - j) + 1 = i
    BY <1>1
<1>6. ASSUME NEW x \in 1..L - 1 PROVE a[x] = IF x < j THEN b[x] ELSE b[x + 1]
    <2> DEFINE y == ((L - 1) - x) + 1
    <2>1. y \in 1..L - 1 /\ x \in 1..L /\ x + 1 \in 1..L /\ (L - x) + 1 = y + 1 /\ (L - (x + 1)) + 1 = y
        BY <1>1
    <2>2. y < i <=> ~(x < j)
        BY <1>1
    <2>3. a[x] = r[y]
        BY <1>3
    <2> HIDE DEF y, j
    <2>4. b[x] = s[y + 1] /\ b[x + 1] = s[y]
        BY <1>2, <2>1
    <2>5. r[y] = IF y < i THEN s[y] ELSE s[y + 1]
        BY <1>1, <2>1
    <2> QED BY <2>2, <2>3, <2>4, <2>5
<1>7. b[j] = "/" /\ (j = 1 \/ b[j - 1] = "/")
    <2>1. b[j] = s[i]
        <3> HIDE DEF j
        <3> QED BY <1>2, <1>5
    <2>2. CASE i = L
        <3>1. j = 1
            BY <1>1, <2>2
        <3> QED BY <1>4, <2>1, <3>1
    <2>3. CASE i # L
        <3>1. j - 1 \in 1..L /\ (L - (j - 1)) + 1 = i + 1
            BY <1>1, <2>3
        <3> HIDE DEF j
        <3>2. b[j - 1] = s[i + 1]
            BY <1>2, <3>1
        <3> QED BY <1>4, <2>1, <2>3, <3>2
    <2> QED BY <2>2, <2>3
<1> HIDE DEF j
<1>8. Without(a, b, j) /\ Doubled(b, j)
    BY <1>1, <1>2, <1>3, <1>5, <1>6, <1>7 DEF Without, Doubled
<1> QED BY <1>8 DEF j, L

\* The shorter string has the same characters but '/'.
LEMMA SameWildcards ==
    ASSUME NEW C, NEW s \in Seq(C), NEW r \in Seq(C), NEW i, Without(r, s, i), s[i] = "/"
    PROVE  Topics_hasWildcards(r) <=> Topics_hasWildcards(s)
<1>1. /\ Len(s) \in Nat /\ i \in 1..Len(s) /\ Len(r) = Len(s) - 1
      /\ \A x \in 1..Len(s) - 1 : r[x] = IF x < i THEN s[x] ELSE s[x + 1]
    BY DEF Without
<1>2. DOMAIN s = 1..Len(s) /\ DOMAIN r = 1..Len(s) - 1
    BY <1>1, LenProperties
<1>3. ASSUME NEW c, c # "/", NEW x \in 1..Len(s), s[x] = c
      PROVE  \E y \in 1..Len(s) - 1 : r[y] = c
    <2>1. x # i
        BY <1>3
    <2>2. Moved(x, i) \in 1..Len(r) /\ r[Moved(x, i)] = s[x]
        BY <2>1, MovedChar
    <2> QED BY <1>1, <1>3, <2>2
<1>4. ASSUME NEW c, NEW y \in 1..Len(s) - 1, r[y] = c
      PROVE  \E x \in 1..Len(s) : s[x] = c
    <2>1. y \in 1..Len(s) /\ y + 1 \in 1..Len(s)
        BY <1>1
    <2> QED BY <1>1, <1>4, <2>1
<1>5. \A c : c # "/" => (HasChar(r, c) <=> HasChar(s, c))
    BY <1>2, <1>3, <1>4 DEF HasChar, Positions
<1>6. \A p \in {r, s} : Topics_hasWildcards(p) <=> HasChar(p, "+") \/ HasChar(p, "#")
    BY DEF Topics_hasWildcards, HasChar
<1>7. "+" # "/" /\ "#" # "/"
    OBVIOUS
<1> QED BY <1>5, <1>6, <1>7

LEMMA SameFirst ==
    ASSUME NEW C, NEW s \in Seq(C), NEW r \in Seq(C), NEW i, Without(r, s, i), i > 1
    PROVE  First(r) = First(s)
<1>1. /\ Len(s) \in Nat /\ i \in 1..Len(s) /\ Len(r) = Len(s) - 1
      /\ \A x \in 1..Len(s) - 1 : r[x] = IF x < i THEN s[x] ELSE s[x + 1]
    BY DEF Without
<1>2. 1 \in 1..Len(s) - 1 /\ Len(s) # 0 /\ Len(r) # 0
    BY <1>1
<1>3. r[1] = s[1]
    BY <1>1, <1>2
<1>4. r # <<>> /\ s # <<>>
    BY <1>2
<1> QED BY <1>3, <1>4 DEF First

LEMMA SameWalk ==
    ASSUME NEW C, NEW s \in Seq(C), NEW r \in Seq(C), NEW i, Without(r, s, i), NEW w,
           Doubled(s, i), i = Len(s) \/ s[i + 1] = "/"
    PROVE  Walk(w, r) = Walk(w, s)
<1>1. Tokens(r) = Tokens(s)
    BY TokensMerge
<1>2. Tokens(Reverse(r)) = Tokens(Reverse(s))
    <2>1. /\ Reverse(s) \in Seq(C) /\ Reversed(Reverse(s), s)
          /\ Reverse(r) \in Seq(C) /\ Reversed(Reverse(r), r)
        BY ReverseIs
    <2>2. Without(Reverse(r), Reverse(s), (Len(s) - i) + 1) /\ Doubled(Reverse(s), (Len(s) - i) + 1)
        BY <2>1, ReverseWithout
    <2> QED BY <2>1, <2>2, TokensMerge
<1> QED BY <1>1, <1>2 DEF Walk

-----------------------------------------------------------------------------
(* The state *)

MatchTypeOK == /\ wildTopic \in Seq(Letters \cup {"/", "+", "#"})
               /\ topicName \in Seq(Letters \cup {"/", "$"})

LEMMA MatchTypes == MatchSpec => []MatchTypeOK
<1>1. MatchInit => MatchTypeOK
    BY DEF MatchInit, MatchTypeOK
<1>2. MatchTypeOK /\ [MatchNext]_matchVars => MatchTypeOK'
    <2> SUFFICES ASSUME MatchTypeOK, [MatchNext]_matchVars PROVE MatchTypeOK'
        OBVIOUS
    <2>0. <<>> \in Seq(Letters \cup {"/", "+", "#"}) /\ <<>> \in Seq(Letters \cup {"/", "$"})
        OBVIOUS
    <2>1. CASE TypeFilter
        <3>1. PICK c \in Letters \cup {"/", "+", "#"} : wildTopic' = Append(wildTopic, c)
            BY <2>1 DEF TypeFilter
        <3>2. Append(wildTopic, c) \in Seq(Letters \cup {"/", "+", "#"})
            BY AppendProperties DEF MatchTypeOK
        <3> QED BY <2>1, <3>1, <3>2 DEF TypeFilter, MatchTypeOK
    <2>2. CASE TypeTopic
        <3>1. PICK c \in Letters \cup {"/", "$"} : topicName' = Append(topicName, c)
            BY <2>2 DEF TypeTopic
        <3>2. Append(topicName, c) \in Seq(Letters \cup {"/", "$"})
            BY AppendProperties DEF MatchTypeOK
        <3> QED BY <2>2, <3>1, <3>2 DEF TypeTopic, MatchTypeOK
    <2>3. CASE Anew
        BY <2>0, <2>3 DEF Anew, MatchTypeOK
    <2>4. CASE UNCHANGED matchVars
        BY <2>4 DEF matchVars, MatchTypeOK
    <2> QED BY <2>1, <2>2, <2>3, <2>4 DEF MatchNext
<1> QED BY <1>1, <1>2, PTL DEF MatchSpec

\* Whatever is typed in, Topics_matches does not see a '/' before another or at the end.
THEOREM SlashesMerged == MatchSpec => []SlashesMerge
<1>1. MatchTypeOK => SlashesMerge
    <2> SUFFICES ASSUME MatchTypeOK, NEW i \in Positions(topicName, "/"),
                        i > 1, i = Len(topicName) \/ topicName[i + 1] = "/",
                        wildTopic \notin {topicName, RemoveAt(topicName, i)}
                 PROVE  Topics_matches(wildTopic, topicName) <=> Topics_matches(wildTopic, RemoveAt(topicName, i))
        BY DEF SlashesMerge
    <2> DEFINE C == Letters \cup {"/", "$"}
               r == RemoveAt(topicName, i)
    <2>1. topicName \in Seq(C)
        BY DEF MatchTypeOK
    <2> HIDE DEF C
    <2>2. i \in 1..Len(topicName) /\ topicName[i] = "/"
        BY <2>1, LenProperties DEF Positions
    <2>3. r \in Seq(C) /\ Without(r, topicName, i)
        BY <2>1, <2>2, RemoveAtIs
    <2> HIDE DEF r
    <2>4. Doubled(topicName, i)
        BY <2>2 DEF Doubled
    <2>5. Topics_hasWildcards(r) <=> Topics_hasWildcards(topicName)
        BY <2>1, <2>2, <2>3, SameWildcards
    <2>6. First(r) = First(topicName)
        BY <2>1, <2>3, SameFirst
    <2>7. Walk(wildTopic, r) = Walk(wildTopic, topicName)
        BY <2>1, <2>3, <2>4, SameWalk
    <2>8. wildTopic # topicName /\ wildTopic # r
        BY DEF r
    <2>9. Topics_matches(wildTopic, topicName) <=> Topics_matches(wildTopic, r)
        BY <2>5, <2>6, <2>7, <2>8 DEF Topics_matches
    <2> QED BY <2>9 DEF r
<1> QED BY <1>1, MatchTypes, PTL

-----------------------------------------------------------------------------
(* Level by level *)

\* The levels from i to j are there and fit.
FitFrom(ws, ts, i, j) == \A n \in i..j : n <= Len(ts) /\ LevelFits(ws[n], ts[n])

\* What Steps finds from the k-th level on.
FoundFrom(ws, ts, k) ==
    /\ k > Len(ws) => k > Len(ts)
    /\ k <= Len(ws) /\ ws[Len(ws)] = <<"#">> => FitFrom(ws, ts, k, Len(ws) - 1)
    /\ k <= Len(ws) /\ ws[Len(ws)] # <<"#">> => FitFrom(ws, ts, k, Len(ws)) /\ Len(ts) <= Len(ws)

\* One step, with what the next one finds.
OneStep(ws, ts, k, next) ==
    IF k > Len(ws) THEN k > Len(ts)
    ELSE ws[k] = <<"#">> \/ (k <= Len(ts) /\ ws[k] \in {<<"+">>, ts[k]} /\ next)

HashLast(ws) == /\ Len(ws) \in Nat /\ Len(ws) >= 1 /\ DOMAIN ws = 1..Len(ws)
                /\ \A n \in 1..Len(ws) - 1 : ws[n] # <<"#">>

LEMMA FitStep ==
    ASSUME NEW ws, NEW ts, NEW j \in Nat, NEW k \in 1..j
    PROVE  FitFrom(ws, ts, k, j) <=> k <= Len(ts) /\ LevelFits(ws[k], ts[k]) /\ FitFrom(ws, ts, k + 1, j)
<1>1. k \in k..j /\ \A n \in k + 1..j : n \in k..j
    OBVIOUS
<1>2. \A n \in k..j : n = k \/ n \in k + 1..j
    OBVIOUS
<1> QED BY <1>1, <1>2 DEF FitFrom

LEMMA FoundStep ==
    ASSUME NEW ws, NEW ts, HashLast(ws), Len(ts) \in Nat, NEW k \in Nat \ {0}
    PROVE  FoundFrom(ws, ts, k) <=> OneStep(ws, ts, k, FoundFrom(ws, ts, k + 1))
<1> DEFINE n == Len(ws)
           m == Len(ts)
           Hash == ws[n] = <<"#">>
<1>1. n \in Nat /\ n >= 1 /\ m \in Nat /\ \A x \in 1..n - 1 : ws[x] # <<"#">>
    BY DEF HashLast
<1>2. \A x \in Nat : FoundFrom(ws, ts, x) <=> /\ x > n => x > m
                                              /\ x <= n /\ Hash => FitFrom(ws, ts, x, n - 1)
                                              /\ x <= n /\ ~Hash => FitFrom(ws, ts, x, n) /\ m <= n
    BY DEF FoundFrom
<1>3. OneStep(ws, ts, k, FoundFrom(ws, ts, k + 1)) <=>
          IF k > n THEN k > m
          ELSE ws[k] = <<"#">> \/ (k <= m /\ LevelFits(ws[k], ts[k]) /\ FoundFrom(ws, ts, k + 1))
    BY DEF OneStep, LevelFits
<1>4. \A j \in Nat : k <= j => (FitFrom(ws, ts, k, j) <=> k <= m /\ LevelFits(ws[k], ts[k]) /\ FitFrom(ws, ts, k + 1, j))
    BY FitStep
<1>5. \A i, j \in Int : j < i => FitFrom(ws, ts, i, j)
    BY DEF FitFrom
<1> HIDE DEF n, m, Hash
<1>6. CASE k > n
    BY <1>1, <1>2, <1>3, <1>6
<1>7. CASE k = n /\ Hash
    <2>1. ws[k] = <<"#">>
        BY <1>7 DEF Hash
    <2>2. FitFrom(ws, ts, k, n - 1)
        BY <1>1, <1>5, <1>7
    <2> QED BY <1>1, <1>2, <1>3, <1>7, <2>1, <2>2
<1>8. CASE k = n /\ ~Hash
    <2>1. ws[k] # <<"#">>
        BY <1>8 DEF Hash
    <2>2. FitFrom(ws, ts, k + 1, n)
        BY <1>1, <1>5, <1>8
    <2>3. FitFrom(ws, ts, k, n) <=> k <= m /\ LevelFits(ws[k], ts[k])
        BY <1>1, <1>4, <1>8, <2>2
    <2>4. FoundFrom(ws, ts, k + 1) <=> m <= n
        BY <1>1, <1>2, <1>8
    <2>5. FoundFrom(ws, ts, k) <=> FitFrom(ws, ts, k, n) /\ m <= n
        BY <1>1, <1>2, <1>8
    <2>6. ~(k > n)
        BY <1>1, <1>8
    <2> QED BY <1>3, <2>1, <2>3, <2>4, <2>5, <2>6
<1>9. CASE k < n
    <2>1. ws[k] # <<"#">> /\ ~(k > n)
        BY <1>1, <1>9
    <2>2. CASE Hash
        <3>1. FitFrom(ws, ts, k, n - 1) <=> k <= m /\ LevelFits(ws[k], ts[k]) /\ FitFrom(ws, ts, k + 1, n - 1)
            BY <1>1, <1>4, <1>9
        <3>2. FoundFrom(ws, ts, k) <=> FitFrom(ws, ts, k, n - 1)
            BY <1>1, <1>2, <1>9, <2>2
        <3>3. FoundFrom(ws, ts, k + 1) <=> FitFrom(ws, ts, k + 1, n - 1)
            BY <1>1, <1>2, <1>9, <2>2
        <3> QED BY <1>3, <2>1, <3>1, <3>2, <3>3
    <2>3. CASE ~Hash
        <3>1. FitFrom(ws, ts, k, n) <=> k <= m /\ LevelFits(ws[k], ts[k]) /\ FitFrom(ws, ts, k + 1, n)
            BY <1>1, <1>4, <1>9
        <3>2. FoundFrom(ws, ts, k) <=> FitFrom(ws, ts, k, n) /\ m <= n
            BY <1>1, <1>2, <1>9, <2>3
        <3>3. FoundFrom(ws, ts, k + 1) <=> FitFrom(ws, ts, k + 1, n) /\ m <= n
            BY <1>1, <1>2, <1>9, <2>3
        <3> QED BY <1>3, <2>1, <3>1, <3>2, <3>3
    <2> QED BY <2>2, <2>3
<1> QED BY <1>1, <1>6, <1>7, <1>8, <1>9

\* Steps is the first value of a function that takes these steps.
LEMMA StepsAre ==
    ASSUME NEW ws, NEW ts, HashLast(ws), Len(ts) \in Nat
    PROVE  \E f : /\ \A k \in Nat : f[k] = OneStep(ws, ts, k, f[k + 1])
                  /\ Steps(ws, ts) = f[1]
<1> DEFINE Equation(f) == [k \in Nat |->
               IF k > Len(ws) THEN k > Len(ts)
               ELSE \/ ws[k] = <<"#">>
                    \/ k <= Len(ts) /\ ws[k] \in {<<"+">>, ts[k]} /\ f[k + 1]]
           f0 == CHOOSE f : f = Equation(f)
           g == [k \in Nat |-> IF k = 0 THEN OneStep(ws, ts, 0, FoundFrom(ws, ts, 1)) ELSE FoundFrom(ws, ts, k)]
<1>1. \A f : \A k \in Nat : Equation(f)[k] = OneStep(ws, ts, k, f[k + 1])
    BY DEF OneStep
<1>2. g = Equation(g)
    <2>1. \A k \in Nat : g[k] = OneStep(ws, ts, k, g[k + 1])
        <3> SUFFICES ASSUME NEW k \in Nat PROVE g[k] = OneStep(ws, ts, k, g[k + 1])
            OBVIOUS
        <3>1. g[k + 1] = FoundFrom(ws, ts, k + 1)
            OBVIOUS
        <3>2. CASE k = 0
            BY <3>1, <3>2
        <3>3. CASE k # 0
            <4>1. FoundFrom(ws, ts, k) <=> OneStep(ws, ts, k, FoundFrom(ws, ts, k + 1))
                BY <3>3, FoundStep
            <4>2. g[k] = FoundFrom(ws, ts, k)
                BY <3>3
            <4> HIDE DEF g
            <4>3. FoundFrom(ws, ts, k) = OneStep(ws, ts, k, FoundFrom(ws, ts, k + 1))
                <5>1. FoundFrom(ws, ts, k) \in BOOLEAN
                    BY DEF FoundFrom
                <5>2. OneStep(ws, ts, k, FoundFrom(ws, ts, k + 1)) \in BOOLEAN
                    <6>1. CASE k > Len(ws)
                        <7>1. OneStep(ws, ts, k, FoundFrom(ws, ts, k + 1)) = (k > Len(ts))
                            BY <6>1, Zenon DEF OneStep
                        <7>2. (k > Len(ts)) \in BOOLEAN
                            OBVIOUS
                        <7> QED BY <7>1, <7>2, Zenon
                    <6>2. CASE ~(k > Len(ws))
                        BY <6>2, Zenon DEF OneStep
                    <6> QED BY <6>1, <6>2
                <5> QED BY <4>1, <5>1, <5>2
            <4> QED BY <3>1, <4>2, <4>3, Zenon
        <3> QED BY <3>2, <3>3
    <2> QED BY <1>1, <2>1
<1>3. f0 = Equation(f0)
    <2> HIDE DEF g, Equation
    <2> QED BY <1>2
<1>4. Steps(ws, ts) = f0[1]
    BY DEF Steps
<1>5. \A k \in Nat : f0[k] = OneStep(ws, ts, k, f0[k + 1])
    <2> HIDE DEF f0, Equation
    <2> QED BY <1>1, <1>3
<1> HIDE DEF f0
<1> QED BY <1>4, <1>5

LEMMA StepsFit ==
    ASSUME NEW ws, NEW ts, HashLast(ws), Len(ts) \in Nat
    PROVE  Steps(ws, ts) <=> FitsByLevels(ws, ts)
<1> DEFINE n == Len(ws)
<1>1. PICK f : /\ \A k \in Nat : f[k] = OneStep(ws, ts, k, f[k + 1])
               /\ Steps(ws, ts) = f[1]
    BY StepsAre
<1>2. n \in Nat /\ n >= 1
    BY DEF HashLast
<1> HIDE DEF n
<1> DEFINE P == {x \in 0..n : f[(n - x) + 1] <=> FoundFrom(ws, ts, (n - x) + 1)}
<1>3. 0 \in P
    <2>1. n + 1 \in Nat \ {0} /\ n + 1 > n /\ (n - 0) + 1 = n + 1
        BY <1>2
    <2>2. f[n + 1] <=> n + 1 > Len(ts)
        BY <1>1, <2>1 DEF OneStep, n
    <2>3. FoundFrom(ws, ts, n + 1) <=> n + 1 > Len(ts)
        BY <1>2 DEF FoundFrom, n
    <2> QED BY <1>2, <2>1, <2>2, <2>3
<1>4. ASSUME NEW x \in 1..n, x - 1 \in P PROVE x \in P
    <2> DEFINE k == (n - x) + 1
    <2>1. k \in Nat \ {0} /\ (n - (x - 1)) + 1 = k + 1 /\ x \in 0..n
        BY <1>2
    <2>2. f[k + 1] <=> FoundFrom(ws, ts, k + 1)
        BY <1>4, <2>1
    <2> HIDE DEF k
    <2>3. f[k] = OneStep(ws, ts, k, f[k + 1])
        BY <1>1, <2>1
    <2>4. FoundFrom(ws, ts, k) <=> OneStep(ws, ts, k, FoundFrom(ws, ts, k + 1))
        BY <2>1, FoundStep
    <2>5. f[k] <=> FoundFrom(ws, ts, k)
        BY <2>2, <2>3, <2>4 DEF OneStep
    <2> QED BY <2>1, <2>5 DEF k
<1>5. n \in P
    <2> HIDE DEF P
    <2>1. \A x \in 0..n : x \in P
        BY <1>2, <1>3, <1>4, InductionTo
    <2> QED BY <1>2, <2>1
<1>6. Steps(ws, ts) <=> FoundFrom(ws, ts, 1)
    <2>1. (n - n) + 1 = 1
        BY <1>2
    <2> QED BY <1>1, <1>5, <2>1
<1>7. FoundFrom(ws, ts, 1) <=> FitsByLevels(ws, ts)
    <2> DEFINE m == Len(ts)
    <2>0. m \in Nat
        OBVIOUS
    <2>1. ws # <<>> /\ Last(ws) = ws[n]
        BY <1>2 DEF Last, n
    <2> HIDE DEF m
    <2>2. FitFrom(ws, ts, 1, n - 1) <=> m >= n - 1 /\ \A x \in 1..n - 1 : LevelFits(ws[x], ts[x])
        <3>1. FitFrom(ws, ts, 1, n - 1) => m >= n - 1
            <4> SUFFICES ASSUME FitFrom(ws, ts, 1, n - 1), n # 1 PROVE m >= n - 1
                BY <1>2, <2>0
            <4>1. n - 1 \in 1..n - 1
                BY <1>2
            <4> QED BY <4>1, <1>2, <2>0 DEF FitFrom, m
        <3> QED BY <1>2, <2>0, <3>1 DEF FitFrom, m
    <2>3. FitFrom(ws, ts, 1, n) /\ m <= n <=> m = n /\ \A x \in 1..n : LevelFits(ws[x], ts[x])
        <3>1. FitFrom(ws, ts, 1, n) => m >= n
            <4>1. n \in 1..n
                BY <1>2
            <4> QED BY <4>1, <1>2, <2>0 DEF FitFrom, m
        <3> QED BY <1>2, <2>0, <3>1 DEF FitFrom, m
    <2>4. DOMAIN ws = 1..n
        BY DEF HashLast, n
    <2> QED BY <1>2, <2>1, <2>2, <2>3, <2>4 DEF FoundFrom, FitsByLevels, n, m
<1> QED BY <1>6, <1>7

-----------------------------------------------------------------------------
(* From the end *)

LEMMA ReverseTwice ==
    ASSUME NEW C, NEW s \in Seq(C)
    PROVE  Reverse(Reverse(s)) = s
<1> DEFINE r == Reverse(s)
           L == Len(s)
<1>1. r \in Seq(C) /\ Reversed(r, s)
    BY ReverseIs
<1> HIDE DEF r
<1>2. Reverse(r) \in Seq(C) /\ Reversed(Reverse(r), r)
    BY <1>1, ReverseIs
<1>3. L \in Nat /\ Len(r) = L /\ Len(Reverse(r)) = L
    BY <1>1, <1>2 DEF Reversed
<1>4. /\ \A x \in 1..L : r[x] = s[(L - x) + 1]
      /\ \A x \in 1..L : Reverse(r)[x] = r[(L - x) + 1]
    BY <1>1, <1>2, <1>3 DEF Reversed
<1> HIDE DEF L
<1>5. \A x \in 1..L : (L - x) + 1 \in 1..L /\ (L - ((L - x) + 1)) + 1 = x
    BY <1>3
<1>6. \A x \in 1..L : Reverse(r)[x] = s[x]
    BY <1>4, <1>5
<1>7. Len(Reverse(r)) = Len(s) /\ \A x \in 1..Len(s) : Reverse(r)[x] = s[x]
    BY <1>3, <1>6 DEF L
<1>8. Reverse(r) = s
    <2>1. \A u, v \in Seq(C) : Len(u) = Len(v) /\ (\A x \in 1..Len(u) : u[x] = v[x]) => u = v
        BY SeqEqual
    <2> QED BY <1>2, <1>3, <1>7, <2>1
<1> QED BY <1>8 DEF r

LEMMA ReverseOne == \A c : Reverse(<<c>>) = <<c>>
<1> SUFFICES ASSUME NEW c PROVE Reverse(<<c>>) = <<c>>
    OBVIOUS
<1>1. Len(<<c>>) = 1 /\ <<c>>[1] = c
    OBVIOUS
<1>2. Reverse(<<c>>) = [x \in 1..1 |-> <<c>>[(1 - x) + 1]]
    BY <1>1 DEF Reverse
<1>3. \A x \in 1..1 : <<c>>[(1 - x) + 1] = c
    BY <1>1
<1>4. Reverse(<<c>>) = [x \in 1..1 |-> c]
    BY <1>2, <1>3
<1> QED BY <1>4

LEMMA ReverseSame ==
    ASSUME NEW C, NEW p \in Seq(C), NEW D, NEW q \in Seq(D)
    PROVE  /\ Reverse(p) = Reverse(q) <=> p = q
           /\ \A c : Reverse(p) = <<c>> <=> p = <<c>>
           /\ LevelFits(Reverse(p), Reverse(q)) <=> LevelFits(p, q)
<1>1. Reverse(Reverse(p)) = p /\ Reverse(Reverse(q)) = q
    BY ReverseTwice
<1>2. \A c : Reverse(<<c>>) = <<c>>
    BY ReverseOne
<1>3. \A c : Reverse(p) = <<c>> <=> p = <<c>>
    BY <1>1, <1>2
<1> QED BY <1>1, <1>3 DEF LevelFits

\* The levels of s, from the last to the first, each reversed.
Turned(lr, ls) ==
    /\ Len(ls) \in Nat /\ Len(lr) = Len(ls) /\ DOMAIN lr = 1..Len(ls)
    /\ \A k \in 1..Len(ls) : lr[k] = Reverse(ls[(Len(ls) - k) + 1])

LEMMA BoundsTurn ==
    ASSUME NEW C, NEW s \in Seq(C), NEW r \in Seq(C), Reversed(r, s), NEW n, NEW f,
           Ascends(f, n, Bounds(s))
    PROVE  Ascends([k \in 1..n |-> (Len(s) + 1) - f[(n - k) + 1]], n, Bounds(r))
<1> DEFINE L == Len(s)
           g == [k \in 1..n |-> (L + 1) - f[(n - k) + 1]]
<1>1. /\ L \in Nat /\ Bounds(s) \in SUBSET (0..L + 1)
      /\ \A i \in 0..L + 1 : i \in Bounds(s) <=> i = 0 \/ i = L + 1 \/ s[i] = "/"
    BY BoundsAre
<1>2. Len(r) = L /\ \A x \in 1..L : r[x] = s[(L - x) + 1]
    BY DEF Reversed
<1>3. /\ Bounds(r) \in SUBSET (0..L + 1)
      /\ \A i \in 0..L + 1 : i \in Bounds(r) <=> i = 0 \/ i = L + 1 \/ r[i] = "/"
    BY <1>2, BoundsAre
<1>4. /\ n \in Nat /\ f \in [1..n -> Bounds(s)]
      /\ \A i, j \in 1..n : i < j => f[i] < f[j]
      /\ \A x \in Bounds(s) : \E i \in 1..n : f[i] = x
    BY DEF Ascends
<1> HIDE DEF L
<1>5. \A i \in 0..L + 1 : i \in Bounds(r) <=> (L + 1) - i \in Bounds(s)
    <2> SUFFICES ASSUME NEW i \in 0..L + 1 PROVE i \in Bounds(r) <=> (L + 1) - i \in Bounds(s)
        OBVIOUS
    <2>1. (L + 1) - i \in 0..L + 1 /\ ((L + 1) - i = 0 <=> i = L + 1) /\ ((L + 1) - i = L + 1 <=> i = 0)
        BY <1>1
    <2>2. i # 0 /\ i # L + 1 => i \in 1..L /\ (L - i) + 1 = (L + 1) - i
        BY <1>1
    <2>3. i # 0 /\ i # L + 1 => r[i] = s[(L + 1) - i]
        BY <1>2, <2>2
    <2>4. (L + 1) - i \in Bounds(s) <=> (L + 1) - i = 0 \/ (L + 1) - i = L + 1 \/ s[(L + 1) - i] = "/"
        BY <1>1, <2>1
    <2> QED BY <1>3, <2>1, <2>3, <2>4
<1>6. \A k \in 1..n : (n - k) + 1 \in 1..n /\ f[(n - k) + 1] \in Bounds(s) /\ f[(n - k) + 1] \in 0..L + 1
    BY <1>1, <1>4
<1>7. g \in [1..n -> Bounds(r)]
    <2>1. ASSUME NEW k \in 1..n PROVE (L + 1) - f[(n - k) + 1] \in Bounds(r)
        <3> DEFINE a == f[(n - k) + 1]
        <3>1. a \in 0..L + 1 /\ a \in Bounds(s)
            BY <1>6
        <3> HIDE DEF a
        <3>2. (L + 1) - a \in 0..L + 1 /\ (L + 1) - ((L + 1) - a) = a
            BY <1>1, <3>1
        <3>3. (L + 1) - a \in Bounds(r)
            BY <1>5, <3>1, <3>2
        <3> QED BY <3>3 DEF a
    <2> QED BY <2>1
<1>8. ASSUME NEW i \in 1..n, NEW j \in 1..n, i < j PROVE g[i] < g[j]
    <2> DEFINE a == f[(n - i) + 1]
               b == f[(n - j) + 1]
    <2>1. (n - j) + 1 < (n - i) + 1
        BY <1>4, <1>8
    <2>2. b < a
        BY <1>4, <1>6, <2>1
    <2>3. a \in 0..L + 1 /\ b \in 0..L + 1 /\ g[i] = (L + 1) - a /\ g[j] = (L + 1) - b
        BY <1>6
    <2> HIDE DEF a, b, g
    <2> QED BY <1>1, <2>2, <2>3
<1>9. ASSUME NEW y \in Bounds(r) PROVE \E i \in 1..n : g[i] = y
    <2>1. y \in 0..L + 1 /\ (L + 1) - y \in Bounds(s)
        BY <1>3, <1>5
    <2>2. PICK i \in 1..n : f[i] = (L + 1) - y
        BY <1>4, <2>1
    <2>3. (n - i) + 1 \in 1..n /\ (n - ((n - i) + 1)) + 1 = i
        BY <1>4
    <2>4. g[(n - i) + 1] = (L + 1) - f[i]
        BY <2>3
    <2>5. (L + 1) - ((L + 1) - y) = y
        BY <1>1, <2>1
    <2> QED BY <2>2, <2>3, <2>4, <2>5
<1>10. Bounds(r) \in SUBSET Nat
    BY <1>1, <1>3
<1> HIDE DEF g
<1>11. Ascends(g, n, Bounds(r))
    BY <1>4, <1>7, <1>8, <1>9, <1>10 DEF Ascends
<1> QED BY <1>11 DEF g, L

LEMMA LevelsTurn ==
    ASSUME NEW C, NEW s \in Seq(C), NEW r \in Seq(C), Reversed(r, s)
    PROVE  Turned(Levels(r), Levels(s))
<1>1. PICK n, f : Cut(s, f, n) /\ LevelsAt(s, f, n) /\ Ascends(f, n, Bounds(s))
    BY LevelsExist
<1> DEFINE L == Len(s)
           N == n - 1
           g == [k \in 1..n |-> (L + 1) - f[(n - k) + 1]]
<1>2. Ascends(g, n, Bounds(r))
    BY <1>1, BoundsTurn
<1>3. LevelsAt(r, g, n)
    <2> HIDE DEF g
    <2> QED BY <1>2, LevelsAre
<1>4. /\ n \in Nat /\ n >= 2 /\ L \in Nat
      /\ \A k \in 1..N : f[k] \in Nat /\ f[k + 1] \in Nat /\ f[k] < f[k + 1] /\ f[k + 1] <= L + 1
    BY <1>1, LenProperties DEF Cut
<1>5. /\ Len(Levels(s)) = N /\ Len(Levels(r)) = N /\ DOMAIN Levels(r) = 1..N
      /\ \A k \in 1..N : Part(Levels(s)[k], s, f[k], f[k + 1] - f[k] - 1)
      /\ \A k \in 1..N : Part(Levels(r)[k], r, g[k], g[k + 1] - g[k] - 1)
    BY <1>1, <1>3 DEF LevelsAt
<1>6. \A x \in 1..L : r[x] = s[(L - x) + 1]
    BY DEF Reversed
<1> HIDE DEF L, N
<1>7. ASSUME NEW k \in 1..N PROVE Levels(r)[k] = Reverse(Levels(s)[(N - k) + 1])
    <2> DEFINE j == (N - k) + 1
               a == f[j]
               b == f[j + 1]
               m == b - a - 1
               p == Levels(s)[j]
    <2>1. j \in 1..N /\ (n - k) + 1 = j + 1 /\ (n - (k + 1)) + 1 = j /\ k \in 1..n /\ k + 1 \in 1..n
        BY <1>4 DEF N
    <2>2. g[k] = (L + 1) - b /\ g[k + 1] = (L + 1) - a
        BY <2>1
    <2>3. a \in Nat /\ b \in Nat /\ a < b /\ b <= L + 1
        BY <1>4, <2>1
    <2>4. Part(p, s, a, m)
        BY <1>5, <2>1
    <2> HIDE DEF g, j, a, b
    <2>5. (g[k + 1] - g[k]) - 1 = m /\ m \in Nat
        BY <1>4, <2>2, <2>3
    <2>6. Part(Levels(r)[k], r, g[k], m)
        BY <1>5, <2>5
    <2> HIDE DEF p, m
    <2>7. p = [x \in 1..m |-> s[a + x]] /\ Len(p) = m
        BY <2>4 DEF Part
    <2>8. Levels(r)[k] = [x \in 1..m |-> r[g[k] + x]]
        BY <2>6 DEF Part
    <2>9. Reverse(p) = [x \in 1..m |-> p[(m - x) + 1]]
        <3>1. Len(p) = m
            BY <2>7
        <3> QED BY <3>1 DEF Reverse
    <2>10. ASSUME NEW x \in 1..m PROVE r[g[k] + x] = p[(m - x) + 1]
        <3>1. g[k] + x \in 1..L /\ (L - (g[k] + x)) + 1 = b - x
            BY <1>4, <2>2, <2>3, <2>5 DEF m
        <3>2. (m - x) + 1 \in 1..m /\ a + ((m - x) + 1) = b - x
            BY <2>3, <2>5 DEF m
        <3>3. r[g[k] + x] = s[b - x]
            BY <1>6, <3>1
        <3>4. p[(m - x) + 1] = s[b - x]
            BY <2>7, <3>2
        <3> QED BY <3>3, <3>4
    <2>11. Levels(r)[k] = Reverse(p)
        BY <2>8, <2>9, <2>10
    <2> QED BY <2>11 DEF p, j
<1>8. N \in Nat
    BY <1>4 DEF N
<1> QED BY <1>5, <1>7, <1>8 DEF Turned

\* The levels are strings, and there is one.
LevelsIn(ls, C) == /\ Len(ls) \in Nat /\ Len(ls) >= 1 /\ DOMAIN ls = 1..Len(ls)
                   /\ \A k \in 1..Len(ls) : ls[k] \in Seq(C)

LEMMA LevelsType ==
    ASSUME NEW C, NEW s \in Seq(C)
    PROVE  LevelsIn(Levels(s), C)
<1>1. PICK n, f : Cut(s, f, n) /\ LevelsAt(s, f, n)
    BY LevelsExist
<1>2. /\ n \in Nat /\ n >= 2 /\ Len(s) \in Nat
      /\ \A k \in 1..n - 1 : f[k] \in Nat /\ f[k + 1] \in Nat /\ f[k] < f[k + 1] /\ f[k + 1] <= Len(s) + 1
    BY <1>1, LenProperties DEF Cut
<1>3. /\ Len(Levels(s)) = n - 1 /\ DOMAIN Levels(s) = 1..n - 1
      /\ \A k \in 1..n - 1 : Part(Levels(s)[k], s, f[k], f[k + 1] - f[k] - 1)
    BY <1>1 DEF LevelsAt
<1>4. \A x \in 1..Len(s) : s[x] \in C
    BY ElementOfSeq
<1>5. ASSUME NEW k \in 1..n - 1 PROVE Levels(s)[k] \in Seq(C)
    <2> DEFINE m == f[k + 1] - f[k] - 1
               a == f[k]
    <2>1. m \in Nat /\ Levels(s)[k] = [x \in 1..m |-> s[a + x]]
        BY <1>3 DEF Part
    <2>2. \A x \in 1..m : a + x \in 1..Len(s)
        BY <1>2
    <2> HIDE DEF m, a
    <2>3. \A x \in 1..m : s[a + x] \in C
        BY <1>4, <2>2
    <2> QED BY <2>1, <2>3
<1>6. n - 1 \in Nat /\ n - 1 >= 1
    BY <1>2
<1> QED BY <1>3, <1>5, <1>6 DEF LevelsIn

-----------------------------------------------------------------------------
(* Matching by levels *)

LEMMA FirstOf ==
    ASSUME NEW C, NEW s \in Seq(C), NoEmptyLevel(s)
    PROVE  /\ s # <<>> /\ First(s) = s[1] /\ s[1] # "/" /\ 1 \in 1..Len(s)
           /\ Tokens(s) = Levels(s)
<1>1. PICK n, f : Cut(s, f, n) /\ LevelsAt(s, f, n)
    BY LevelsExist
<1>2. /\ n \in Nat /\ n >= 2 /\ f[1] = 0 /\ Len(s) \in Nat
      /\ \A k \in 1..n - 1 : f[k] \in Nat /\ f[k + 1] \in Nat /\ f[k] < f[k + 1] /\ f[k + 1] <= Len(s) + 1
      /\ \A k \in 1..n - 1 : \A i \in 1..Len(s) : f[k] < i /\ i < f[k + 1] => s[i] # "/"
    BY <1>1, LenProperties DEF Cut
<1>3. DOMAIN Levels(s) = 1..n - 1 /\ Part(Levels(s)[1], s, f[1], f[1 + 1] - f[1] - 1)
    BY <1>1, <1>2 DEF LevelsAt
<1>4. 1 \in 1..n - 1
    BY <1>2
<1>5. f[1 + 1] - f[1] - 1 # 0
    BY <1>3, <1>4 DEF Part, NoEmptyLevel
<1>6. 1 \in 1..Len(s) /\ f[1] < 1 /\ 1 < f[1 + 1]
    BY <1>2, <1>4, <1>5
<1>7. s[1] # "/"
    BY <1>2, <1>4, <1>6
<1>8. s # <<>>
    BY <1>6
<1> QED BY <1>6, <1>7, <1>8, TokensAreLevels DEF First

LEMMA NoEmptyReversed ==
    ASSUME NEW C, NEW s \in Seq(C), NEW r \in Seq(C), Reversed(r, s), NoEmptyLevel(s)
    PROVE  NoEmptyLevel(r)
<1>1. Turned(Levels(r), Levels(s))
    BY LevelsTurn
<1>2. LevelsIn(Levels(s), C)
    BY LevelsType
<1> DEFINE ls == Levels(s)
           lr == Levels(r)
           N == Len(ls)
<1>3. /\ N \in Nat /\ DOMAIN lr = 1..N /\ DOMAIN ls = 1..N
      /\ \A k \in 1..N : lr[k] = Reverse(ls[(N - k) + 1])
      /\ \A k \in 1..N : ls[k] \in Seq(C)
    BY <1>1, <1>2 DEF Turned, LevelsIn
<1>4. \A k \in 1..N : ls[k] # <<>>
    BY <1>3 DEF NoEmptyLevel
<1> HIDE DEF ls, lr, N
<1>5. ASSUME NEW k \in 1..N, lr[k] = <<>> PROVE FALSE
    <2> DEFINE p == ls[(N - k) + 1]
    <2>1. (N - k) + 1 \in 1..N
        BY <1>3
    <2>2. p \in Seq(C) /\ p # <<>> /\ lr[k] = Reverse(p)
        BY <1>3, <1>4, <2>1
    <2> HIDE DEF p
    <2>3. Len(Reverse(p)) = Len(p) /\ Len(p) \in Nat
        BY <2>2, ReverseIs DEF Reversed
    <2>4. Len(p) = 0
        BY <1>5, <2>2, <2>3
    <2> QED BY <2>2, <2>4, EmptySeq
<1> QED BY <1>3, <1>5 DEF NoEmptyLevel, lr

\* A valid filter without empty levels has its '#' at the beginning or at the end.
LEMMA HashLevels ==
    ASSUME NEW C, NEW s \in Seq(C), NoEmptyLevel(s), Topics_isValidName(s)
    PROVE  /\ \A k \in 1..Len(Levels(s)) : Levels(s)[k] = <<"#">> =>
                 k \in {1, Len(Levels(s))} /\ \A m \in 1..Len(Levels(s)) : Levels(s)[m] = <<"#">> => m = k
           /\ Levels(s)[1] = <<"#">> <=> s[1] = "#"
           /\ Len(Levels(s)) = 1 /\ s[1] = "#" => s = <<"#">>
<1>1. PICK n, f : Cut(s, f, n) /\ LevelsAt(s, f, n)
    BY LevelsExist
<1> DEFINE ls == Levels(s)
<1>2. n \in Nat /\ n >= 2 /\ f[1] = 0 /\ f[n] = Len(s) + 1 /\ Len(s) \in Nat
    BY <1>1, LenProperties DEF Cut
<1>3. Len(ls) = n - 1 /\ DOMAIN ls = 1..n - 1
    BY <1>1 DEF LevelsAt
<1>4. 1 \in 1..Len(s) /\ s[1] # "/"
    BY FirstOf
<1>5. ValidByLevels(ls)
    BY ValidIs
<1>6. \A k \in 1..Len(ls) : ls[k] = <<"#">> =>
          k \in {1, Len(ls)} /\ \A m \in 1..Len(ls) : ls[m] = <<"#">> => m = k
    <2> HIDE DEF ls
    <2> QED BY <1>3, <1>5 DEF ValidByLevels
<1>7. DOMAIN s = 1..Len(s)
    BY LenProperties
<1>8. \A i \in Positions(s, "#") : Alone(s, i)
    BY DEF Topics_isValidName, Alone
<1>9. 1 \in 1..n - 1
    BY <1>2
<1>10. /\ ls[1] = <<"#">> => \E i : HashAt(s, f, n, 1, i)
       /\ \A i \in 1..Len(s) : s[i] = "#" /\ InLevel(f, 1, i) =>
             ls[1] = <<"#">> /\ HashAt(s, f, n, 1, i)
    BY <1>1, <1>8, <1>9, HashLevel
<1>11. InLevel(f, 1, 1)
    <2>1. PICK k \in 1..n - 1 : f[k] < 1 /\ 1 < f[k + 1]
        BY <1>1, <1>4 DEF Cut
    <2>2. k = 1
        <3>1. f[k] \in Nat
            BY <1>1 DEF Cut
        <3>2. k # 1 => f[k] \in 1..Len(s)
            <4>1. k # 1 => k \in 2..n - 1
                BY <1>2
            <4> QED BY <1>1, <4>1 DEF Cut
        <3> QED BY <2>1, <3>1, <3>2
    <2> QED BY <2>1, <2>2 DEF InLevel
<1>12. ls[1] = <<"#">> <=> s[1] = "#"
    <2>1. ASSUME ls[1] = <<"#">> PROVE s[1] = "#"
        BY <1>10, <2>1 DEF HashAt
    <2> QED BY <1>4, <1>10, <1>11, <2>1
<1>13. ASSUME Len(ls) = 1, s[1] = "#" PROVE s = <<"#">>
    <2>1. HashAt(s, f, n, 1, 1)
        BY <1>4, <1>10, <1>11, <1>13
    <2>2. n - 1 = 1
        BY <1>3, <1>13
    <2>3. 1 = Len(s)
        BY <2>1, <2>2 DEF HashAt
    <2>4. s = [x \in 1..1 |-> s[x]]
        BY <2>3
    <2> QED BY <1>13, <2>3, <2>4
<1> QED BY <1>6, <1>12, <1>13

\* What holds of Walk where no level is empty.
FitsAsWritten(w, t) ==
    IF First(w) = "#" THEN FitsFromTheEnd(Levels(w), Levels(t)) ELSE FitsByLevels(Levels(w), Levels(t))

LEMMA WalkForward ==
    ASSUME NEW C, NEW w \in Seq(C), NEW D, NEW t \in Seq(D), NoEmptyLevel(w), NoEmptyLevel(t),
           Topics_isValidName(w), First(w) # "#"
    PROVE  Walk(w, t) <=> FitsByLevels(Levels(w), Levels(t))
<1>1. First(w) = w[1] /\ Tokens(w) = Levels(w) /\ Tokens(t) = Levels(t)
    BY FirstOf
<1>2. LevelsIn(Levels(w), C) /\ LevelsIn(Levels(t), D)
    BY LevelsType
<1> DEFINE ws == Levels(w)
<1>3. /\ \A k \in 1..Len(ws) : ws[k] = <<"#">> => k \in {1, Len(ws)}
      /\ ws[1] # <<"#">>
    BY <1>1, HashLevels
<1>4. HashLast(ws)
    <2>1. Len(ws) \in Nat /\ Len(ws) >= 1 /\ DOMAIN ws = 1..Len(ws)
        BY <1>2 DEF LevelsIn
    <2> HIDE DEF ws
    <2>2. ASSUME NEW k \in 1..Len(ws) - 1, ws[k] = <<"#">> PROVE FALSE
        <3>0. \A n \in Nat : \A x \in 1..n - 1 : x \in 1..n /\ x # n
            OBVIOUS
        <3>1. k \in 1..Len(ws) /\ k # Len(ws)
            BY <2>1, <3>0
        <3>2. k = 1
            BY <1>3, <2>2, <3>1
        <3> QED BY <1>3, <2>2, <3>2
    <2> QED BY <2>1, <2>2 DEF HashLast
<1>5. Len(Levels(t)) \in Nat
    BY <1>2 DEF LevelsIn
<1>6. Steps(ws, Levels(t)) <=> FitsByLevels(ws, Levels(t))
    <2> HIDE DEF ws
    <2> QED BY <1>4, <1>5, StepsFit
<1> QED BY <1>1, <1>6 DEF Walk

LEMMA WalkBackward ==
    ASSUME NEW C, NEW w \in Seq(C), NEW D, NEW t \in Seq(D), NoEmptyLevel(w), NoEmptyLevel(t),
           Topics_isValidName(w), First(w) = "#", w # <<"#">>
    PROVE  Walk(w, t) <=> FitsFromTheEnd(Levels(w), Levels(t))
<1> DEFINE rw == Reverse(w)
           rt == Reverse(t)
           ws == Levels(w)
           ts == Levels(t)
           us == Levels(rw)
           vs == Levels(rt)
           N == Len(ws)
           M == Len(ts)
<1>1. rw \in Seq(C) /\ Reversed(rw, w) /\ rt \in Seq(D) /\ Reversed(rt, t)
    BY ReverseIs
<1> HIDE DEF rw, rt
<1>2. NoEmptyLevel(rw) /\ NoEmptyLevel(rt)
    BY <1>1, NoEmptyReversed
<1>3. Tokens(rw) = us /\ Tokens(rt) = vs
    BY <1>1, <1>2, FirstOf
<1>4. Turned(us, ws) /\ Turned(vs, ts) /\ LevelsIn(ws, C) /\ LevelsIn(ts, D)
    BY <1>1, LevelsTurn, LevelsType
<1>5. First(w) = w[1]
    BY FirstOf
<1>6. /\ \A k \in 1..N : ws[k] = <<"#">> => \A m \in 1..N : ws[m] = <<"#">> => m = k
      /\ ws[1] = <<"#">> /\ N # 1
    BY <1>5, HashLevels
<1> HIDE DEF ws, ts, us, vs
<1>7. /\ N \in Nat /\ N >= 1 /\ M \in Nat /\ Len(us) = N /\ Len(vs) = M /\ DOMAIN us = 1..N
      /\ \A k \in 1..N : us[k] = Reverse(ws[(N - k) + 1]) /\ ws[k] \in Seq(C)
      /\ \A k \in 1..M : vs[k] = Reverse(ts[(M - k) + 1]) /\ ts[k] \in Seq(D)
    BY <1>4 DEF Turned, LevelsIn
<1> HIDE DEF N, M
<1>8. N >= 2
    BY <1>6, <1>7
<1>9. \A p \in Seq(C) : \A q \in Seq(D) :
          /\ Reverse(p) = <<"#">> <=> p = <<"#">>
          /\ LevelFits(Reverse(p), Reverse(q)) <=> LevelFits(p, q)
    BY ReverseSame
<1>10. \A k \in 1..N : (N - k) + 1 \in 1..N /\ ((N - k) + 1 = 1 <=> k = N)
    BY <1>7
<1>11. \A k \in 1..N : us[k] = <<"#">> <=> k = N
    <2> SUFFICES ASSUME NEW k \in 1..N PROVE us[k] = <<"#">> <=> k = N
        OBVIOUS
    <2> DEFINE j == (N - k) + 1
    <2>1. j \in 1..N /\ (j = 1 <=> k = N)
        BY <1>10
    <2>2. us[k] = Reverse(ws[j]) /\ ws[j] \in Seq(C)
        BY <1>7, <2>1
    <2> HIDE DEF j
    <2>3. Reverse(ws[j]) = <<"#">> <=> ws[j] = <<"#">>
        BY <2>2, ReverseSame
    <2>4. ws[j] = <<"#">> <=> j = 1
        <3>1. 1 \in 1..N
            BY <1>7
        <3> QED BY <1>6, <2>1, <3>1
    <2> QED BY <2>1, <2>2, <2>3, <2>4
<1>12. HashLast(us)
    <2>1. \A k \in 1..N - 1 : k \in 1..N /\ k # N
        BY <1>7
    <2> QED BY <1>7, <1>11, <2>1 DEF HashLast
<1>13. Steps(us, vs) <=> FitsByLevels(us, vs)
    BY <1>7, <1>12, StepsFit
<1>14. FitsByLevels(us, vs) <=> M >= N - 1 /\ \A k \in 1..N - 1 : LevelFits(us[k], vs[k])
    <2>1. us # <<>> /\ Last(us) = us[N]
        BY <1>7 DEF Last
    <2>2. us[N] = <<"#">>
        <3>1. N \in 1..N
            BY <1>7
        <3> QED BY <1>11, <3>1
    <2> QED BY <1>7, <2>1, <2>2 DEF FitsByLevels
<1>15. ASSUME M >= N - 1
       PROVE  (\A k \in 1..N - 1 : LevelFits(us[k], vs[k])) <=>
                  \A n \in 2..N : LevelFits(ws[n], ts[M - N + n])
    <2>1. ASSUME NEW k \in 1..N - 1, NEW n \in 2..N, n = (N - k) + 1
          PROVE  LevelFits(us[k], vs[k]) <=> LevelFits(ws[n], ts[M - N + n])
        <3> DEFINE m == (M - k) + 1
        <3>1. k \in 1..N /\ k \in 1..M /\ m \in 1..M /\ n \in 1..N /\ M - N + n = m
            BY <1>7, <1>15, <2>1
        <3>2. us[k] = Reverse(ws[n]) /\ vs[k] = Reverse(ts[m]) /\ ws[n] \in Seq(C) /\ ts[m] \in Seq(D)
            BY <1>7, <2>1, <3>1
        <3> HIDE DEF m
        <3>3. LevelFits(Reverse(ws[n]), Reverse(ts[m])) <=> LevelFits(ws[n], ts[m])
            BY <3>2, ReverseSame
        <3> QED BY <3>1, <3>2, <3>3
    <2>2. \A k \in 1..N - 1 : (N - k) + 1 \in 2..N
        BY <1>7
    <2>3. \A n \in 2..N : (N - n) + 1 \in 1..N - 1 /\ n = (N - ((N - n) + 1)) + 1
        BY <1>7
    <2> QED BY <2>1, <2>2, <2>3
<1>16. FitsFromTheEnd(ws, ts) <=> M >= N - 1 /\ \A n \in 2..N : LevelFits(ws[n], ts[M - N + n])
    BY DEF FitsFromTheEnd, N, M
<1>17. Walk(w, t) = Steps(us, vs)
    BY <1>3 DEF Walk, rw, rt
<1>18. Walk(w, t) <=> FitsFromTheEnd(ws, ts)
    BY <1>13, <1>14, <1>15, <1>16, <1>17
<1> QED BY <1>18 DEF ws, ts

\* A filter that is the topic itself fits it.
LEMMA EqualFits ==
    ASSUME NEW C, NEW w \in Seq(C), NoEmptyLevel(w), ~Topics_hasWildcards(w)
    PROVE  FitsAsWritten(w, w)
<1>1. First(w) = w[1] /\ 1 \in 1..Len(w) /\ DOMAIN w = 1..Len(w)
    BY FirstOf, LenProperties
<1>2. \A i \in 1..Len(w) : w[i] # "#"
    BY <1>1 DEF Topics_hasWildcards, Positions
<1>3. LevelsIn(Levels(w), C)
    BY LevelsType
<1>4. PICK n, f : Cut(w, f, n) /\ LevelsAt(w, f, n)
    BY LevelsExist
<1> DEFINE ws == Levels(w)
           N == Len(ws)
<1>5. N \in Nat /\ N >= 1 /\ N = n - 1
    BY <1>3, <1>4 DEF LevelsIn, LevelsAt
<1>6. ws[N] # <<"#">>
    <2> SUFFICES ASSUME ws[N] = <<"#">> PROVE FALSE
        OBVIOUS
    <2>1. N \in 1..n - 1
        BY <1>5
    <2>2. HasChar(ws[N], "#") <=> \E i \in 1..Len(w) : InLevel(f, N, i) /\ w[i] = "#"
        BY <1>4, <2>1, InsideLevel
    <2>3. HasChar(<<"#">>, "#")
        <3>1. 1 \in DOMAIN <<"#">> /\ <<"#">>[1] = "#"
            OBVIOUS
        <3>2. 1 \in Positions(<<"#">>, "#")
            BY <3>1 DEF Positions
        <3> QED BY <3>2 DEF HasChar
    <2> QED BY <1>2, <2>2, <2>3
<1>7. FitsByLevels(ws, ws)
    <2>1. Last(ws) = ws[N]
        BY DEF Last
    <2> HIDE DEF ws, N
    <2>2. \A k \in DOMAIN ws : LevelFits(ws[k], ws[k])
        BY DEF LevelFits
    <2> QED BY <1>6, <2>1, <2>2 DEF FitsByLevels
<1> QED BY <1>1, <1>2, <1>7 DEF FitsAsWritten

\* Whatever is typed in: Topics_isValidName accepts the names that are valid by levels, and
\* where no level is empty Topics_matches accepts what fits level by level.
THEOREM MatchedByLevels == MatchSpec => []MatchesByLevels
<1>1. MatchTypeOK => MatchesByLevels
    <2> SUFFICES ASSUME MatchTypeOK PROVE MatchesByLevels
        OBVIOUS
    <2> DEFINE C == Letters \cup {"/", "+", "#"}
               D == Letters \cup {"/", "$"}
               w == wildTopic
               t == topicName
    <2>1. w \in Seq(C) /\ t \in Seq(D)
        BY DEF MatchTypeOK
    <2>2. ~Topics_hasWildcards(t)
        <3>1. "+" \notin D /\ "#" \notin D
            BY LettersAssumption
        <3> HIDE DEF D
        <3>2. DOMAIN t = 1..Len(t) /\ \A i \in 1..Len(t) : t[i] \in D
            BY <2>1, LenProperties, ElementOfSeq
        <3> QED BY <3>1, <3>2 DEF Topics_hasWildcards, Positions
    <2> HIDE DEF C, D, w, t
    <2>3. Topics_isValidName(w) <=> ValidByLevels(Levels(w))
        BY <2>1, ValidIs
    <2>4. ASSUME NoEmptyLevel(w), NoEmptyLevel(t), Topics_isValidName(w), w # <<"#">>
          PROVE  Topics_matches(w, t) <=> FitsAsWritten(w, t)
        <3>1. /\ First(w) = w[1] /\ w[1] # "/"
              /\ First(t) = t[1] /\ t[1] # "/"
            BY <2>1, <2>4, FirstOf
        <3>2. w # <<"/", "#">>
            BY <3>1
        <3>3. Topics_matches(w, t) <=> w = t \/ (w # t /\ Walk(w, t))
            BY <2>2, <2>4, <3>1, <3>2 DEF Topics_matches
        <3>4. w = t => FitsAsWritten(w, t)
            BY <2>1, <2>2, <2>4, EqualFits
        <3>5. Walk(w, t) <=> FitsAsWritten(w, t)
            <4>1. CASE First(w) = "#"
                BY <2>1, <2>4, <4>1, WalkBackward DEF FitsAsWritten
            <4>2. CASE First(w) # "#"
                BY <2>1, <2>4, <4>2, WalkForward DEF FitsAsWritten
            <4> QED BY <4>1, <4>2
        <3> QED BY <3>3, <3>4, <3>5
    <2> QED BY <2>3, <2>4 DEF MatchesByLevels, FitsAsWritten, w, t
<1> QED BY <1>1, MatchTypes, PTL
=============================================================================
