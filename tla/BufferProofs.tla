---------------------------- MODULE BufferProofs ----------------------------
(***************************************************************************)
(* The buffers that bytes go through on their way out.  The ring of        *)
(* ringbuf_mqtt.c, of any size and over any bytes, keeps its counters      *)
(* consistent and implements the byte queue of ByteFifo; and the frames of *)
(* proto.c in such a byte queue, of any size and for any messages, are the *)
(* queue of whole messages of MessageFifo, and if they are of one length   *)
(* that of OutQueue.                                                       *)
(***************************************************************************)
EXTENDS RingBuf, MsgQueue, SequenceLemmas

-----------------------------------------------------------------------------
(* The ring *)

\* The inductive invariant of the ring: the types and the agreement of the counters.
IInv == TypeOK /\ PointersAgree

USE SizeAssumption

-----------------------------------------------------------------------------
(* Pointers *)

\* A pointer that is moved by one stays inside the array.
LEMMA AdvanceInArray ==
    ASSUME NEW p \in Offset
    PROVE  Advance(p) \in Offset
BY DEF Advance, Offset

LEMMA InitInv == RINGBUF_Init => IInv
BY DEF RINGBUF_Init, IInv, TypeOK, PointersAgree, At, Offset

LEMMA NextInv == IInv /\ [Next]_vars => IInv'
<1> SUFFICES ASSUME IInv, [Next]_vars PROVE IInv'
    OBVIOUS
<1> USE DEF IInv
<1>1. ASSUME NEW b \in Byte, RINGBUF_Put(b) PROVE IInv'
    <2>1. TypeOK'
        BY <1>1, AdvanceInArray DEF RINGBUF_Put, TypeOK
    <2>2. PointersAgree'
        BY <1>1 DEF RINGBUF_Put, TypeOK, PointersAgree, At, Advance, Offset
    <2> QED BY <2>1, <2>2
<1>2. CASE RINGBUF_Get
    <2>1. TypeOK'
        BY <1>2, AdvanceInArray DEF RINGBUF_Get, TypeOK
    <2>2. PointersAgree'
        BY <1>2 DEF RINGBUF_Get, TypeOK, PointersAgree, At, Advance, Offset
    <2> QED BY <2>1, <2>2
<1>3. CASE RINGBUF_PutFull
    BY <1>3 DEF RINGBUF_PutFull, TypeOK, PointersAgree, At
<1>4. CASE RINGBUF_GetEmpty
    BY <1>4 DEF RINGBUF_GetEmpty, TypeOK, PointersAgree, At
<1>5. CASE UNCHANGED vars
    BY <1>5 DEF vars, TypeOK, PointersAgree, At
<1> QED BY <1>1, <1>2, <1>3, <1>4, <1>5 DEF Next

\* Both pointers of the ring stay inside its array and the fill count within
\* the array's size, in every reachable state (ringbuf_mqtt.c).
THEOREM TypeCorrect == Spec => []TypeOK
<1>1. IInv => TypeOK
    BY DEF IInv
<1> QED BY InitInv, NextInv, <1>1, PTL DEF Spec

\* The write pointer is always fill_cnt bytes ahead of the read pointer.
THEOREM PointersCorrect == Spec => []PointersAgree
<1>1. IInv => PointersAgree
    BY DEF IInv
<1> QED BY InitInv, NextInv, <1>1, PTL DEF Spec

-----------------------------------------------------------------------------
(* Refinement *)

\* The contents are a sequence of fill_cnt bytes, the k-th of them k - 1
\* places behind the read pointer.
LEMMA ContentsType ==
    TypeOK => /\ Contents \in Seq(Byte)
              /\ Len(Contents) = fill_cnt
              /\ \A k \in 1 .. fill_cnt : Contents[k] = buf[At(k - 1)]
<1> SUFFICES ASSUME TypeOK
             PROVE  /\ Contents \in Seq(Byte)
                    /\ Len(Contents) = fill_cnt
                    /\ \A k \in 1 .. fill_cnt : Contents[k] = buf[At(k - 1)]
    OBVIOUS
<1>1. \A k \in 1 .. fill_cnt : At(k - 1) \in Offset
    BY DEF TypeOK, At, Offset
<1>2. \A k \in 1 .. fill_cnt : buf[At(k - 1)] \in Byte
    BY <1>1 DEF TypeOK
<1>3. fill_cnt \in Nat
    BY DEF TypeOK
<1> QED BY <1>2, <1>3 DEF Contents

\* The same of the next state.
LEMMA ContentsTypePrime ==
    (TypeOK => /\ Contents \in Seq(Byte)
               /\ Len(Contents) = fill_cnt
               /\ \A k \in 1 .. fill_cnt : Contents[k] = buf[At(k - 1)])'
BY ContentsType, PTL

\* RINGBUF_Put appends its byte to the contents.
LEMMA PutAppends ==
    ASSUME IInv, NEW b \in Byte, RINGBUF_Put(b)
    PROVE  Contents' = Append(Contents, b)
<1>1. IInv'
    BY NextInv DEF Next
<1>2. /\ Contents \in Seq(Byte)
      /\ Len(Contents) = fill_cnt
      /\ \A k \in 1 .. fill_cnt : Contents[k] = buf[At(k - 1)]
    BY ContentsType DEF IInv
<1>3. /\ Contents' \in Seq(Byte)
      /\ Len(Contents') = fill_cnt'
      /\ \A k \in 1 .. fill_cnt' : Contents'[k] = buf'[At(k - 1)']
    BY <1>1, ContentsTypePrime DEF IInv
<1>4. fill_cnt \in Nat /\ fill_cnt < Size /\ fill_cnt' = fill_cnt + 1
    BY DEF RINGBUF_Put, IInv, TypeOK
<1>5. \A k \in 1 .. fill_cnt : Contents'[k] = Contents[k]
    <2> SUFFICES ASSUME NEW k \in 1 .. fill_cnt PROVE Contents'[k] = Contents[k]
        OBVIOUS
    <2>1. At(k - 1)' = At(k - 1) /\ At(k - 1) \in Offset /\ At(k - 1) # p_w
        BY <1>4 DEF IInv, TypeOK, PointersAgree, At, Offset, RINGBUF_Put
    <2>2. buf'[At(k - 1)] = buf[At(k - 1)]
        BY <2>1 DEF RINGBUF_Put, IInv, TypeOK
    <2> QED BY <1>2, <1>3, <1>4, <2>1, <2>2
<1>6. Contents'[fill_cnt'] = b
    <2>1. fill_cnt' \in 1 .. fill_cnt' /\ p_w \in Offset
        BY <1>4 DEF IInv, TypeOK
    <2>2. buf'[p_w] = b
        BY <2>1 DEF RINGBUF_Put, IInv, TypeOK
    <2>3. At(fill_cnt - 1)' = IF p_r + fill_cnt < Size THEN p_r + fill_cnt
                                                       ELSE p_r + fill_cnt - Size
        BY <1>4 DEF At, RINGBUF_Put, IInv, TypeOK, Offset
    <2>4. Contents'[fill_cnt'] = buf'[At(fill_cnt - 1)']
        BY <1>3, <2>1
    <2> QED BY <2>2, <2>3, <2>4 DEF IInv, PointersAgree, At
<1>7. /\ Append(Contents, b) \in Seq(Byte)
      /\ Len(Append(Contents, b)) = fill_cnt'
      /\ \A k \in 1 .. fill_cnt' :
             Append(Contents, b)[k] = IF k <= fill_cnt THEN Contents[k] ELSE b
    BY <1>2, <1>4
<1>8. \A k \in 1 .. fill_cnt' : Contents'[k] = Append(Contents, b)[k]
    BY <1>4, <1>5, <1>6, <1>7
<1> QED BY <1>3, <1>7, <1>8, SeqEqual

\* RINGBUF_Get takes the head of the contents and returns it.
LEMMA GetTakesHead ==
    ASSUME IInv, RINGBUF_Get
    PROVE  /\ Contents # <<>>
           /\ c' = Head(Contents)
           /\ Contents' = Tail(Contents)
<1>1. IInv'
    BY NextInv DEF Next
<1>2. /\ Contents \in Seq(Byte)
      /\ Len(Contents) = fill_cnt
      /\ \A k \in 1 .. fill_cnt : Contents[k] = buf[At(k - 1)]
    BY ContentsType DEF IInv
<1>3. /\ Contents' \in Seq(Byte)
      /\ Len(Contents') = fill_cnt'
      /\ \A k \in 1 .. fill_cnt' : Contents'[k] = buf'[At(k - 1)']
    BY <1>1, ContentsTypePrime DEF IInv
<1>4. fill_cnt \in Nat /\ fill_cnt > 0 /\ fill_cnt' = fill_cnt - 1
    BY DEF RINGBUF_Get, IInv, TypeOK
<1>5. Contents # <<>> /\ Head(Contents) = Contents[1]
    BY <1>2, <1>4
<1>6. Contents[1] = buf[p_r] /\ c' = buf[p_r]
    BY <1>2, <1>4 DEF At, IInv, TypeOK, Offset, RINGBUF_Get
<1>7. \A k \in 1 .. fill_cnt' : Contents'[k] = Contents[k + 1]
    <2> SUFFICES ASSUME NEW k \in 1 .. fill_cnt' PROVE Contents'[k] = Contents[k + 1]
        OBVIOUS
    <2>1. At(k - 1)' = At(k)
        BY <1>4 DEF At, Advance, Offset, IInv, TypeOK, RINGBUF_Get
    <2>2. buf' = buf
        BY DEF RINGBUF_Get
    <2>3. k + 1 \in 1 .. fill_cnt /\ (k + 1) - 1 = k
        BY <1>4
    <2>4. Contents[k + 1] = buf[At(k)]
        BY <1>2, <2>3
    <2> QED BY <1>3, <2>1, <2>2, <2>4
<1>8. /\ Tail(Contents) \in Seq(Byte)
      /\ Len(Tail(Contents)) = fill_cnt'
      /\ \A k \in 1 .. fill_cnt' : Tail(Contents)[k] = Contents[k + 1]
    BY <1>2, <1>4
<1>9. Contents' = Tail(Contents)
    BY <1>3, <1>7, <1>8, SeqEqual
<1> QED BY <1>5, <1>6, <1>9

\* Every behaviour of the ring is a behaviour of a bounded byte queue whose
\* contents are the bytes between the two pointers: RINGBUF_Put appends,
\* RINGBUF_Get takes the oldest, and both refuse exactly when full or empty.
THEOREM RingImplementsFifo == Spec => FifoSpec
<1>1. RINGBUF_Init => Fifo!Init
    <2> SUFFICES ASSUME RINGBUF_Init PROVE Fifo!Init
        OBVIOUS
    <2>1. Contents = <<>>
        BY DEF RINGBUF_Init, Contents
    <2> QED BY <2>1 DEF RINGBUF_Init, Fifo!Init
<1>2. IInv /\ [Next]_vars => [Fifo!Next]_Fifo!vars
    <2> SUFFICES ASSUME IInv, [Next]_vars PROVE [Fifo!Next]_Fifo!vars
        OBVIOUS
    <2>1. Len(Contents) = fill_cnt /\ Contents \in Seq(Byte) /\ fill_cnt \in 0 .. Size
        BY ContentsType DEF IInv, TypeOK
    <2>2. ASSUME NEW b \in Byte, RINGBUF_Put(b) PROVE Fifo!Put(b)
        <3>1. Contents' = Append(Contents, b)
            BY <2>2, PutAppends
        <3> QED BY <2>1, <2>2, <3>1 DEF RINGBUF_Put, Fifo!Put
    <2>3. CASE RINGBUF_Get
        <3>1. Fifo!Get
            BY <2>3, GetTakesHead DEF RINGBUF_Get, Fifo!Get
        <3> QED BY <3>1 DEF Fifo!Next
    <2>4. CASE RINGBUF_PutFull
        <3>1. Len(Contents) = Size /\ Contents' = Contents
            BY <2>1, <2>4 DEF RINGBUF_PutFull, Contents, At
        <3> QED BY <2>4, <3>1 DEF RINGBUF_PutFull, Fifo!Refused, Fifo!Next
    <2>5. CASE RINGBUF_GetEmpty
        <3>1. Contents = <<>> /\ Contents' = Contents
            BY <2>1, <2>5 DEF RINGBUF_GetEmpty, Contents, At
        <3> QED BY <2>5, <3>1 DEF RINGBUF_GetEmpty, Fifo!Refused, Fifo!Next
    <2>6. CASE UNCHANGED vars
        BY <2>6 DEF vars, Fifo!vars, Contents, At
    <2> QED BY <2>2, <2>3, <2>4, <2>5, <2>6 DEF Next, Fifo!Next
<1> QED BY <1>1, <1>2, InitInv, NextInv, PTL DEF Spec, FifoSpec, Fifo!Spec

HIDE SizeAssumption

-----------------------------------------------------------------------------
(* Frames *)

Octet == 0..255
Marks == {BEGIN, END}

\* The pieces that PROTO_AddRb puts between BEGIN and END.
Pieces(m) == [i \in 1..Len(m) |-> Escaped(m[i])]

LEMMA OctetsAreNumbers ==
    ASSUME NEW s \in Seq(Octet)
    PROVE  s \in Seq(Nat)
<1>1. Octet \subseteq Nat
    BY DEF Octet
<1>2. \A k \in 1..Len(s) : s[k] \in Octet
    OBVIOUS
<1>3. \A k \in 1..Len(s) : s[k] \in Nat
    BY <1>1, <1>2, Zenon
<1> QED BY <1>3

LEMMA MessageIs ==
    ASSUME NEW m \in Message
    PROVE  /\ m \in Seq(Octet) /\ Len(m) \in Nat /\ Len(m) <= MaxLen /\ DOMAIN m = 1..Len(m)
           /\ \A i \in 1..Len(m) : m[i] \in Octet
<1>1. m \in Seq(Octet) /\ Len(m) <= MaxLen
    BY MessageAssumption DEF Octet
<1> QED BY <1>1

\* A byte is itself, or two bytes of which no one is a mark, and the second gives it back.
IsEscape(e, b) ==
    /\ e \in Seq(Octet \ Marks) /\ e \in Seq(Nat)
    /\ \/ Len(e) = 1 /\ e[1] = b /\ b \notin {ESC, BEGIN, END}
       \/ Len(e) = 2 /\ e[1] = ESC /\ e[2] \notin {ESC, BEGIN, END} /\ Flip(e[2]) = b

LEMMA EscapedIs ==
    ASSUME NEW b \in Octet
    PROVE  IsEscape(Escaped(b), b)
<1> USE DEF Octet, Marks, ESC, BEGIN, END
<1>1. CASE b \in {ESC, BEGIN, END}
    <2>1. /\ Flip(125) = 93 /\ Flip(126) = 94 /\ Flip(127) = 95
          /\ Flip(93) = 125 /\ Flip(94) = 126 /\ Flip(95) = 127
        BY DEF Flip
    <2>2. Escaped(b) = <<ESC, Flip(b)>>
        BY <1>1 DEF Escaped
    <2>3. Flip(b) \in {93, 94, 95} /\ Flip(Flip(b)) = b
        BY <1>1, <2>1
    <2> QED BY <2>2, <2>3 DEF IsEscape
<1>2. CASE b \notin {ESC, BEGIN, END}
    <2>1. Escaped(b) = <<b>>
        BY <1>2 DEF Escaped
    <2> QED BY <1>2, <2>1 DEF IsEscape
<1> QED BY <1>1, <1>2

\* f begins with BEGIN, ends with END, and has no mark between the two.
IsFrame(f) ==
    /\ f \in Seq(Octet) /\ f \in Seq(Nat) /\ Len(f) \in Nat /\ Len(f) >= 2
    /\ f[1] = BEGIN /\ f[Len(f)] = END
    /\ \A k \in 2..Len(f) - 1 : f[k] \notin Marks

\* The bytes of message m in a frame: those of its first i bytes end at off[i] + 1.
IsBytes(f, m, off) ==
    /\ off \in [0..Len(m) -> Nat] /\ off[0] = 0 /\ Len(f) = off[Len(m)] + 2
    /\ \A i \in 1..Len(m) :
          \/ /\ off[i] = off[i - 1] + 1
             /\ f[off[i - 1] + 2] = m[i] /\ m[i] \notin {ESC, BEGIN, END}
          \/ /\ off[i] = off[i - 1] + 2
             /\ f[off[i - 1] + 2] = ESC
             /\ f[off[i - 1] + 3] \notin {ESC, BEGIN, END} /\ Flip(f[off[i - 1] + 3]) = m[i]

LEMMA BodyIs ==
    ASSUME NEW m \in Message
    PROVE  \E off : /\ IsOffsets(off, Pieces(m), Len(m), FlattenSeq(Pieces(m)))
                    /\ \A k \in 1..off[Len(m)] : FlattenSeq(Pieces(m))[k] \in Octet \ Marks
<1> DEFINE n == Len(m)
           ss == Pieces(m)
           b == FlattenSeq(ss)
<1>1. n \in Nat /\ \A i \in 1..n : ss[i] = Escaped(m[i]) /\ IsEscape(ss[i], m[i])
    BY MessageIs, EscapedIs DEF Pieces
<1>2. ss \in [1..n -> Seq(Nat)]
    <2>1. \A i \in 1..n : ss[i] \in Seq(Nat)
        BY <1>1 DEF IsEscape
    <2> QED BY <2>1 DEF Pieces
<1> HIDE DEF n, ss
<1>3. PICK off : IsOffsets(off, ss, n, b)
    BY <1>1, <1>2, Flattened
<1> HIDE DEF b
<1> DEFINE P == {i \in 0..n : \A k \in 1..off[i] : b[k] \in Octet \ Marks}
<1>4. 0 \in P
    BY <1>1, <1>3 DEF IsOffsets
<1>5. ASSUME NEW i \in 1..n, i - 1 \in P PROVE i \in P
    <2>1. /\ off[i] = off[i - 1] + Len(ss[i]) /\ off[i - 1] \in Nat /\ off[i] \in Nat
          /\ \A j \in 1..Len(ss[i]) : b[off[i - 1] + j] = ss[i][j]
        <3>1. i \in 0..n /\ i - 1 \in 0..n
            BY <1>1
        <3> QED BY <1>3, <3>1 DEF IsOffsets
    <2>2. Len(ss[i]) \in Nat /\ \A j \in 1..Len(ss[i]) : ss[i][j] \in Octet \ Marks
        BY <1>1 DEF IsEscape
    <2>3. ASSUME NEW k \in 1..off[i] PROVE b[k] \in Octet \ Marks
        <3>1. CASE k <= off[i - 1]
            BY <1>5, <2>1, <3>1
        <3>2. CASE k > off[i - 1]
            <4>1. PICK j \in 1..Len(ss[i]) : k = off[i - 1] + j
                <5>1. k - off[i - 1] \in 1..Len(ss[i]) /\ k = off[i - 1] + (k - off[i - 1])
                    BY <2>1, <2>2, <3>2
                <5> QED BY <5>1
            <4> QED BY <2>1, <2>2, <4>1
        <3> QED BY <2>1, <3>1, <3>2
    <2> QED BY <2>3
<1>6. \A i \in 0..n : i \in P
    <2> HIDE DEF P
    <2> QED BY <1>1, <1>4, <1>5, InductionTo
<1>7. \A k \in 1..off[n] : b[k] \in Octet \ Marks
    BY <1>1, <1>6
<1> QED BY <1>3, <1>7 DEF n, ss, b

LEMMA FrameIs ==
    ASSUME NEW m \in Message
    PROVE  IsFrame(Frame(m)) /\ \E off : IsBytes(Frame(m), m, off)
<1> DEFINE n == Len(m)
           b == FlattenSeq(Pieces(m))
           h == <<BEGIN>> \o b
           f == h \o <<END>>
<1>0. n \in Nat /\ DOMAIN m = 1..n
    BY MessageIs
<1>1. PICK off : IsOffsets(off, Pieces(m), n, b) /\ \A k \in 1..off[n] : b[k] \in Octet \ Marks
    BY BodyIs
<1>2. Frame(m) = f
    BY <1>0 DEF Frame, Pieces
<1>3. b \in Seq(Nat) /\ Len(b) = off[n] /\ off[n] \in Nat /\ off \in [0..n -> Nat] /\ off[0] = 0
    BY <1>0, <1>1 DEF IsOffsets
<1> HIDE DEF b
<1>4. /\ h \in Seq(Nat) /\ Len(h) = off[n] + 1 /\ h[1] = BEGIN
      /\ \A k \in 1..off[n] : h[k + 1] = b[k]
    <2>1. <<BEGIN>> \in Seq(Nat) /\ Len(<<BEGIN>>) = 1 /\ <<BEGIN>>[1] = BEGIN
        BY DEF BEGIN
    <2>2. IsJoin(h, <<BEGIN>>, b, 1, off[n])
        BY <1>3, <2>1, Join
    <2> HIDE DEF h
    <2>3. h \in Seq(Nat) /\ Len(h) = 1 + off[n] /\ \A k \in 1..off[n] : h[1 + k] = b[k]
        BY <2>2 DEF IsJoin
    <2>4. h[1] = BEGIN
        BY <2>1, <2>2 DEF IsJoin
    <2>5. Len(h) = off[n] + 1
        BY <1>3, <2>3
    <2>6. ASSUME NEW k \in 1..off[n] PROVE h[k + 1] = b[k]
        <3>1. k + 1 = 1 + k
            BY <1>3
        <3> QED BY <2>3, <3>1
    <2> QED BY <2>3, <2>4, <2>5, <2>6
<1> HIDE DEF h
<1>5. /\ f \in Seq(Nat) /\ Len(f) = off[n] + 2 /\ f[off[n] + 2] = END
      /\ \A k \in 1..off[n] + 1 : f[k] = h[k]
    <2>1. <<END>> \in Seq(Nat) /\ Len(<<END>>) = 1 /\ <<END>>[1] = END
        BY DEF END
    <2>2. IsJoin(f, h, <<END>>, off[n] + 1, 1)
        BY <1>4, <2>1, Join
    <2> HIDE DEF f
    <2>3. f \in Seq(Nat) /\ Len(f) = off[n] + 1 + 1 /\ \A k \in 1..off[n] + 1 : f[k] = h[k]
        BY <2>2 DEF IsJoin
    <2>4. f[off[n] + 1 + 1] = END
        BY <2>1, <2>2 DEF IsJoin
    <2>5. off[n] + 1 + 1 = off[n] + 2
        BY <1>3
    <2> QED BY <2>3, <2>4, <2>5
<1> HIDE DEF f
<1>6. f[1] = BEGIN
    <2>1. 1 \in 1..off[n] + 1
        BY <1>3
    <2> QED BY <1>4, <1>5, <2>1
<1>7. ASSUME NEW k \in 1..off[n] PROVE f[k + 1] = b[k] /\ f[k + 1] \in Octet \ Marks
    <2>1. k + 1 \in 1..off[n] + 1
        BY <1>3
    <2> QED BY <1>1, <1>4, <1>5, <2>1
<1>8. \A k \in 2..off[n] + 1 : f[k] \in Octet \ Marks
    <2> TAKE k \in 2..off[n] + 1
    <2>1. k - 1 \in 1..off[n] /\ (k - 1) + 1 = k
        BY <1>3
    <2> QED BY <1>7, <2>1
<1>9. IsFrame(f)
    <2>1. f \in Seq(Octet)
        <3>1. ASSUME NEW k \in 1..Len(f) PROVE f[k] \in Octet
            <4>1. k = 1 \/ k = off[n] + 2 \/ k \in 2..off[n] + 1
                <5>1. \A a \in Nat : \A x \in 1..a + 2 : x = 1 \/ x = a + 2 \/ x \in 2..a + 1
                    OBVIOUS
                <5> QED BY <1>3, <1>5, <5>1
            <4>2. BEGIN \in Octet /\ END \in Octet
                BY DEF Octet, BEGIN, END
            <4> QED BY <1>5, <1>6, <1>8, <4>1, <4>2, Zenon
        <3> QED BY <1>5, <3>1
    <2>2. (off[n] + 2) - 1 = off[n] + 1 /\ off[n] + 2 >= 2 /\ off[n] + 2 \in Nat
        BY <1>3
    <2> QED BY <1>5, <1>6, <1>8, <2>1, <2>2 DEF IsFrame
<1>10. ASSUME NEW i \in 1..n
       PROVE  \/ /\ off[i] = off[i - 1] + 1
                 /\ f[off[i - 1] + 2] = m[i] /\ m[i] \notin {ESC, BEGIN, END}
              \/ /\ off[i] = off[i - 1] + 2
                 /\ f[off[i - 1] + 2] = ESC
                 /\ f[off[i - 1] + 3] \notin {ESC, BEGIN, END} /\ Flip(f[off[i - 1] + 3]) = m[i]
    <2> DEFINE e == Escaped(m[i])
    <2>1. IsEscape(e, m[i])
        BY MessageIs, EscapedIs
    <2>2. Pieces(m)[i] = e
        BY DEF Pieces
    <2> HIDE DEF e
    <2>3. /\ off[i] = off[i - 1] + Len(e) /\ off[i - 1] \in Nat /\ off[i] \in Nat
          /\ \A j \in 1..Len(e) : b[off[i - 1] + j] = e[j]
        BY <1>0, <1>1, <2>2 DEF IsOffsets
    <2>4. off[i] <= off[n]
        <3> DEFINE P == {k \in 0..n : k >= i => off[i] <= off[k]}
        <3>1. 0 \in P
            BY <1>0
        <3>2. ASSUME NEW k \in 1..n, k - 1 \in P PROVE k \in P
            <4>1. off[k] = off[k - 1] + Len(Pieces(m)[k]) /\ off[k] \in Nat /\ off[k - 1] \in Nat
                <5>1. k \in 0..n /\ k - 1 \in 0..n
                    BY <1>0
                <5> QED BY <1>0, <1>1, <5>1 DEF IsOffsets
            <4>2. IsEscape(Pieces(m)[k], m[k])
                BY MessageIs, EscapedIs DEF Pieces
            <4>3. off[k - 1] <= off[k]
                BY <4>1, <4>2 DEF IsEscape
            <4>4. CASE k - 1 >= i
                BY <2>3, <3>2, <4>1, <4>3, <4>4, SMTT(60)
            <4>5. CASE k = i
                BY <2>3, <4>5
            <4> QED BY <4>4, <4>5
        <3>3. \A k \in 0..n : k \in P
            <4> HIDE DEF P
            <4> QED BY <1>0, <3>1, <3>2, InductionTo
        <3> QED BY <1>0, <3>3
    <2>5. Len(e) \in {1, 2} /\ \A j \in 1..Len(e) : f[(off[i - 1] + j) + 1] = e[j]
        <3>1. Len(e) \in {1, 2}
            BY <2>1 DEF IsEscape
        <3>2. ASSUME NEW j \in 1..Len(e) PROVE f[(off[i - 1] + j) + 1] = e[j]
            <4>1. off[i - 1] + j \in 1..off[n]
                BY <1>3, <2>3, <2>4, <3>1, SMTT(60)
            <4> QED BY <1>7, <2>3, <4>1
        <3> QED BY <3>1, <3>2
    <2>6. (off[i - 1] + 1) + 1 = off[i - 1] + 2 /\ (off[i - 1] + 2) + 1 = off[i - 1] + 3
        BY <2>3
    <2>7. CASE Len(e) = 1
        <3>1. f[off[i - 1] + 2] = e[1]
            BY <2>5, <2>6, <2>7
        <3>2. e[1] = m[i] /\ m[i] \notin {ESC, BEGIN, END}
            BY <2>1, <2>7 DEF IsEscape
        <3> QED BY <2>3, <2>7, <3>1, <3>2
    <2>8. CASE Len(e) = 2
        <3>1. f[off[i - 1] + 2] = e[1] /\ f[off[i - 1] + 3] = e[2]
            BY <2>5, <2>6, <2>8
        <3>2. e[1] = ESC /\ e[2] \notin {ESC, BEGIN, END} /\ Flip(e[2]) = m[i]
            BY <2>1, <2>8 DEF IsEscape
        <3> QED BY <2>3, <2>8, <3>1, <3>2
    <2> QED BY <2>5, <2>7, <2>8
<1>11. IsBytes(f, m, off)
    BY <1>3, <1>5, <1>10 DEF IsBytes
<1> QED BY <1>2, <1>9, <1>11

-----------------------------------------------------------------------------
(* The parser *)

ParserType == [data : Seq(Int), isEsc : BOOLEAN, isBegin : BOOLEAN]

\* The parser behind the bytes d of a message.
Reading(d) == [data |-> d, isEsc |-> FALSE, isBegin |-> TRUE]

LEMMA FlipType ==
    ASSUME NEW b \in Int
    PROVE  Flip(b) \in Int
BY DEF Flip

LEMMA ParseByteType ==
    ASSUME NEW p \in ParserType, NEW b \in Int
    PROVE  PROTO_ParseByte(p, b) \in ParserType
<1> USE DEF ParserType
<1>1. CASE b = ESC
    <2>1. PROTO_ParseByte(p, b) = [p EXCEPT !.isEsc = TRUE]
        BY <1>1 DEF PROTO_ParseByte, ESC, BEGIN, END
    <2> QED BY <2>1
<1>2. CASE b = BEGIN
    <2>1. PROTO_ParseByte(p, b) = [data |-> <<>>, isEsc |-> FALSE, isBegin |-> TRUE]
        BY <1>2 DEF PROTO_ParseByte, ESC, BEGIN, END
    <2> QED BY <2>1
<1>3. CASE b = END
    <2>1. PROTO_ParseByte(p, b) = [p EXCEPT !.isBegin = FALSE]
        BY <1>3 DEF PROTO_ParseByte, ESC, BEGIN, END
    <2> QED BY <2>1
<1>4. CASE b \notin {ESC, BEGIN, END}
    <2> DEFINE x == IF p.isEsc THEN Flip(b) ELSE b
    <2>1. x \in Int
        BY FlipType
    <2> HIDE DEF x
    <2>2. Append(p.data, x) \in Seq(Int)
        BY <2>1
    <2>3. PROTO_ParseByte(p, b) =
             IF ~p.isBegin THEN p
             ELSE [p EXCEPT !.isEsc = FALSE,
                            !.data = IF Len(p.data) < MaxLen THEN Append(p.data, x) ELSE p.data]
        BY <1>4 DEF PROTO_ParseByte, x
    <2> QED BY <2>2, <2>3
<1> QED BY <1>1, <1>2, <1>3, <1>4

\* What the parser does with the bytes of a frame.
LEMMA ParseBegin ==
    ASSUME NEW p
    PROVE  PROTO_ParseByte(p, BEGIN) = Reading(<<>>)
BY DEF PROTO_ParseByte, Reading, ESC, BEGIN, END

LEMMA ParseEnd ==
    ASSUME NEW p \in ParserType
    PROVE  PROTO_ParseByte(p, END).data = p.data
BY DEF PROTO_ParseByte, ParserType, ESC, BEGIN, END

LEMMA ParsePlain ==
    ASSUME NEW d \in Seq(Int), Len(d) < MaxLen, NEW b \in Int, b \notin {ESC, BEGIN, END}
    PROVE  PROTO_ParseByte(Reading(d), b) = Reading(Append(d, b))
BY DEF PROTO_ParseByte, Reading

LEMMA ParseEscaped ==
    ASSUME NEW d \in Seq(Int), Len(d) < MaxLen, NEW b \in Int, b \notin {ESC, BEGIN, END}
    PROVE  PROTO_ParseByte(PROTO_ParseByte(Reading(d), ESC), b) = Reading(Append(d, Flip(b)))
<1> DEFINE q == [data |-> d, isEsc |-> TRUE, isBegin |-> TRUE]
<1>1. PROTO_ParseByte(Reading(d), ESC) = q
    <2>1. PROTO_ParseByte(Reading(d), ESC) = [Reading(d) EXCEPT !.isEsc = TRUE]
        BY DEF PROTO_ParseByte, ESC, BEGIN, END
    <2> QED BY <2>1 DEF Reading
<1>2. PROTO_ParseByte(q, b) = Reading(Append(d, Flip(b)))
    BY DEF PROTO_ParseByte, Reading
<1> QED BY <1>1, <1>2

\* PROTO_ParseRb runs the parser over the first cut bytes.
IsParse(p, r, garbage, cut) ==
    /\ p[0] = PROTO_Init(garbage)
    /\ \A k \in 1..cut : p[k] = PROTO_ParseByte(p[k - 1], r[k])
    /\ \A k \in 0..cut : p[k] \in ParserType

LEMMA ParseRbIs ==
    ASSUME NEW r \in Seq(Octet), NEW garbage \in BOOLEAN,
           Consumed(r) \in Nat, Consumed(r) <= Len(r)
    PROVE  \E p : IsParse(p, r, garbage, Consumed(r)) /\ PROTO_ParseRb(r, garbage) = p[Consumed(r)].data
<1> DEFINE cut == Consumed(r)
           D == 0..cut
           S == ParserType
           step == [x \in D \X S |-> IF x[1] = 0 THEN PROTO_Init(garbage) ELSE PROTO_ParseByte(x[2], r[x[1]])]
           rank == [i \in D |-> i]
           next == [i \in D |-> IF i = 0 THEN 0 ELSE i - 1]
           base == [i \in D |-> PROTO_Init(garbage)]
           stop == {0}
           Equation(f) == [n \in 0..Consumed(r) |->
               IF n = 0 THEN PROTO_Init(garbage) ELSE PROTO_ParseByte(f[n - 1], r[n])]
           parser == CHOOSE f : f = Equation(f)
<1>1. cut \in Nat /\ \A i \in 1..cut : r[i] \in Int
    <2> HIDE DEF cut
    <2>1. cut \in Nat /\ cut <= Len(r) /\ Len(r) \in Nat
        BY DEF cut
    <2>2. \A i \in 1..Len(r) : r[i] \in Octet
        OBVIOUS
    <2>3. \A i \in 1..cut : i \in 1..Len(r)
        BY <2>1
    <2>4. Octet \subseteq Int
        BY DEF Octet
    <2> QED BY <2>1, <2>2, <2>3, <2>4, Zenon
<1>2. PROTO_Init(garbage) \in S
    BY DEF PROTO_Init, ParserType
<1>3. PROTO_ParseRb(r, garbage) = parser[cut].data
    BY DEF PROTO_ParseRb
<1> HIDE DEF cut
<1>4. step \in [D \X S -> S]
    <2>1. ASSUME NEW i \in D, NEW p \in S
          PROVE  (IF i = 0 THEN PROTO_Init(garbage) ELSE PROTO_ParseByte(p, r[i])) \in S
        <3> HIDE DEF S
        <3>1. CASE i = 0
            BY <1>2, <3>1
        <3>2. CASE i # 0
            <4>1. i \in 1..cut /\ r[i] \in Int
                BY <1>1, <3>2
            <4> QED BY <3>2, <4>1, ParseByteType DEF S
        <3> QED BY <3>1, <3>2
    <2> HIDE DEF S, D
    <2>2. \A x \in D \X S : x[1] \in D /\ x[2] \in S
        OBVIOUS
    <2> QED BY <2>1, <2>2
<1>5. rank \in [D -> 0..cut] /\ next \in [D -> D]
    BY <1>1
<1>6. \A p \in D : p \notin stop => rank[next[p]] < rank[p]
    BY <1>1
<1>7. base \in [D -> S]
    BY <1>2
<1>8. PICK f : Solution(D, S, stop, base, next, step, f)
    <2> HIDE DEF D, S, step, rank, next, base, stop
    <2>1. IsRecursion(D, S, cut, rank, stop, base, next, step)
        BY <1>1, <1>4, <1>5, <1>6, <1>7 DEF IsRecursion
    <2> QED BY <2>1, Recursion
<1>9. f \in [D -> S] /\ \A i \in D : f[i] = IF i = 0 THEN PROTO_Init(garbage) ELSE PROTO_ParseByte(f[i - 1], r[i])
    <2>1. f \in [D -> S]
        BY <1>8 DEF Solution
    <2>2. ASSUME NEW i \in D
          PROVE  f[i] = IF i = 0 THEN PROTO_Init(garbage) ELSE PROTO_ParseByte(f[i - 1], r[i])
        <3>1. CASE i = 0
            BY <1>8, <3>1 DEF Solution
        <3>2. CASE i # 0
            <4>1. next[i] = i - 1 /\ i - 1 \in D
                BY <1>1, <3>2
            <4>2. f[i] = step[<<i, f[i - 1]>>]
                BY <1>8, <3>2, <4>1 DEF Solution
            <4>3. <<i, f[i - 1]>> \in D \X S
                BY <2>1, <4>1
            <4> QED BY <3>2, <4>2, <4>3
        <3> QED BY <3>1, <3>2
    <2> QED BY <2>1, <2>2
<1>10. f = Equation(f)
    BY <1>9 DEF cut
<1>11. parser = Equation(parser)
    BY <1>10
<1> HIDE DEF parser
<1>12. /\ parser[0] = PROTO_Init(garbage)
       /\ \A k \in 1..cut : parser[k] = PROTO_ParseByte(parser[k - 1], r[k])
    BY <1>1, <1>11 DEF cut
<1>13. \A k \in 0..cut : parser[k] \in ParserType
    <2> DEFINE P == {k \in 0..cut : parser[k] \in ParserType}
    <2>1. 0 \in P
        BY <1>1, <1>2, <1>12
    <2>2. ASSUME NEW k \in 1..cut, k - 1 \in P PROVE k \in P
        <3>1. parser[k - 1] \in ParserType /\ r[k] \in Int /\ k \in 0..cut
            BY <1>1, <2>2
        <3>2. parser[k] \in ParserType
            BY <1>12, <3>1, ParseByteType, Zenon
        <3> QED BY <3>1, <3>2
    <2>3. \A k \in 0..cut : k \in P
        <3> HIDE DEF P
        <3> QED BY <1>1, <2>1, <2>2, InductionTo
    <2> QED BY <2>3
<1> QED BY <1>3, <1>12, <1>13 DEF IsParse, cut

\* PROTO_ParseRb reads up to the first END, if there is one.
LEMMA ConsumedIs ==
    ASSUME NEW r \in Seq(Octet), NEW e \in 1..Len(r), r[e] = END, \A k \in 1..e - 1 : r[k] # END
    PROVE  Consumed(r) = e
<1> DEFINE First(i) == r[i] = END /\ \A j \in 1..i - 1 : r[j] # END
<1>1. DOMAIN r = 1..Len(r) /\ Len(r) \in Nat
    OBVIOUS
<1>2. First(e)
    OBVIOUS
<1>3. ASSUME NEW i \in 1..Len(r), First(i) PROVE i = e
    <2>1. ~(i < e) /\ ~(e < i)
        BY <1>1, <1>3
    <2> QED BY <1>1, <2>1
<1>4. Consumed(r) = CHOOSE i \in 1..Len(r) : First(i)
    BY <1>1 DEF Consumed
<1> HIDE DEF First
<1> QED BY <1>2, <1>3, <1>4

LEMMA ConsumedAll ==
    ASSUME NEW r \in Seq(Octet), \A k \in 1..Len(r) : r[k] # END
    PROVE  Consumed(r) = Len(r)
<1>1. DOMAIN r = 1..Len(r)
    OBVIOUS
<1> QED BY <1>1 DEF Consumed

LEMMA BeginningGrows ==
    ASSUME NEW m \in Seq(Int), NEW i \in 1..Len(m)
    PROVE  /\ SubSeq(m, 1, i - 1) \in Seq(Int) /\ Len(SubSeq(m, 1, i - 1)) = i - 1
           /\ SubSeq(m, 1, i) = Append(SubSeq(m, 1, i - 1), m[i])
<1> DEFINE s == SubSeq(m, 1, i - 1)
           t == SubSeq(m, 1, i)
<1>0. Len(m) \in Nat /\ \A k \in 1..Len(m) : m[k] \in Int
    OBVIOUS
<1>1. s \in Seq(Int) /\ Len(s) = i - 1 /\ \A k \in 1..i - 1 : s[k] = m[k]
    OBVIOUS
<1>2. t \in Seq(Int) /\ Len(t) = i /\ \A k \in 1..i : t[k] = m[k]
    OBVIOUS
<1> HIDE DEF s, t
<1>3. /\ Append(s, m[i]) \in Seq(Int) /\ Len(Append(s, m[i])) = i
      /\ \A k \in 1..i : Append(s, m[i])[k] = m[k]
    <2>1. m[i] \in Int /\ i \in Int /\ (i - 1) + 1 = i
        BY <1>0
    <2>2. Append(s, m[i]) \in Seq(Int) /\ Len(Append(s, m[i])) = i
        BY <1>1, <2>1
    <2>3. ASSUME NEW k \in 1..i PROVE Append(s, m[i])[k] = m[k]
        <3>1. CASE k = i
            BY <1>1, <2>1, <3>1
        <3>2. CASE k # i
            <4>1. k \in 1..i - 1
                BY <3>2
            <4> QED BY <1>1, <4>1
        <3> QED BY <3>1, <3>2
    <2> QED BY <2>2, <2>3
<1>4. t = Append(s, m[i])
    BY <1>2, <1>3, SeqEqual
<1> QED BY <1>1, <1>4 DEF s, t

\* The frame f is in r, behind the first s bytes.
Holds(r, s, f) == \A k \in 1..Len(f) : r[s + k] = f[k]

\* Whatever is before a frame, and whatever was on the stack, the parser reads the message:
\* BEGIN sets everything it reads.
LEMMA ParseFrame ==
    ASSUME NEW m \in Message, NEW r \in Seq(Octet), NEW garbage \in BOOLEAN,
           NEW s \in Nat, s + Len(Frame(m)) <= Len(r), Holds(r, s, Frame(m)),
           Consumed(r) = s + Len(Frame(m))
    PROVE  PROTO_ParseRb(r, garbage) = m
<1> DEFINE f == Frame(m)
           n == Len(m)
           cut == Consumed(r)
<1>1. IsFrame(f)
    BY FrameIs
<1>2. PICK off : IsBytes(f, m, off)
    BY FrameIs
<1>3. n \in Nat /\ m \in Seq(Int) /\ n <= MaxLen /\ MaxLen \in Nat
    <2>1. m \in Seq(Octet) /\ n \in Nat /\ n <= MaxLen /\ MaxLen \in Nat
        BY MessageIs, MessageAssumption
    <2>2. Octet \subseteq Int
        BY DEF Octet
    <2>3. \A k \in 1..Len(m) : m[k] \in Int
        BY <2>2, MessageIs, Zenon
    <2>4. m \in Seq(Int)
        BY <2>1, <2>3
    <2> QED BY <2>1, <2>4
<1> HIDE DEF f, n
<1>4. Len(f) \in Nat /\ cut \in Nat /\ cut <= Len(r) /\ cut = s + Len(f)
    BY <1>1 DEF IsFrame, f
<1>5. PICK p : IsParse(p, r, garbage, cut) /\ PROTO_ParseRb(r, garbage) = p[cut].data
    BY <1>4, ParseRbIs
<1> HIDE DEF cut
<1>6. /\ off[n] \in Nat /\ off[0] = 0 /\ Len(f) = off[n] + 2
      /\ \A i \in 0..n : off[i] \in Nat
    <2>1. off \in [0..n -> Nat] /\ off[0] = 0 /\ Len(f) = off[n] + 2
        BY <1>2 DEF IsBytes, n
    <2>2. n \in 0..n
        BY <1>3
    <2> QED BY <2>1, <2>2
<1>7. ASSUME NEW k \in 1..Len(f)
      PROVE  p[s + k] = PROTO_ParseByte(p[s + k - 1], f[k]) /\ p[s + k - 1] \in ParserType
    <2>1. s + k \in 1..cut /\ s + k - 1 \in 0..cut
        BY <1>4
    <2>2. r[s + k] = f[k]
        BY DEF Holds, f
    <2> QED BY <1>5, <2>1, <2>2 DEF IsParse
<1> DEFINE P == {i \in 0..n : off[i] <= off[n] /\ p[s + off[i] + 1] = Reading(SubSeq(m, 1, i))}
           Q == {i \in 0..n : off[n - i] <= off[n]}
<1>8. \A i \in 0..n : off[i] <= off[n]
    <2>1. 0 \in Q
        BY <1>3, <1>6
    <2>2. ASSUME NEW i \in 1..n, i - 1 \in Q PROVE i \in Q
        <3>1. n - i \in 0..n /\ n - (i - 1) \in 1..n /\ (n - (i - 1)) - 1 = n - i
            BY <1>3
        <3>2. off[n - i] <= off[n - (i - 1)]
            <4> DEFINE x == n - (i - 1)
            <4>1. x \in 1..n /\ x - 1 = n - i /\ x \in 0..n /\ n - i \in 0..n
                BY <1>3, <3>1
            <4> HIDE DEF x
            <4>2. off[x] = off[x - 1] + 1 \/ off[x] = off[x - 1] + 2
                BY <1>2, <4>1 DEF IsBytes, n
            <4>3. off[x - 1] \in Nat
                BY <1>6, <4>1
            <4>4. off[x - 1] <= off[x]
                BY <4>2, <4>3
            <4> QED BY <4>1, <4>4 DEF x
        <3>3. off[n - (i - 1)] <= off[n]
            BY <2>2
        <3>4. off[n - i] \in Nat /\ off[n - (i - 1)] \in Nat
            BY <1>3, <1>6, <3>1
        <3>5. off[n - i] <= off[n]
            BY <1>6, <3>2, <3>3, <3>4
        <3> QED BY <1>3, <3>5
    <2>3. \A i \in 0..n : i \in Q
        <3> HIDE DEF Q
        <3> QED BY <1>3, <2>1, <2>2, InductionTo
    <2>4. ASSUME NEW i \in 0..n PROVE off[i] <= off[n]
        <3>1. n - i \in 0..n /\ n - (n - i) = i
            BY <1>3
        <3> QED BY <2>3, <3>1
    <2> QED BY <2>4
<1>9. 0 \in P
    <2>1. 1 \in 1..Len(f)
        BY <1>6
    <2>2. p[s + 1] = PROTO_ParseByte(p[s + 1 - 1], f[1])
        BY <1>7, <2>1
    <2>3. p[s + 1] = Reading(<<>>)
        BY <1>1, <2>2, ParseBegin DEF IsFrame
    <2>4. SubSeq(m, 1, 0) = <<>> /\ s + off[0] + 1 = s + 1
        BY <1>3, <1>6
    <2>5. 0 \in 0..n
        BY <1>3
    <2>6. p[s + off[0] + 1] = Reading(SubSeq(m, 1, 0))
        BY <2>3, <2>4
    <2> QED BY <1>8, <2>5, <2>6
<1>10. ASSUME NEW i \in 1..n, i - 1 \in P PROVE i \in P
    <2> DEFINE d == SubSeq(m, 1, i - 1)
               a == off[i - 1]
    <2>1. d \in Seq(Int) /\ Len(d) < MaxLen /\ SubSeq(m, 1, i) = Append(d, m[i])
        <3>1. i \in 1..Len(m) /\ i - 1 < MaxLen
            BY <1>3 DEF n
        <3> QED BY <1>3, <3>1, BeginningGrows
    <2>2. p[s + a + 1] = Reading(d) /\ a \in Nat /\ off[i] \in Nat /\ off[i] <= off[n]
        BY <1>3, <1>6, <1>8, <1>10
    <2>3. \A k \in 1..Len(f) : f[k] \in Int
        BY <1>1 DEF IsFrame, Octet
    <2>0. i \in 0..n
        BY <1>3
    <2> HIDE DEF d, a
    <2>4. CASE off[i] = a + 1 /\ f[a + 2] = m[i] /\ m[i] \notin {ESC, BEGIN, END}
        <3>0. /\ \A x, y \in Nat : y = x + 1 => s + (x + 2) = s + y + 1 /\ s + (x + 2) - 1 = s + x + 1
              /\ a \in Nat /\ off[i] \in Nat /\ off[i] = a + 1 /\ a + 1 <= off[n]
            BY <2>2, <2>4
        <3>1. a + 2 \in 1..Len(f) /\ s + (a + 2) = s + off[i] + 1 /\ s + (a + 2) - 1 = s + a + 1
            BY <1>6, <3>0
        <3>2. p[s + (a + 2)] = PROTO_ParseByte(p[s + (a + 2) - 1], f[a + 2])
            BY <1>7, <3>1
        <3>3. p[s + off[i] + 1] = PROTO_ParseByte(Reading(d), m[i]) /\ m[i] \in Int
            BY <2>2, <2>3, <2>4, <3>1, <3>2
        <3>4. p[s + off[i] + 1] = Reading(Append(d, m[i]))
            BY <2>1, <2>4, <3>3, ParsePlain
        <3> QED BY <2>0, <2>1, <2>2, <3>4
    <2>5. CASE /\ off[i] = a + 2 /\ f[a + 2] = ESC
               /\ f[a + 3] \notin {ESC, BEGIN, END} /\ Flip(f[a + 3]) = m[i]
        <3>0. \A x, y \in Nat : y = x + 2 => /\ s + (x + 2) - 1 = s + x + 1
                                            /\ s + (x + 3) - 1 = s + (x + 2) /\ s + (x + 3) = s + y + 1
            OBVIOUS
        <3>1. /\ a + 2 \in 1..Len(f) /\ s + (a + 2) - 1 = s + a + 1
              /\ a + 3 \in 1..Len(f) /\ s + (a + 3) - 1 = s + (a + 2) /\ s + (a + 3) = s + off[i] + 1
            BY <1>6, <2>2, <2>5, <3>0
        <3>2. p[s + (a + 2)] = PROTO_ParseByte(p[s + (a + 2) - 1], f[a + 2])
            BY <1>7, <3>1
        <3>3. p[s + (a + 3)] = PROTO_ParseByte(p[s + (a + 3) - 1], f[a + 3])
            BY <1>7, <3>1
        <3>4. /\ p[s + off[i] + 1] = PROTO_ParseByte(PROTO_ParseByte(Reading(d), ESC), f[a + 3])
              /\ f[a + 3] \in Int
            BY <2>2, <2>3, <2>5, <3>1, <3>2, <3>3
        <3>5. p[s + off[i] + 1] = Reading(Append(d, m[i]))
            BY <2>1, <2>5, <3>4, ParseEscaped
        <3> QED BY <2>0, <2>1, <2>2, <3>5
    <2> QED BY <1>2, <2>4, <2>5 DEF IsBytes, a, n
<1>11. p[s + off[n] + 1] = Reading(m)
    <2>1. \A i \in 0..n : i \in P
        <3> HIDE DEF P
        <3> QED BY <1>3, <1>9, <1>10, InductionTo
    <2>2. p[s + off[n] + 1] = Reading(SubSeq(m, 1, n))
        BY <1>3, <2>1
    <2>3. SubSeq(m, 1, n) = m
        BY <1>3, SubSeqFull DEF n
    <2> QED BY <2>2, <2>3
<1>12. p[cut].data = Reading(m).data
    <2>1. Len(f) \in 1..Len(f) /\ s + Len(f) = cut /\ s + Len(f) - 1 = s + off[n] + 1
        <3>1. \A x \in Nat : s + (x + 2) - 1 = s + x + 1 /\ x + 2 \in 1..x + 2
            OBVIOUS
        <3> QED BY <1>4, <1>6, <3>1
    <2>2. p[cut] = PROTO_ParseByte(Reading(m), END) /\ Reading(m) \in ParserType
        <3>1. p[s + Len(f)] = PROTO_ParseByte(p[s + Len(f) - 1], f[Len(f)]) /\ p[s + Len(f) - 1] \in ParserType
            BY <1>7, <2>1
        <3> QED BY <1>1, <1>11, <2>1, <3>1 DEF IsFrame
    <2> QED BY <2>2, ParseEnd
<1> QED BY <1>5, <1>12 DEF Reading

-----------------------------------------------------------------------------
(* The messages in the ring *)

\* The i-th message that is queued ends at e[i], with its whole frame there, and where it
\* ends the next frame begins; there are no other ENDs.  What is torn is between the two:
\* behind an end, before the next frame or the end of the ring.
IsLayout(e, r, q) ==
    /\ e \in [0..Len(q) -> 0..Len(r)] /\ e[0] = 0
    /\ \A i, j \in 0..Len(q) : i <= j => e[i] <= e[j]
    /\ \A i \in 1..Len(q) :
          /\ e[i - 1] + Len(Frame(q[i])) <= e[i]
          /\ Holds(r, e[i] - Len(Frame(q[i])), Frame(q[i]))
          /\ \A k \in e[i - 1] + 1..e[i] - 1 : r[k] # END
    /\ \A k \in e[Len(q)] + 1..Len(r) : r[k] # END
    /\ \A i \in 0..Len(q) : e[i] < Len(r) => r[e[i] + 1] = BEGIN

\* The inductive invariant of the queue.
QueueInv ==
    /\ rb \in Seq(Octet) /\ Len(rb) <= QueueSize
    /\ queued \in Seq(Message)
    /\ taken \in {<<>>} \cup {<<m>> : m \in Message}
    /\ \E e : IsLayout(e, rb, queued)

LEMMA InitQueue == QueueInit => QueueInv
<1> SUFFICES ASSUME QueueInit PROVE QueueInv
    OBVIOUS
<1>1. rb = <<>> /\ taken = <<>> /\ queued = <<>>
    BY DEF QueueInit
<1>2. IsLayout([i \in 0..0 |-> 0], <<>>, <<>>)
    BY DEF IsLayout
<1> QED BY <1>1, <1>2, QueueSizeAssumption DEF QueueInv

\* The whole frame is put behind what is there.
LEMMA PutWhole ==
    ASSUME NEW m \in Message, NEW r \in Seq(Octet), NEW q \in Seq(Message),
           NEW e, IsLayout(e, r, q)
    PROVE  /\ r \o Frame(m) \in Seq(Octet) /\ Len(r \o Frame(m)) = Len(r) + Len(Frame(m))
           /\ \E d : IsLayout(d, r \o Frame(m), Append(q, m))
<1> DEFINE f == Frame(m)
           x == r \o f
           l == Len(r)
           g == Len(f)
           n == Len(q)
           p == Append(q, m)
           d == [i \in 0..n + 1 |-> IF i = n + 1 THEN l + g ELSE e[i]]
<1>1. IsFrame(f) /\ g \in Nat /\ l \in Nat /\ n \in Nat
    BY FrameIs DEF IsFrame
<1>2. x \in Seq(Octet) /\ Len(x) = l + g
    BY <1>1, ConcatProperties DEF IsFrame
<1>3. /\ \A k \in 1..l : x[k] = r[k]
      /\ \A k \in 1..g : x[l + k] = f[k]
    <2>1. r \in Seq(Nat) /\ f \in Seq(Nat)
        BY <1>1, OctetsAreNumbers DEF IsFrame
    <2>2. IsJoin(x, r, f, l, g)
        BY <2>1, Join
    <2> QED BY <2>2 DEF IsJoin
<1>4. /\ p \in Seq(Message) /\ Len(p) = n + 1 /\ p[n + 1] = m
      /\ \A i \in 1..n : p[i] = q[i]
    OBVIOUS
<1>5. /\ e \in [0..n -> 0..l] /\ e[0] = 0
      /\ \A i, j \in 0..n : i <= j => e[i] <= e[j]
      /\ \A i \in 1..n :
            /\ e[i - 1] + Len(Frame(q[i])) <= e[i]
            /\ Holds(r, e[i] - Len(Frame(q[i])), Frame(q[i]))
            /\ \A k \in e[i - 1] + 1..e[i] - 1 : r[k] # END
      /\ \A k \in e[n] + 1..l : r[k] # END
      /\ \A i \in 0..n : e[i] < l => r[e[i] + 1] = BEGIN
    BY DEF IsLayout
<1> HIDE DEF f, x, l, g, n, p
<1>6. /\ d \in [0..n + 1 -> 0..l + g] /\ d[0] = 0 /\ d[n + 1] = l + g
      /\ \A i \in 0..n : d[i] = e[i] /\ d[i] \in 0..l
    BY <1>1, <1>5
<1> HIDE DEF d
<1>7. \A i, j \in 0..n + 1 : i <= j => d[i] <= d[j]
    <2> SUFFICES ASSUME NEW i \in 0..n + 1, NEW j \in 0..n + 1, i <= j PROVE d[i] <= d[j]
        OBVIOUS
    <2>1. CASE j = n + 1
        BY <1>1, <1>6, <2>1
    <2>2. CASE j # n + 1
        BY <1>1, <1>5, <1>6, <2>2, SMTT(60)
    <2> QED BY <2>1, <2>2
<1>8. ASSUME NEW i \in 1..n + 1
      PROVE  /\ d[i - 1] + Len(Frame(p[i])) <= d[i]
             /\ Holds(x, d[i] - Len(Frame(p[i])), Frame(p[i]))
             /\ \A k \in d[i - 1] + 1..d[i] - 1 : x[k] # END
    <2>1. CASE i = n + 1
        <3>1. i - 1 = n /\ n \in 0..n /\ d[i - 1] \in 0..l /\ d[i] = l + g /\ Frame(p[i]) = f /\ Len(f) = g
            BY <1>1, <1>4, <1>6, <2>1 DEF f, g
        <3>2. Holds(x, l, f) /\ (l + g) - g = l
            BY <1>1, <1>3 DEF Holds, g
        <3>3. ASSUME NEW k \in d[i - 1] + 1..d[i] - 1 PROVE x[k] # END
            <4>1. CASE k <= l
                <5>1. k \in e[n] + 1..l /\ k \in 1..l
                    BY <1>1, <1>6, <3>1, <4>1
                <5> QED BY <1>3, <1>5, <5>1
            <4>2. CASE k > l
                <5>1. k - l \in 1..g - 1 /\ l + (k - l) = k
                    BY <1>1, <3>1, <4>2
                <5>2. f[k - l] # END
                    <6> DEFINE a == k - l
                    <6>1. a \in 1..g - 1
                        BY <5>1
                    <6> HIDE DEF a
                    <6>2. ASSUME a = 1 PROVE f[a] # END
                        BY <1>1, <6>2 DEF IsFrame, BEGIN, END
                    <6>3. ASSUME a # 1 PROVE f[a] # END
                        <7>1. a \in 2..Len(f) - 1
                            BY <1>1, <6>1, <6>3 DEF g
                        <7> QED BY <1>1, <7>1 DEF IsFrame, Marks
                    <6> QED BY <6>2, <6>3 DEF a
                <5>3. k - l \in 1..g
                    BY <1>1, <5>1
                <5> QED BY <1>3, <5>1, <5>2, <5>3
            <4> QED BY <1>1, <3>1, <4>1, <4>2
        <3> QED BY <1>1, <3>1, <3>2, <3>3
    <2>2. CASE i # n + 1
        <3>1. i \in 1..n /\ i \in 0..n /\ i - 1 \in 0..n
            BY <1>1, <2>2
        <3>2. d[i - 1] = e[i - 1] /\ d[i] = e[i] /\ p[i] = q[i] /\ e[i - 1] \in 0..l /\ e[i] \in 0..l
            BY <1>4, <1>6, <3>1
        <3>3. IsFrame(Frame(q[i]))
            <4>1. q[i] \in Message
                BY <3>1 DEF n
            <4> QED BY <4>1, FrameIs
        <3> DEFINE h == Frame(q[i])
                   s == e[i] - Len(h)
        <3>4. Len(h) \in Nat /\ s \in Nat /\ s + Len(h) = e[i]
            <4>1. Len(h) \in Nat
                BY <3>3 DEF IsFrame
            <4> QED BY <1>5, <3>1, <3>2, <4>1, SMTT(60)
        <3>5. Holds(x, s, h)
            <4>1. Holds(r, s, h)
                BY <1>5, <3>1
            <4> HIDE DEF h, s
            <4>2. \A k \in 1..Len(h) : s + k \in 1..l
                <5>1. l \in Nat /\ e[i] <= l
                    BY <1>1, <3>2
                <5>2. s \in Nat /\ Len(h) \in Nat /\ s + Len(h) <= l
                    BY <3>4, <5>1
                <5> QED BY <5>1, <5>2
            <4> QED BY <1>3, <4>1, <4>2 DEF Holds
        <3>6. \A k \in e[i - 1] + 1..e[i] - 1 : x[k] # END
            <4> TAKE k \in e[i - 1] + 1..e[i] - 1
            <4>1. k \in 1..l
                BY <1>1, <3>2
            <4> QED BY <1>3, <1>5, <3>1, <4>1
        <3> QED BY <1>5, <3>1, <3>2, <3>5, <3>6
    <2> QED BY <2>1, <2>2
<1>9. \A k \in d[n + 1] + 1..l + g : x[k] # END
    BY <1>1, <1>6
<1>10. ASSUME NEW i \in 0..n + 1, d[i] < l + g PROVE x[d[i] + 1] = BEGIN
    <2>1. i \in 0..n /\ d[i] = e[i] /\ e[i] \in 0..l
        BY <1>1, <1>6, <1>10
    <2>2. CASE e[i] < l
        <3>1. e[i] + 1 \in 1..l
            BY <1>1, <2>1, <2>2
        <3> QED BY <1>3, <1>5, <2>1, <2>2, <3>1
    <2>3. CASE e[i] = l
        <3>1. 1 \in 1..g /\ f[1] = BEGIN
            BY <1>1 DEF IsFrame, g
        <3> QED BY <1>3, <2>1, <2>3, <3>1
    <2> QED BY <1>1, <2>1, <2>2, <2>3
<1>11. IsLayout(d, x, p)
    BY <1>2, <1>4, <1>6, <1>7, <1>8, <1>9, <1>10 DEF IsLayout
<1> QED BY <1>2, <1>11 DEF x, p, f, l, g

\* The beginning of the frame, as much as fits, holds no END.
LEMMA PutTorn ==
    ASSUME NEW m \in Message, NEW r \in Seq(Octet), Len(r) <= QueueSize,
           ~(Len(r) + Len(Frame(m)) <= QueueSize),
           NEW q \in Seq(Message), NEW e, IsLayout(e, r, q)
    PROVE  LET x == SubSeq(r \o Frame(m), 1, QueueSize)
           IN  x \in Seq(Octet) /\ Len(x) = QueueSize /\ IsLayout(e, x, q)
<1> DEFINE f == Frame(m)
           w == r \o f
           l == Len(r)
           g == Len(f)
           n == Len(q)
           z == QueueSize
           x == SubSeq(w, 1, z)
<1>1. IsFrame(f) /\ g \in Nat /\ l \in Nat /\ n \in Nat /\ z \in Nat /\ l <= z /\ z < l + g
    BY FrameIs, QueueSizeAssumption DEF IsFrame
<1>2. w \in Seq(Octet) /\ Len(w) = l + g
    BY <1>1, ConcatProperties DEF IsFrame
<1>3. /\ \A k \in 1..l : w[k] = r[k]
      /\ \A k \in 1..g : w[l + k] = f[k]
    <2>1. r \in Seq(Nat) /\ f \in Seq(Nat)
        BY <1>1, OctetsAreNumbers DEF IsFrame
    <2>2. IsJoin(w, r, f, l, g)
        BY <2>1, Join
    <2> QED BY <2>2 DEF IsJoin
<1>4. x \in Seq(Octet) /\ Len(x) = z /\ \A k \in 1..z : x[k] = w[k]
    <2> HIDE DEF w, z, l, g
    <2> QED BY <1>1, <1>2
<1>5. /\ e \in [0..n -> 0..l] /\ e[0] = 0
      /\ \A i, j \in 0..n : i <= j => e[i] <= e[j]
      /\ \A i \in 1..n :
            /\ e[i - 1] + Len(Frame(q[i])) <= e[i]
            /\ Holds(r, e[i] - Len(Frame(q[i])), Frame(q[i]))
            /\ \A k \in e[i - 1] + 1..e[i] - 1 : r[k] # END
      /\ \A k \in e[n] + 1..l : r[k] # END
      /\ \A i \in 0..n : e[i] < l => r[e[i] + 1] = BEGIN
    BY DEF IsLayout
<1>6. \A i \in 1..n : IsFrame(Frame(q[i]))
    <2> TAKE i \in 1..n
    <2>1. q[i] \in Message
        OBVIOUS
    <2> QED BY <2>1, FrameIs
<1> HIDE DEF f, w, x, l, g, n, z
<1>7. \A k \in 1..l : x[k] = r[k]
    <2> TAKE k \in 1..l
    <2>1. k \in 1..z
        BY <1>1
    <2> QED BY <1>3, <1>4, <2>1
<1>8. \A k \in l + 1..z : x[k] # END
    <2> TAKE k \in l + 1..z
    <2> DEFINE a == k - l
    <2>1. a \in 1..g - 1 /\ a \in 1..g /\ l + a = k /\ k \in 1..z
        BY <1>1
    <2> HIDE DEF a
    <2>2. f[a] # END
        <3>1. CASE a = 1
            BY <1>1, <3>1 DEF IsFrame, BEGIN, END
        <3>2. CASE a # 1
            <4>1. a \in 2..Len(f) - 1
                BY <1>1, <2>1, <3>2 DEF g
            <4> QED BY <1>1, <4>1 DEF IsFrame, Marks
        <3> QED BY <3>1, <3>2
    <2> QED BY <1>3, <1>4, <2>1, <2>2
<1>9. e \in [0..n -> 0..z] /\ \A i \in 0..n : e[i] \in 0..l
    BY <1>1, <1>5
<1>10. ASSUME NEW i \in 1..n
       PROVE  /\ Holds(x, e[i] - Len(Frame(q[i])), Frame(q[i]))
              /\ \A k \in e[i - 1] + 1..e[i] - 1 : x[k] # END
    <2> DEFINE h == Frame(q[i])
               s == e[i] - Len(h)
    <2>1. i \in 0..n /\ i - 1 \in 0..n /\ e[i] \in 0..l /\ e[i - 1] \in 0..l
        BY <1>1, <1>9
    <2>2. Len(h) \in Nat /\ s \in Nat /\ s + Len(h) = e[i]
        <3>1. Len(h) \in Nat
            BY <1>6 DEF IsFrame
        <3> QED BY <1>5, <2>1, <3>1
    <2>3. Holds(x, s, h)
        <3>1. Holds(r, s, h)
            BY <1>5
        <3> HIDE DEF h, s
        <3>2. \A k \in 1..Len(h) : s + k \in 1..l
            BY <1>1, <2>1, <2>2
        <3> QED BY <1>7, <3>1, <3>2 DEF Holds
    <2>4. \A k \in e[i - 1] + 1..e[i] - 1 : x[k] # END
        <3> TAKE k \in e[i - 1] + 1..e[i] - 1
        <3>1. k \in 1..l
            BY <1>1, <2>1
        <3> QED BY <1>5, <1>7, <3>1
    <2> QED BY <2>3, <2>4
<1>11. ASSUME NEW k \in e[n] + 1..z PROVE x[k] # END
    <2>1. n \in 0..n /\ e[n] \in 0..l
        BY <1>1, <1>9
    <2>2. CASE k <= l
        <3>1. k \in e[n] + 1..l /\ k \in 1..l
            BY <1>1, <2>1, <2>2
        <3> QED BY <1>5, <1>7, <3>1
    <2>3. CASE k > l
        <3>1. k \in l + 1..z
            BY <1>1, <2>1, <2>3
        <3> QED BY <1>8, <3>1
    <2> QED BY <1>1, <2>1, <2>2, <2>3
<1>12. ASSUME NEW i \in 0..n, e[i] < z PROVE x[e[i] + 1] = BEGIN
    <2>1. e[i] \in 0..l
        BY <1>9
    <2>2. CASE e[i] < l
        <3>1. e[i] + 1 \in 1..l
            BY <1>1, <2>1, <2>2
        <3> QED BY <1>5, <1>7, <2>2, <3>1
    <2>3. CASE e[i] = l
        <3>1. 1 \in 1..g /\ f[1] = BEGIN
            BY <1>1 DEF IsFrame, g
        <3>2. l + 1 \in 1..z
            BY <1>1, <1>12, <2>3
        <3> QED BY <1>3, <1>4, <2>3, <3>1, <3>2
    <2> QED BY <1>1, <2>1, <2>2, <2>3
<1>13. IsLayout(e, x, q)
    BY <1>4, <1>5, <1>9, <1>10, <1>11, <1>12 DEF IsLayout, n
<1> QED BY <1>4, <1>13 DEF x, w, f, z

\* The first message ends at the first END, where PROTO_ParseRb stops, and is the one it
\* reads; what is behind it is laid out as before.
LEMMA GetFirst ==
    ASSUME NEW r \in Seq(Octet), NEW q \in Seq(Message), q # <<>>, NEW e, IsLayout(e, r, q),
           NEW garbage \in BOOLEAN
    PROVE  LET cut == Consumed(r)
           IN  /\ cut \in 1..Len(r) /\ r[cut] = END
               /\ PROTO_ParseRb(r, garbage) = Head(q)
               /\ SubSeq(r, cut + 1, Len(r)) \in Seq(Octet) /\ Len(SubSeq(r, cut + 1, Len(r))) <= Len(r)
               /\ \E d : IsLayout(d, SubSeq(r, cut + 1, Len(r)), Tail(q))
<1> DEFINE l == Len(r)
           n == Len(q)
           cut == e[1]
           x == SubSeq(r, cut + 1, l)
           p == Tail(q)
           d == [i \in 0..n - 1 |-> e[i + 1] - cut]
           m == q[1]
           f == Frame(m)
           s == cut - Len(f)
<1>1. /\ e \in [0..n -> 0..l] /\ e[0] = 0
      /\ \A i, j \in 0..n : i <= j => e[i] <= e[j]
      /\ \A i \in 1..n :
            /\ e[i - 1] + Len(Frame(q[i])) <= e[i]
            /\ Holds(r, e[i] - Len(Frame(q[i])), Frame(q[i]))
            /\ \A k \in e[i - 1] + 1..e[i] - 1 : r[k] # END
      /\ \A k \in e[n] + 1..l : r[k] # END
      /\ \A i \in 0..n : e[i] < l => r[e[i] + 1] = BEGIN
    BY DEF IsLayout
<1>2. /\ n \in Nat /\ n >= 1 /\ l \in Nat
      /\ p \in Seq(Message) /\ Len(p) = n - 1 /\ \A i \in 1..n - 1 : p[i] = q[i + 1]
      /\ Head(q) = m /\ m \in Message
    BY HeadTailProperties
<1>3. \A i \in 1..n : IsFrame(Frame(q[i]))
    <2> TAKE i \in 1..n
    <2>1. q[i] \in Message
        OBVIOUS
    <2> QED BY <2>1, FrameIs
<1> HIDE DEF l, n, p
<1>4. cut \in 0..l /\ 1 \in 1..n /\ 1 \in 0..n /\ 0 \in 0..n
    BY <1>1, <1>2
<1>5. IsFrame(f) /\ Len(f) \in Nat /\ Len(f) >= 2 /\ Len(f) <= cut /\ Holds(r, s, f)
    <2>1. IsFrame(f) /\ Len(f) \in Nat /\ Len(f) >= 2
        BY <1>3, <1>4 DEF IsFrame
    <2>2. e[1 - 1] + Len(f) <= cut /\ Holds(r, s, f)
        BY <1>1, <1>4
    <2>3. e[1 - 1] = 0
        BY <1>1
    <2> QED BY <1>4, <2>1, <2>2, <2>3
<1> HIDE DEF f, cut
<1>6. cut \in 1..l /\ s \in Nat /\ s + Len(f) = cut
    BY <1>4, <1>5
<1>0. l \in Nat /\ cut \in Nat /\ cut >= 1 /\ cut <= l
    BY <1>2, <1>6
<1>7. r[cut] = END
    <2>1. Len(f) \in 1..Len(f)
        BY <1>5
    <2> HIDE DEF s
    <2>2. r[s + Len(f)] = f[Len(f)]
        BY <1>5, <2>1 DEF Holds
    <2> QED BY <1>5, <1>6, <2>2 DEF IsFrame
<1>8. \A k \in 1..cut - 1 : r[k] # END
    <2>1. \A k \in e[1 - 1] + 1..cut - 1 : r[k] # END
        BY <1>1, <1>4 DEF cut
    <2>2. e[1 - 1] + 1 = 1
        BY <1>1
    <2> QED BY <2>1, <2>2
<1>9. Consumed(r) = cut
    BY <1>6, <1>7, <1>8, ConsumedIs DEF l
<1>10. PROTO_ParseRb(r, garbage) = m
    <2> HIDE DEF s, m
    <2>1. s + Len(Frame(m)) <= Len(r) /\ Holds(r, s, Frame(m)) /\ Consumed(r) = s + Len(Frame(m))
        BY <1>2, <1>4, <1>5, <1>6, <1>9 DEF f, l
    <2> QED BY <1>2, <1>6, <2>1, ParseFrame
<1>11. x \in Seq(Octet) /\ Len(x) = l - cut /\ \A k \in 1..l - cut : x[k] = r[cut + k]
    <2>1. \A k \in cut + 1..l : r[k] \in Octet
        BY <1>6 DEF l
    <2>2. cut + 1 \in Int /\ l \in Int
        BY <1>2, <1>6
    <2>3. /\ x \in Seq(Octet) /\ Len(x) = IF cut + 1 <= l THEN l - (cut + 1) + 1 ELSE 0
          /\ \A k \in 1..l - (cut + 1) + 1 : x[k] = r[cut + 1 + k - 1]
        BY <2>1, <2>2, SubSeqProperties
    <2> HIDE DEF x
    <2>4. l - (cut + 1) + 1 = l - cut /\ (~(cut + 1 <= l) => l - cut = 0)
        BY <1>0
    <2>5. \A k \in 1..l - cut : x[k] = r[cut + k]
        <3> TAKE k \in 1..l - cut
        <3>1. k \in 1..l - (cut + 1) + 1 /\ cut + 1 + k - 1 = cut + k
            BY <1>0
        <3> QED BY <2>3, <3>1
    <2> QED BY <2>3, <2>4, <2>5
<1> HIDE DEF x
<1>12. /\ d \in [0..n - 1 -> 0..l - cut] /\ d[0] = 0
       /\ \A i \in 0..n - 1 : d[i] = e[i + 1] - cut /\ e[i + 1] \in cut..l /\ i + 1 \in 1..n
    <2>1. \A i \in 0..n - 1 : i + 1 \in 1..n /\ i + 1 \in 0..n /\ 1 <= i + 1
        BY <1>2
    <2>2. \A i \in 0..n - 1 : e[i + 1] \in cut..l
        <3> TAKE i \in 0..n - 1
        <3>1. e[1] <= e[i + 1] /\ e[i + 1] \in 0..l
            BY <1>1, <1>4, <2>1
        <3> QED BY <1>6, <3>1 DEF cut
    <2>3. \A i \in 0..n - 1 : e[i + 1] - cut \in 0..l - cut
        <3> TAKE i \in 0..n - 1
        <3>1. e[i + 1] \in cut..l
            BY <2>2
        <3> QED BY <1>0, <3>1
    <2>4. 0 \in 0..n - 1 /\ e[0 + 1] - cut = 0
        BY <1>2, <1>6 DEF cut
    <2> QED BY <2>1, <2>2, <2>3, <2>4
<1> HIDE DEF d
<1>13. \A i, j \in 0..n - 1 : i <= j => d[i] <= d[j]
    <2> SUFFICES ASSUME NEW i \in 0..n - 1, NEW j \in 0..n - 1, i <= j PROVE d[i] <= d[j]
        OBVIOUS
    <2>1. i + 1 \in 0..n /\ j + 1 \in 0..n /\ i + 1 <= j + 1
        BY <1>2
    <2>2. e[i + 1] <= e[j + 1]
        BY <1>1, <2>1
    <2> QED BY <1>6, <1>12, <2>2
<1>14. ASSUME NEW i \in 1..n - 1
       PROVE  /\ d[i - 1] + Len(Frame(p[i])) <= d[i]
              /\ Holds(x, d[i] - Len(Frame(p[i])), Frame(p[i]))
              /\ \A k \in d[i - 1] + 1..d[i] - 1 : x[k] # END
    <2> DEFINE j == i + 1
               h == Frame(q[j])
               a == e[i]
               b == e[j]
    <2>1. j \in 1..n /\ j - 1 = i /\ p[i] = q[j] /\ i \in 0..n - 1 /\ i - 1 \in 0..n - 1 /\ (i - 1) + 1 = i
        BY <1>2
    <2>2. /\ d[i] = b - cut /\ b \in cut..l
          /\ d[i - 1] = a - cut /\ a \in cut..l
        <3>1. d[i] = e[i + 1] - cut /\ e[i + 1] \in cut..l
            BY <1>12, <2>1
        <3>2. d[i - 1] = e[(i - 1) + 1] - cut /\ e[(i - 1) + 1] \in cut..l
            BY <1>12, <2>1
        <3> QED BY <2>1, <3>1, <3>2
    <2>3. /\ e[j - 1] + Len(h) <= b
          /\ Holds(r, b - Len(h), h)
          /\ \A k \in e[j - 1] + 1..b - 1 : r[k] # END
        BY <1>1, <2>1
    <2>4. a + Len(h) <= b /\ Holds(r, b - Len(h), h) /\ (\A k \in a + 1..b - 1 : r[k] # END)
        BY <2>1, <2>3
    <2>5. Len(h) \in Nat
        BY <1>3, <2>1 DEF IsFrame
    <2> HIDE DEF j, h, a, b
    <2>6. d[i - 1] + Len(h) <= d[i]
        BY <1>6, <2>2, <2>4, <2>5
    <2>7. Holds(x, d[i] - Len(h), h)
        <3>1. ASSUME NEW k \in 1..Len(h) PROVE x[d[i] - Len(h) + k] = h[k]
            <4>1. d[i] - Len(h) + k \in 1..l - cut /\ cut + (d[i] - Len(h) + k) = b - Len(h) + k
                <5> DEFINE y == Len(h)
                <5>1. y \in Nat /\ k \in 1..y /\ a + y <= b /\ b \in cut..l /\ a \in cut..l /\ d[i] = b - cut
                    BY <2>2, <2>4, <2>5
                <5> HIDE DEF y
                <5>2. b - cut - y + k \in 1..l - cut /\ cut + (b - cut - y + k) = b - y + k
                    BY <1>0, <5>1
                <5> QED BY <5>1, <5>2 DEF y
            <4> QED BY <1>11, <2>4, <4>1 DEF Holds
        <3> QED BY <3>1 DEF Holds
    <2>8. \A k \in d[i - 1] + 1..d[i] - 1 : x[k] # END
        <3> TAKE k \in d[i - 1] + 1..d[i] - 1
        <3>1. k \in a - cut + 1..b - cut - 1
            BY <2>2
        <3>2. k \in 1..l - cut /\ cut + k \in a + 1..b - 1
            BY <1>0, <2>2, <3>1
        <3> QED BY <1>11, <2>4, <3>2
    <2> QED BY <2>1, <2>6, <2>7, <2>8 DEF h
<1>15. ASSUME NEW k \in d[n - 1] + 1..l - cut PROVE x[k] # END
    <2>1. n - 1 \in 0..n - 1 /\ (n - 1) + 1 = n
        BY <1>2
    <2>2. d[n - 1] = e[(n - 1) + 1] - cut /\ e[(n - 1) + 1] \in cut..l
        BY <1>12, <2>1
    <2> DEFINE b == e[n]
    <2>3. k \in b - cut + 1..l - cut /\ b \in cut..l
        BY <2>1, <2>2
    <2> HIDE DEF b
    <2>4. k \in 1..l - cut /\ cut + k \in b + 1..l
        BY <1>0, <2>3
    <2> QED BY <1>1, <1>11, <2>4 DEF b
<1>16. ASSUME NEW i \in 0..n - 1, d[i] < l - cut PROVE x[d[i] + 1] = BEGIN
    <2> DEFINE b == e[i + 1]
    <2>1. d[i] = b - cut /\ b \in cut..l
        BY <1>12
    <2>2. i + 1 \in 0..n
        BY <1>2
    <2>3. b < l => r[b + 1] = BEGIN
        BY <1>1, <2>2
    <2> HIDE DEF b
    <2>4. b < l /\ d[i] + 1 \in 1..l - cut /\ cut + (d[i] + 1) = b + 1
        BY <1>0, <1>16, <2>1
    <2> QED BY <1>11, <2>3, <2>4
<1>17. IsLayout(d, x, p)
    BY <1>2, <1>11, <1>12, <1>13, <1>14, <1>15, <1>16 DEF IsLayout
<1>18. l - cut <= l
    BY <1>6, <1>2
<1> QED BY <1>2, <1>6, <1>7, <1>9, <1>10, <1>11, <1>17, <1>18 DEF l, x, p

\* Where there is no END, no message is queued, and all that is there is read.
LEMMA GetNone ==
    ASSUME NEW r \in Seq(Octet), NEW q \in Seq(Message), NEW e, IsLayout(e, r, q),
           \A k \in 1..Len(r) : r[k] # END
    PROVE  q = <<>> /\ SubSeq(r, Consumed(r) + 1, Len(r)) = <<>>
<1>1. q = <<>>
    <2> SUFFICES ASSUME q # <<>> PROVE FALSE
        OBVIOUS
    <2>1. Consumed(r) \in 1..Len(r) /\ r[Consumed(r)] = END
        BY GetFirst
    <2> QED BY <2>1
<1>2. Consumed(r) = Len(r)
    BY ConsumedAll
<1>3. Len(r) \in Nat
    OBVIOUS
<1> QED BY <1>1, <1>2, <1>3

\* The steps of the queue keep the invariant, and are those of a FIFO of messages.
LEMMA PutsStep ==
    ASSUME QueueInv, NEW m \in Message, QUEUE_Puts(m)
    PROVE  QueueInv' /\ [Abstract!Next]_<<queued, taken>>
<1>1. PICK e : IsLayout(e, rb, queued)
    BY DEF QueueInv
<1>2. CASE Fits(rb, m)
    <2>1. rb' = rb \o Frame(m) /\ queued' = Append(queued, m) /\ taken' = taken
        BY <1>2 DEF QUEUE_Puts, PROTO_AddRb
    <2>2. rb' \in Seq(Octet) /\ Len(rb') <= QueueSize /\ \E d : IsLayout(d, rb', queued')
        BY <1>1, <1>2, <2>1, PutWhole DEF QueueInv, Fits
    <2>3. queued' \in Seq(Message)
        BY <2>1 DEF QueueInv
    <2> QED BY <2>1, <2>2, <2>3 DEF QueueInv, Abstract!Next, Abstract!Accept
<1>3. CASE ~Fits(rb, m)
    <2>1. rb' = SubSeq(rb \o Frame(m), 1, QueueSize) /\ queued' = queued /\ taken' = taken
        BY <1>3 DEF QUEUE_Puts, PROTO_AddRb
    <2>2. rb' \in Seq(Octet) /\ Len(rb') = QueueSize /\ IsLayout(e, rb', queued')
        BY <1>1, <1>3, <2>1, PutTorn DEF QueueInv, Fits
    <2>3. QueueSize <= QueueSize
        BY QueueSizeAssumption
    <2> QED BY <2>1, <2>2, <2>3 DEF QueueInv
<1> QED BY <1>2, <1>3

LEMMA GetsStep ==
    ASSUME QueueInv, NEW garbage \in BOOLEAN, QUEUE_Gets(garbage)
    PROVE  QueueInv' /\ [Abstract!Next]_<<queued, taken>>
<1>1. PICK e : IsLayout(e, rb, queued)
    BY DEF QueueInv
<1>2. rb' = SubSeq(rb, Consumed(rb) + 1, Len(rb)) /\ rb \in Seq(Octet) /\ queued \in Seq(Message)
    BY DEF QUEUE_Gets, QueueInv
<1>3. DOMAIN rb = 1..Len(rb)
    BY <1>2
<1>4. CASE \E i \in DOMAIN rb : rb[i] = END
    <2>1. taken' = <<PROTO_ParseRb(rb, garbage)>> /\ queued' = SubSeq(queued, 2, Len(queued))
        BY <1>4 DEF QUEUE_Gets
    <2>2. queued # <<>>
        <3> SUFFICES ASSUME queued = <<>> PROVE FALSE
            OBVIOUS
        <3>1. \A k \in e[0] + 1..Len(rb) : rb[k] # END
            BY <1>1 DEF IsLayout
        <3>2. e[0] + 1 = 1
            BY <1>1 DEF IsLayout
        <3> QED BY <1>3, <1>4, <3>1, <3>2
    <2>3. queued' = Tail(queued) /\ Tail(queued) \in Seq(Message) /\ Head(queued) \in Message
        BY <1>2, <2>1, <2>2, TailIsSubSeq, HeadTailProperties
    <2>4. /\ PROTO_ParseRb(rb, garbage) = Head(queued)
          /\ rb' \in Seq(Octet) /\ Len(rb') <= Len(rb)
          /\ \E d : IsLayout(d, rb', Tail(queued))
        BY <1>1, <1>2, <2>2, GetFirst
    <2>5. taken' = <<Head(queued)>>
        BY <2>1, <2>4
    <2>6. Len(rb') <= QueueSize
        <3>1. Len(rb) \in Nat /\ Len(rb') \in Nat /\ Len(rb) <= QueueSize
            BY <1>2, <2>4 DEF QueueInv
        <3> QED BY <2>4, <3>1, QueueSizeAssumption
    <2>7. QueueInv'
        BY <2>3, <2>4, <2>5, <2>6 DEF QueueInv
    <2>8. Abstract!Take
        BY <2>2, <2>3, <2>5 DEF Abstract!Take
    <2> QED BY <2>7, <2>8 DEF Abstract!Next
<1>5. CASE ~\E i \in DOMAIN rb : rb[i] = END
    <2>1. taken' = <<>> /\ queued' = queued
        BY <1>5 DEF QUEUE_Gets
    <2>2. queued = <<>> /\ rb' = <<>>
        BY <1>1, <1>2, <1>3, <1>5, GetNone
    <2>3. IsLayout([i \in 0..0 |-> 0], <<>>, <<>>)
        BY DEF IsLayout
    <2>4. QueueInv'
        BY <2>1, <2>2, <2>3, QueueSizeAssumption DEF QueueInv
    <2>5. Abstract!Fail
        BY <2>1, <2>2 DEF Abstract!Fail
    <2> QED BY <2>4, <2>5 DEF Abstract!Next
<1> QED BY <1>4, <1>5

LEMMA QueueStep == QueueInv /\ [QueueNext]_queue => QueueInv' /\ [Abstract!Next]_<<queued, taken>>
<1> SUFFICES ASSUME QueueInv, [QueueNext]_queue
             PROVE  QueueInv' /\ [Abstract!Next]_<<queued, taken>>
    OBVIOUS
<1>1. CASE UNCHANGED queue
    BY <1>1 DEF queue, QueueInv
<1>2. CASE \E m \in Message : QUEUE_Puts(m)
    BY <1>2, PutsStep
<1>3. CASE \E garbage \in BOOLEAN : QUEUE_Gets(garbage)
    BY <1>3, GetsStep
<1> QED BY <1>1, <1>2, <1>3 DEF QueueNext

LEMMA QueueInvType == QueueInv => QueueTypeOK
<1> SUFFICES ASSUME QueueInv PROVE QueueTypeOK
    OBVIOUS
<1>1. PICK e : IsLayout(e, rb, queued)
    BY DEF QueueInv
<1>2. rb # <<>> => Head(rb) = BEGIN
    <2>1. CASE rb = <<>>
        BY <2>1
    <2>2. CASE rb # <<>>
        <3>1. rb \in Seq(Octet) /\ Len(rb) \in Nat /\ Len(rb) # 0 /\ Head(rb) = rb[1]
            BY <2>2 DEF QueueInv
        <3>2. Len(queued) \in Nat
            BY DEF QueueInv
        <3>3. e[0] = 0 /\ (e[0] < Len(rb) => rb[e[0] + 1] = BEGIN)
            BY <1>1, <3>2 DEF IsLayout
        <3> QED BY <3>1, <3>3
    <2> QED BY <2>1, <2>2
<1> QED BY <1>2 DEF QueueInv, QueueTypeOK, Octet

\* queue.c and proto.c: the ring keeps within its size, and what is in it begins with a
\* frame, so that the flag PROTO_Init leaves as the stack has it is never looked at.
THEOREM QueueTypeCorrect == QueueSpec => []QueueTypeOK
<1>1. QueueInit => QueueInv
    BY InitQueue
<1>2. QueueInv /\ [QueueNext]_queue => QueueInv'
    BY QueueStep
<1>3. QueueInv => QueueTypeOK
    BY QueueInvType
<1> QED BY <1>1, <1>2, <1>3, PTL DEF QueueSpec

\* queue.c and proto.c implement a queue of whole messages, in the order they were put:
\* whatever bytes they hold, whatever the size of the ring and wherever a frame was torn.
THEOREM QueueIsFifo == QueueSpec => FifoOfMessages
<1>1. QueueInit => QueueInv /\ Abstract!Init
    BY InitQueue DEF QueueInit, Abstract!Init
<1>2. QueueInv /\ [QueueNext]_queue => QueueInv' /\ [Abstract!Next]_<<queued, taken>>
    BY QueueStep
<1>3. Abstract!vars = <<queued, taken>>
    BY DEF Abstract!vars
<1> QED BY <1>1, <1>2, PTL DEF QueueSpec, FifoOfMessages, Abstract!Spec, Abstract!vars

-----------------------------------------------------------------------------
(* Messages of one length *)

Cap == QueueSize \div FrameLength
Spare == QueueSize % FrameLength

\* The t-th piece in the ring is a torn one, which has the spare bytes; none is if t is 0.
Width(t, k) == IF k = t THEN Spare ELSE FrameLength

\* Where the k-th piece ends.
Off(t, k) == IF t = 0 \/ k < t THEN k * FrameLength ELSE (k - 1) * FrameLength + Spare

LEMMA SizesAre ==
    ASSUME OneLength
    PROVE  /\ FrameLength \in Nat /\ FrameLength >= 1 /\ Cap \in Nat
           /\ Spare \in Nat /\ Spare >= 1 /\ Spare < FrameLength
           /\ QueueSize = Cap * FrameLength + Spare
<1>1. ASSUME NEW a \in Nat, NEW b \in Nat \ {0}
      PROVE  a \div b \in Nat /\ a % b \in Nat /\ a % b < b /\ a = (a \div b) * b + (a % b)
    <2> DEFINE d == a \div b
               e == a % b
    <2>1. d \in Int /\ e \in 0..b - 1 /\ a = b * d + e
        OBVIOUS
    <2> HIDE DEF d, e
    <2>2. d >= 0
        <3> SUFFICES ASSUME d < 0 PROVE FALSE
            BY <2>1
        <3>1. d <= -1 /\ b * d <= b * (-1)
            BY <2>1
        <3> QED BY <2>1, <3>1
    <2>3. d \in Nat /\ e \in Nat /\ e < b /\ a = d * b + e
        BY <2>1, <2>2
    <2> QED BY <2>3 DEF d, e
<1>2. QueueSize \in Nat
    BY QueueSizeAssumption
<1>3. Cap \in Nat /\ Spare \in Nat /\ Spare < FrameLength /\ QueueSize = Cap * FrameLength + Spare
    BY <1>1, <1>2 DEF OneLength, Cap, Spare
<1> QED BY <1>3 DEF OneLength, Spare

LEMMA TimesRises ==
    ASSUME NEW a \in Nat, NEW b \in Nat, a <= b, NEW f \in Nat
    PROVE  a * f \in Nat /\ b * f \in Nat /\ a * f <= b * f
<1> DEFINE d == b - a
<1>1. d \in Nat /\ b = a + d
    OBVIOUS
<1> HIDE DEF d
<1>2. (a + d) * f = a * f + d * f /\ d * f \in Nat /\ a * f \in Nat
    BY <1>1
<1> QED BY <1>1, <1>2

LEMMA OffStep ==
    ASSUME OneLength, NEW t \in Nat
    PROVE  /\ Off(t, 0) = 0
           /\ \A k \in Nat : Off(t, k) \in Nat /\ Width(t, k) \in Nat /\ Width(t, k) >= 1
           /\ \A k \in Nat \ {0} : Off(t, k) = Off(t, k - 1) + Width(t, k)
<1> DEFINE F == FrameLength
           R == Spare
<1>1. F \in Nat /\ F >= 1 /\ R \in Nat /\ R >= 1
    BY SizesAre
<1>2. Off(t, 0) = 0
    <2>1. t = 0 \/ 0 < t
        OBVIOUS
    <2> QED BY <1>1, <2>1 DEF Off
<1>3. ASSUME NEW k \in Nat PROVE Off(t, k) \in Nat
    <2>1. k * F \in Nat
        BY <1>1
    <2>2. CASE t = 0 \/ k < t
        BY <2>1, <2>2 DEF Off
    <2>3. CASE ~(t = 0 \/ k < t)
        <3>1. k - 1 \in Nat
            BY <2>3
        <3>2. (k - 1) * F \in Nat
            BY <1>1, <3>1
        <3> QED BY <1>1, <2>3, <3>2 DEF Off
    <2> QED BY <2>2, <2>3
<1>4. ASSUME NEW k \in Nat \ {0} PROVE Off(t, k) = Off(t, k - 1) + Width(t, k)
    <2> DEFINE j == k - 1
    <2>1. j \in Nat /\ k = j + 1
        OBVIOUS
    <2>2. (j + 1) * F = j * F + F /\ j * F \in Int
        BY <1>1, <2>1
    <2>3. CASE t = 0 \/ k < t
        BY <1>1, <2>1, <2>2, <2>3 DEF Off, Width
    <2>4. CASE t # 0 /\ k = t
        BY <1>1, <2>1, <2>2, <2>4 DEF Off, Width
    <2>5. CASE t # 0 /\ k > t
        <3> DEFINE i == k - 2
        <3>1. i \in Nat /\ k - 1 = i + 1 /\ (k - 1) - 1 = i
            BY <2>5
        <3>2. (i + 1) * F = i * F + F /\ i * F \in Int
            BY <1>1, <3>1
        <3>3. Off(t, k) = (i + 1) * F + R /\ Off(t, k - 1) = i * F + R /\ Width(t, k) = F
            BY <2>5, <3>1 DEF Off, Width
        <3> QED BY <1>1, <3>2, <3>3
    <2> QED BY <2>3, <2>4, <2>5
<1> QED BY <1>1, <1>2, <1>3, <1>4 DEF Width

LEMMA OffRises ==
    ASSUME OneLength, NEW t \in Nat, NEW j \in Nat, NEW n \in Nat
    PROVE  /\ \A k \in 0..n : j <= k => Off(t, j) <= Off(t, k)
           /\ \A k \in 0..n : j < k => Off(t, j) + Width(t, j + 1) <= Off(t, k)
<1>1. /\ \A k \in Nat : Off(t, k) \in Nat /\ Width(t, k) \in Nat /\ Width(t, k) >= 1
      /\ \A k \in Nat \ {0} : Off(t, k) = Off(t, k - 1) + Width(t, k)
    BY OffStep
<1>2. ASSUME NEW i \in Nat PROVE \A k \in 0..n : i <= k => Off(t, i) <= Off(t, k)
    <2> DEFINE P == {k \in 0..n : i <= k => Off(t, i) <= Off(t, k)}
    <2>1. 0 \in P
        <3>1. i <= 0 => i = 0
            OBVIOUS
        <3> QED BY <1>1, <3>1
    <2>2. ASSUME NEW k \in 1..n, k - 1 \in P PROVE k \in P
        <3>1. CASE i = k
            BY <1>1, <3>1
        <3>2. CASE i # k
            <4>1. i <= k => i <= k - 1
                BY <3>2
            <4>2. k \in Nat \ {0} /\ k - 1 \in Nat
                OBVIOUS
            <4>3. Off(t, k) = Off(t, k - 1) + Width(t, k) /\ Width(t, k) \in Nat /\ Off(t, k - 1) \in Nat
                BY <1>1, <4>2
            <4>4. i <= k => Off(t, i) <= Off(t, k - 1)
                BY <2>2, <4>1
            <4>5. i <= k => Off(t, i) <= Off(t, k)
                BY <1>1, <4>3, <4>4
            <4> QED BY <4>5
        <3> QED BY <3>1, <3>2
    <2>3. \A k \in 0..n : k \in P
        <3> HIDE DEF P
        <3> QED BY <2>1, <2>2, InductionTo
    <2> QED BY <2>3
<1>3. ASSUME NEW k \in 0..n, j < k PROVE Off(t, j) + Width(t, j + 1) <= Off(t, k)
    <2>1. j + 1 \in Nat \ {0} /\ (j + 1) - 1 = j /\ j + 1 <= k
        BY <1>3
    <2>2. Off(t, j + 1) = Off(t, j) + Width(t, j + 1)
        BY <1>1, <2>1
    <2> QED BY <1>2, <2>1, <2>2
<1> QED BY <1>2, <1>3

\* Every byte is one of a piece.
LEMMA PieceOf ==
    ASSUME OneLength, NEW t \in Nat, NEW n \in Nat, NEW i \in 1..Off(t, n)
    PROVE  \E k \in 1..n : \E x \in 1..Width(t, k) : i = Off(t, k - 1) + x
<1>1. /\ \A k \in Nat : Off(t, k) \in Nat /\ Width(t, k) \in Nat
      /\ \A k \in Nat \ {0} : Off(t, k) = Off(t, k - 1) + Width(t, k)
      /\ Off(t, 0) = 0
    BY OffStep
<1> DEFINE Found(h) == \E k \in 1..h : \E x \in 1..Width(t, k) : i = Off(t, k - 1) + x
           P == {h \in 0..n : i <= Off(t, h) => Found(h)}
<1>2. i \in Nat /\ i >= 1 /\ i <= Off(t, n)
    BY <1>1
<1>3. 0 \in P
    BY <1>1, <1>2
<1>4. ASSUME NEW h \in 1..n, h - 1 \in P PROVE h \in P
    <2>1. h \in Nat \ {0} /\ h - 1 \in Nat /\ h \in 0..n
        OBVIOUS
    <2>2. Off(t, h) = Off(t, h - 1) + Width(t, h) /\ Off(t, h - 1) \in Nat /\ Width(t, h) \in Nat
        BY <1>1, <2>1
    <2> SUFFICES ASSUME i <= Off(t, h) PROVE Found(h)
        BY <2>1
    <2>3. CASE i <= Off(t, h - 1)
        <3>1. Found(h - 1)
            BY <1>4, <2>3
        <3>2. \A k \in 1..h - 1 : k \in 1..h
            OBVIOUS
        <3> QED BY <3>1, <3>2
    <2>4. CASE i > Off(t, h - 1)
        <3> DEFINE x == i - Off(t, h - 1)
        <3>1. x \in 1..Width(t, h) /\ i = Off(t, h - 1) + x
            BY <1>2, <2>2, <2>4
        <3>2. h \in 1..h
            BY <2>1
        <3> QED BY <3>1, <3>2
    <2> QED BY <1>2, <2>2, <2>3, <2>4
<1>5. \A h \in 0..n : h \in P
    <2> HIDE DEF P
    <2> QED BY <1>3, <1>4, InductionTo
<1> QED BY <1>2, <1>5

\* The ring r holds n pieces, one behind the other: the frames of the messages of ms, of
\* which the t-th is torn.
IsPieces(r, n, t, ms) ==
    /\ r \in Seq(Octet) /\ n \in Nat /\ t \in 0..n /\ ms \in [1..n -> Message]
    /\ Len(r) = Off(t, n)
    /\ \A k \in 1..n : \A x \in 1..Width(t, k) : r[Off(t, k - 1) + x] = Frame(ms[k])[x]

\* What OutQueue makes of them.
Elements(n, t, ms) == [k \in 1..n |-> IF k = t THEN Whole!TORN ELSE [type |-> ms[k]]]

\* The bytes of a piece: it begins with the only BEGIN, and ends with the only END if it is
\* a whole frame.
LEMMA PieceIs ==
    ASSUME OneLength, NEW r, NEW n, NEW t, NEW ms, IsPieces(r, n, t, ms), NEW k \in 1..n
    PROVE  /\ Off(t, k - 1) \in Nat /\ Off(t, k) \in Nat /\ Off(t, k) <= Len(r) /\ Len(r) \in Nat
           /\ Off(t, k) = Off(t, k - 1) + Width(t, k)
           /\ Width(t, k) \in Nat /\ Width(t, k) >= 1
           /\ r[Off(t, k - 1) + 1] = BEGIN
           /\ \A x \in 2..Width(t, k) : r[Off(t, k - 1) + x] # BEGIN
           /\ \A x \in 1..Width(t, k) : r[Off(t, k - 1) + x] = END <=> k # t /\ x = FrameLength
<1> DEFINE f == Frame(ms[k])
           w == Width(t, k)
           a == Off(t, k - 1)
           F == FrameLength
<1>1. /\ n \in Nat /\ t \in Nat /\ ms[k] \in Message /\ Len(r) \in Nat /\ Len(r) = Off(t, n)
      /\ \A x \in 1..w : r[a + x] = f[x]
    BY DEF IsPieces
<1>2. IsFrame(f) /\ Len(f) = F
    BY <1>1, FrameIs DEF OneLength
<1>3. F \in Nat /\ F >= 2 /\ Spare >= 1 /\ Spare < F /\ Spare \in Nat
    <2>1. Len(f) >= 2
        BY <1>2 DEF IsFrame
    <2> QED BY <1>2, <2>1, SizesAre
<1>4. w \in Nat /\ w >= 1 /\ a \in Nat /\ Off(t, k) \in Nat /\ Off(t, k) = a + w /\ w <= F
      /\ (w = F <=> k # t)
    <2>1. k \in Nat \ {0} /\ k - 1 \in Nat
        OBVIOUS
    <2>2. w <= F /\ (w = F <=> k # t)
        BY <1>3 DEF Width
    <2> QED BY <1>1, <2>1, <2>2, OffStep
<1>5. Off(t, k) <= Off(t, n)
    <2>1. k \in Nat /\ n \in 0..n /\ k <= n
        BY <1>1
    <2> QED BY <1>1, <2>1, OffRises
<1> HIDE DEF f, w, a
<1>6. f[1] = BEGIN /\ f[F] = END /\ \A x \in 2..F - 1 : f[x] # BEGIN /\ f[x] # END
    BY <1>2 DEF IsFrame, Marks
<1>7. BEGIN # END
    BY DEF BEGIN, END
<1>8. r[a + 1] = BEGIN
    BY <1>1, <1>4, <1>6
<1>9. ASSUME NEW x \in 2..w PROVE r[a + x] # BEGIN
    <2>1. x \in 1..w /\ (x = F \/ x \in 2..F - 1)
        BY <1>3, <1>4
    <2> QED BY <1>1, <1>6, <1>7, <2>1
<1>10. ASSUME NEW x \in 1..w PROVE r[a + x] = END <=> k # t /\ x = F
    <2>1. r[a + x] = f[x]
        BY <1>1
    <2>2. CASE x = F
        <3>1. w = F
            BY <1>3, <1>4, <2>2
        <3> QED BY <1>4, <1>6, <2>1, <2>2, <3>1
    <2>3. CASE x # F
        <3>1. x = 1 \/ x \in 2..F - 1
            BY <1>3, <1>4, <2>3
        <3> QED BY <1>6, <1>7, <2>1, <2>3, <3>1
    <2> QED BY <2>2, <2>3
<1> QED BY <1>1, <1>4, <1>5, <1>8, <1>9, <1>10 DEF a, w

LEMMA BeginsAre ==
    ASSUME OneLength, NEW r, NEW n, NEW t, NEW ms, IsPieces(r, n, t, ms)
    PROVE  Begins(r) = [k \in 1..n |-> Off(t, k - 1) + 1]
<1> DEFINE S == {i \in DOMAIN r : r[i] = BEGIN}
           f == [k \in 1..n |-> Off(t, k - 1) + 1]
<1>1. n \in Nat /\ t \in Nat /\ DOMAIN r = 1..Len(r) /\ Len(r) = Off(t, n) /\ Len(r) \in Nat
    BY DEF IsPieces
<1>2. f \in [1..n -> S]
    <2> SUFFICES ASSUME NEW k \in 1..n PROVE Off(t, k - 1) + 1 \in S
        OBVIOUS
    <2>1. /\ Off(t, k - 1) \in Nat /\ Off(t, k) <= Len(r) /\ Off(t, k) = Off(t, k - 1) + Width(t, k)
          /\ Width(t, k) \in Nat /\ Width(t, k) >= 1 /\ r[Off(t, k - 1) + 1] = BEGIN
        BY PieceIs
    <2>2. Off(t, k - 1) + 1 \in 1..Len(r)
        BY <1>1, <2>1
    <2> QED BY <1>1, <2>1, <2>2
<1>3. ASSUME NEW i \in 1..n, NEW j \in 1..n, i < j PROVE f[i] < f[j]
    <2>1. i - 1 \in Nat /\ j - 1 \in 0..n /\ i - 1 < j - 1 /\ (i - 1) + 1 = i /\ j - 1 \in Nat
        BY <1>1, <1>3
    <2>2. Off(t, i - 1) + Width(t, i) <= Off(t, j - 1)
        BY <1>1, <2>1, OffRises
    <2>3. Width(t, i) \in Nat /\ Width(t, i) >= 1 /\ Off(t, i - 1) \in Nat /\ Off(t, j - 1) \in Nat
        BY PieceIs
    <2> QED BY <2>2, <2>3
<1>4. ASSUME NEW i \in S PROVE \E k \in 1..n : f[k] = i
    <2>1. i \in 1..Off(t, n) /\ r[i] = BEGIN
        BY <1>1
    <2>2. PICK k \in 1..n : \E x \in 1..Width(t, k) : i = Off(t, k - 1) + x
        BY <1>1, <2>1, PieceOf
    <2>3. PICK x \in 1..Width(t, k) : i = Off(t, k - 1) + x
        BY <2>2
    <2>4. x = 1
        <3> SUFFICES ASSUME x # 1 PROVE FALSE
            OBVIOUS
        <3>1. x \in 2..Width(t, k)
            BY PieceIs
        <3> QED BY <2>1, <2>3, <3>1, PieceIs
    <2> QED BY <2>3, <2>4
<1>5. S \in SUBSET Nat
    BY <1>1
<1> HIDE DEF S, f
<1>6. Ascends(f, n, S)
    BY <1>1, <1>2, <1>3, <1>4, <1>5 DEF Ascends
<1>7. Ascending(S) = f
    BY <1>6, AscendingIs
<1> QED BY <1>7 DEF Begins, S, f

\* Behind the first s bytes of r.
Behind(r, s) == SubSeq(r, s + 1, Len(r))

LEMMA BehindIs ==
    ASSUME NEW r \in Seq(Octet), NEW s \in Nat, s <= Len(r)
    PROVE  /\ Behind(r, s) \in Seq(Octet) /\ Len(Behind(r, s)) = Len(r) - s
           /\ \A x \in 1..Len(r) - s : Behind(r, s)[x] = r[s + x]
<1> DEFINE l == Len(r)
           b == SubSeq(r, s + 1, l)
<1>1. l \in Nat /\ s <= l
    OBVIOUS
<1>2. \A x \in s + 1..l : r[x] \in Octet
    OBVIOUS
<1>3. s + 1 \in Int /\ l \in Int
    BY <1>1
<1>4. /\ b \in Seq(Octet) /\ Len(b) = IF s + 1 <= l THEN l - (s + 1) + 1 ELSE 0
      /\ \A x \in 1..l - (s + 1) + 1 : b[x] = r[s + 1 + x - 1]
    BY <1>2, <1>3, SubSeqProperties
<1> HIDE DEF b
<1>5. l - (s + 1) + 1 = l - s /\ (~(s + 1 <= l) => l - s = 0)
    BY <1>1
<1>6. \A x \in 1..l - s : b[x] = r[s + x]
    <2> TAKE x \in 1..l - s
    <2>1. x \in 1..l - (s + 1) + 1 /\ s + 1 + x - 1 = s + x
        BY <1>1
    <2> QED BY <1>4, <2>1
<1> QED BY <1>4, <1>5, <1>6 DEF Behind, b

\* The parser finds the message of a whole frame, and no END behind the beginning of a torn one.
LEMMA FrameAtIs ==
    ASSUME OneLength, NEW r, NEW n, NEW t, NEW ms, IsPieces(r, n, t, ms), NEW k \in 1..n
    PROVE  FrameAt(r, Off(t, k - 1) + 1) = IF k = t THEN Whole!TORN ELSE [type |-> ms[k]]
<1> DEFINE a == Off(t, k - 1)
           i == a + 1
           w == Width(t, k)
           F == FrameLength
           ends == {j \in i + 1..Len(r) : r[j] = END /\ \A h \in i + 1..j : r[h] # BEGIN}
           b == Behind(r, a)
<1>1. n \in Nat /\ t \in Nat /\ r \in Seq(Octet) /\ Len(r) = Off(t, n) /\ Len(r) \in Nat /\ ms[k] \in Message
    BY DEF IsPieces
<1>2. /\ a \in Nat /\ Off(t, k) <= Len(r) /\ Off(t, k) = a + w /\ Off(t, k) \in Nat
      /\ w \in Nat /\ w >= 1
      /\ \A x \in 2..w : r[a + x] # BEGIN
      /\ \A x \in 1..w : r[a + x] = END <=> k # t /\ x = F
    BY PieceIs
<1>3. FrameAt(r, i) = IF ends = {} THEN Whole!TORN ELSE [type |-> PROTO_ParseRb(SubSeq(r, i, Len(r)), FALSE)]
    BY DEF FrameAt
<1>4. IsFrame(Frame(ms[k])) /\ Len(Frame(ms[k])) = F /\ F \in Nat /\ F >= 2
    <2>1. IsFrame(Frame(ms[k])) /\ Len(Frame(ms[k])) = F
        BY <1>1, FrameIs DEF OneLength
    <2> QED BY <2>1 DEF IsFrame
<1> HIDE DEF a, w, b
<1>5. CASE k = t
    <2>1. ASSUME NEW j \in ends PROVE FALSE
        <3>1. j \in 1..Off(t, n) /\ r[j] = END /\ j >= a + 2
            BY <1>1, <1>2
        <3>2. ~(j <= a + w)
            <4> SUFFICES ASSUME j <= a + w PROVE FALSE
                OBVIOUS
            <4> DEFINE x == j - a
            <4>1. x \in 1..w /\ a + x = j
                BY <1>2, <3>1
            <4> HIDE DEF x
            <4> QED BY <1>2, <1>5, <3>1, <4>1
        <3>3. k < n
            <4> SUFFICES ASSUME ~(k < n) PROVE FALSE
                OBVIOUS
            <4>1. k = n
                BY <1>1
            <4> QED BY <1>1, <1>2, <3>1, <3>2, <4>1
        <3>4. k + 1 \in 1..n /\ (k + 1) - 1 = k
            BY <1>1, <3>3
        <3>5. r[Off(t, k) + 1] = BEGIN
            BY <3>4, PieceIs
        <3>6. Off(t, k) + 1 \in i + 1..j
            BY <1>2, <3>1, <3>2
        <3> QED BY <3>5, <3>6
    <2>2. ends = {}
        BY <2>1
    <2> HIDE DEF ends
    <2> QED BY <1>3, <1>5, <2>2 DEF a
<1>6. CASE k # t
    <2>1. w = F
        BY <1>6 DEF w, Width
    <2>2. a + F \in ends
        <3>1. a + F \in i + 1..Len(r) /\ F \in 1..w
            BY <1>1, <1>2, <1>4, <2>1
        <3>2. r[a + F] = END
            BY <1>2, <1>6, <3>1
        <3>3. ASSUME NEW h \in i + 1..a + F PROVE r[h] # BEGIN
            <4> DEFINE x == h - a
            <4>1. x \in 2..w /\ a + x = h
                BY <1>2, <1>4, <2>1
            <4> HIDE DEF x
            <4> QED BY <1>2, <4>1
        <3> QED BY <3>1, <3>2, <3>3
    <2>3. a <= Len(r) /\ F <= Len(r) - a
        BY <1>1, <1>2, <2>1
    <2>4. b \in Seq(Octet) /\ Len(b) = Len(r) - a /\ \A x \in 1..Len(r) - a : b[x] = r[a + x]
        BY <1>1, <1>2, <2>3, BehindIs DEF b
    <2>5. \A x \in 1..F : x \in 1..Len(r) - a /\ b[x] = r[a + x]
        <3> DEFINE l == Len(r)
        <3>1. l \in Nat /\ a \in Nat /\ F \in Nat /\ F <= l - a /\ \A x \in 1..l - a : b[x] = r[a + x]
            BY <1>1, <1>2, <1>4, <2>3, <2>4
        <3> HIDE DEF l, F
        <3>2. \A x \in 1..F : x \in 1..l - a
            BY <3>1
        <3> QED BY <3>1, <3>2 DEF l
    <2>6. Consumed(b) = F
        <3>1. F \in 1..Len(b) /\ b[F] = END
            BY <1>2, <1>4, <1>6, <2>1, <2>3, <2>4, <2>5
        <3>2. \A x \in 1..F - 1 : b[x] # END
            BY SMTT(30), <1>2, <1>4, <2>1, <2>5
        <3> QED BY <2>4, <3>1, <3>2, ConsumedIs
    <2>7. Holds(b, 0, Frame(ms[k]))
        <3> SUFFICES ASSUME NEW x \in 1..F PROVE b[0 + x] = Frame(ms[k])[x]
            BY <1>4 DEF Holds
        <3>1. r[Off(t, k - 1) + x] = Frame(ms[k])[x]
            BY <2>1 DEF IsPieces, w
        <3> QED BY <2>5, <3>1 DEF a
    <2>8. 0 + F <= Len(b) /\ Consumed(b) = 0 + F
        BY <1>1, <1>2, <1>4, <2>3, <2>4, <2>6
    <2>9. PROTO_ParseRb(b, FALSE) = ms[k]
        BY <1>1, <1>4, <2>4, <2>7, <2>8, ParseFrame
    <2>10. SubSeq(r, i, Len(r)) = b
        BY DEF b, Behind
    <2>11. ends # {}
        BY <2>2
    <2> HIDE DEF ends
    <2> QED BY <1>3, <1>6, <2>9, <2>10, <2>11 DEF a
<1> QED BY <1>5, <1>6

LEMMA FramesAre ==
    ASSUME OneLength, NEW r, NEW n, NEW t, NEW ms, IsPieces(r, n, t, ms)
    PROVE  Frames(r) = Elements(n, t, ms)
<1>1. Begins(r) = [k \in 1..n |-> Off(t, k - 1) + 1]
    BY BeginsAre
<1>2. \A k \in 1..n : FrameAt(r, Off(t, k - 1) + 1) = IF k = t THEN Whole!TORN ELSE [type |-> ms[k]]
    BY FrameAtIs
<1> QED BY <1>1, <1>2 DEF Frames, Elements

-----------------------------------------------------------------------------
(* Puts and gets *)

\* How many of the pieces are whole.
WholePieces(n, t) == IF t = 0 THEN n ELSE n - 1

\* A ring of whole frames holds as many as OutQueue says, and a torn one fills it.
LEMMA RoomIs ==
    ASSUME OneLength, NEW r, NEW n, NEW t, NEW ms, IsPieces(r, n, t, ms), Len(r) <= QueueSize
    PROVE  /\ WholePieces(n, t) \in Nat /\ WholePieces(n, t) <= Cap
           /\ Len(r) + FrameLength <= QueueSize <=> WholePieces(n, t) < Cap
           /\ WholePieces(n, t) = Cap =>
                 Len(r) = IF t = 0 THEN QueueSize - Spare ELSE QueueSize
<1> DEFINE w == WholePieces(n, t)
           F == FrameLength
           R == IF t = 0 THEN 0 ELSE Spare
           l == Len(r)
<1>1. /\ F \in Nat /\ F >= 1 /\ Cap \in Nat /\ Spare \in Nat /\ Spare >= 1 /\ Spare < F
      /\ QueueSize = Cap * F + Spare
    BY SizesAre
<1>2. n \in Nat /\ t \in 0..n /\ l = Off(t, n)
    BY DEF IsPieces
<1>3. w \in Nat
    BY <1>2 DEF WholePieces
<1>4. l = w * F + R
    <2>1. n * F \in Nat
        BY <1>1, <1>2
    <2> QED BY <1>2, <2>1 DEF Off, WholePieces
<1>5. R \in Nat /\ R <= Spare
    BY <1>1
<1>6. w * F \in Nat /\ Cap * F \in Nat
    BY <1>1, <1>3
<1>7. w * F + R <= Cap * F + Spare
    BY <1>1, <1>4
<1> HIDE DEF w, F, R, l
<1>8. w <= Cap
    <2> SUFFICES ASSUME ~(w <= Cap) PROVE FALSE
        OBVIOUS
    <2>1. Cap + 1 \in Nat /\ Cap + 1 <= w
        BY <1>1, <1>3
    <2>2. (Cap + 1) * F <= w * F
        BY <1>1, <1>3, <2>1, TimesRises
    <2>3. (Cap + 1) * F = Cap * F + F
        BY <1>1
    <2> QED BY <1>1, <1>5, <1>6, <1>7, <2>2, <2>3
<1>9. w < Cap => l + F <= QueueSize
    <2> SUFFICES ASSUME w < Cap PROVE l + F <= QueueSize
        OBVIOUS
    <2>1. w + 1 \in Nat /\ w + 1 <= Cap
        BY <1>1, <1>3
    <2>2. (w + 1) * F <= Cap * F
        BY <1>1, <2>1, TimesRises
    <2>3. (w + 1) * F = w * F + F
        BY <1>1, <1>3
    <2> QED BY <1>1, <1>4, <1>5, <1>6, <2>2, <2>3
<1>10. w = Cap => ~(l + F <= QueueSize) /\ l = Cap * F + R
    <2> SUFFICES ASSUME w = Cap PROVE ~(l + F <= QueueSize) /\ l = Cap * F + R
        OBVIOUS
    <2>1. l = Cap * F + R
        BY <1>4
    <2> QED BY <1>1, <1>5, <1>6, <2>1
<1>11. w = Cap => l = IF t = 0 THEN QueueSize - Spare ELSE QueueSize
    BY <1>1, <1>6, <1>10 DEF R
<1>12. l + F <= QueueSize <=> w < Cap
    BY <1>1, <1>3, <1>8, <1>9, <1>10
<1> QED BY <1>3, <1>8, <1>11, <1>12 DEF w, l, F

\* As OutQueue counts them.
LEMMA WholeIs ==
    ASSUME NEW n \in Nat, NEW t \in 0..n, NEW ms \in [1..n -> Message], "TORN" \notin Message
    PROVE  Whole!Whole(Elements(n, t, ms)) = WholePieces(n, t)
<1> DEFINE q == Elements(n, t, ms)
           S == {i \in DOMAIN q : q[i] # Whole!TORN}
<1>1. DOMAIN q = 1..n /\ \A i \in 1..n : q[i] = IF i = t THEN Whole!TORN ELSE [type |-> ms[i]]
    BY DEF Elements
<1>2. ASSUME NEW i \in 1..n, i # t PROVE q[i] # Whole!TORN
    <2>1. ms[i] \in Message /\ q[i] = [type |-> ms[i]]
        BY <1>1, <1>2
    <2>2. ms[i] # "TORN"
        BY <2>1
    <2>3. q[i].type # Whole!TORN.type
        BY <2>1, <2>2 DEF Whole!TORN
    <2> QED BY <2>3
<1>3. S = 1..n \ {t}
    BY <1>1, <1>2
<1>4. IsFiniteSet(1..n) /\ Cardinality(1..n) = n
    <2>1. 1 \in Int /\ n \in Int /\ n - 1 + 1 = n /\ (1 <= n \/ n = 0)
        OBVIOUS
    <2> QED BY <2>1, FS_Interval
<1>5. Cardinality(1..n \ {t}) = WholePieces(n, t)
    <2>1. CASE t = 0
        <3>1. 1..n \ {t} = 1..n
            BY <2>1
        <3> QED BY <1>4, <2>1, <3>1 DEF WholePieces
    <2>2. CASE t # 0
        <3>1. t \in 1..n
            BY <2>2
        <3>2. Cardinality(1..n \ {t}) = Cardinality(1..n) - 1
            BY <1>4, <3>1, FS_RemoveElement
        <3> QED BY <1>4, <2>2, <3>2 DEF WholePieces
    <2> QED BY <2>1, <2>2
<1>6. Whole!Whole(q) = Cardinality(S)
    BY DEF Whole!Whole, Whole!Cardinality, Cardinality
<1> QED BY <1>3, <1>5, <1>6

\* A torn piece is the one that is there, if any.
LEMMA TornIs ==
    ASSUME NEW n \in Nat, NEW t \in 0..n, NEW ms \in [1..n -> Message], "TORN" \notin Message
    PROVE  (\E i \in DOMAIN Elements(n, t, ms) : Elements(n, t, ms)[i] = Whole!TORN) <=> t # 0
<1> DEFINE q == Elements(n, t, ms)
<1>1. DOMAIN q = 1..n /\ \A i \in 1..n : q[i] = IF i = t THEN Whole!TORN ELSE [type |-> ms[i]]
    BY DEF Elements
<1>2. ASSUME NEW i \in 1..n, i # t PROVE q[i] # Whole!TORN
    <2>1. ms[i] \in Message /\ q[i] = [type |-> ms[i]]
        BY <1>1, <1>2
    <2>2. ms[i] # "TORN"
        BY <2>1
    <2>3. q[i].type # Whole!TORN.type
        BY <2>1, <2>2 DEF Whole!TORN
    <2> QED BY <2>3
<1>3. t # 0 => t \in 1..n /\ q[t] = Whole!TORN
    BY <1>1
<1>4. (\E i \in 1..n : q[i] = Whole!TORN) <=> t # 0
    <2> HIDE DEF q
    <2>1. CASE t = 0
        <3>1. \A i \in 1..n : i # t
            BY <2>1
        <3> QED BY <1>2, <2>1, <3>1
    <2>2. CASE t # 0
        BY <1>3, <2>2
    <2> QED BY <2>1, <2>2
<1> QED BY <1>1, <1>4

\* One more piece, whole or torn, behind the others.
LEMMA OneMore ==
    ASSUME OneLength, NEW r, NEW n, NEW t, NEW ms, IsPieces(r, n, t, ms), NEW m \in Message,
           NEW u, u = t \/ (u = n + 1 /\ t = 0),
           NEW x \in Seq(Octet), Len(x) = Len(r) + Width(u, n + 1),
           \A i \in 1..Len(r) : x[i] = r[i],
           \A i \in 1..Width(u, n + 1) : x[Len(r) + i] = Frame(m)[i]
    PROVE  \E ns : /\ IsPieces(x, n + 1, u, ns)
                   /\ Elements(n + 1, u, ns) = [k \in 1..n + 1 |->
                         IF k # n + 1 THEN Elements(n, t, ms)[k]
                         ELSE IF u = n + 1 THEN Whole!TORN ELSE [type |-> m]]
<1> DEFINE ns == [k \in 1..n + 1 |-> IF k = n + 1 THEN m ELSE ms[k]]
<1>1. n \in Nat /\ t \in 0..n /\ t \in Nat /\ ms \in [1..n -> Message] /\ Len(r) = Off(t, n) /\ Len(r) \in Nat
    BY DEF IsPieces
<1>2. u \in 0..n + 1 /\ u \in Nat /\ n + 1 \in Nat /\ (u = t \/ u = n + 1) /\ (u = n + 1 => t = 0)
    BY <1>1
<1>3. ns \in [1..n + 1 -> Message] /\ ns[n + 1] = m /\ \A k \in 1..n : ns[k] = ms[k]
    BY <1>1
<1>4. \A k \in 0..n : Off(u, k) = Off(t, k)
    <2> TAKE k \in 0..n
    <2>1. CASE u = t
        BY <2>1
    <2>2. CASE u = n + 1
        <3>1. k < u /\ t = 0
            BY <1>1, <1>2, <2>2
        <3> QED BY <3>1 DEF Off
    <2> QED BY <1>2, <2>1, <2>2
<1>5. \A k \in 1..n : Width(u, k) = Width(t, k)
    <2> TAKE k \in 1..n
    <2>1. CASE u = t
        BY <2>1
    <2>2. CASE u = n + 1
        <3>1. k # u /\ k # t
            BY <1>1, <2>2
        <3> QED BY <3>1 DEF Width
    <2> QED BY <2>1, <2>2
<1> HIDE DEF ns
<1>6. n + 1 \in Nat \ {0} /\ (n + 1) - 1 = n /\ n \in 0..n
    BY <1>1
<1>7. Len(x) = Off(u, n + 1)
    <2>1. Off(u, n + 1) = Off(u, n) + Width(u, n + 1)
        BY <1>2, <1>6, OffStep
    <2> QED BY <1>1, <1>4, <1>6, <2>1
<1>8. ASSUME NEW k \in 1..n + 1, NEW i \in 1..Width(u, k) PROVE x[Off(u, k - 1) + i] = Frame(ns[k])[i]
    <2>1. CASE k = n + 1
        <3>1. k - 1 = n /\ Off(u, k - 1) = Len(r)
            BY <1>1, <1>4, <1>6, <2>1
        <3> QED BY <1>3, <2>1, <3>1
    <2>2. CASE k # n + 1
        <3>1. k \in 1..n /\ k - 1 \in 0..n
            BY <1>1, <2>2
        <3>2. Off(u, k - 1) = Off(t, k - 1) /\ i \in 1..Width(t, k)
            BY <1>4, <1>5, <3>1
        <3>3. r[Off(t, k - 1) + i] = Frame(ms[k])[i]
            BY <3>1, <3>2 DEF IsPieces
        <3>4. Off(t, k - 1) + i \in 1..Len(r)
            <4>1. /\ Off(t, k - 1) \in Nat /\ Off(t, k) <= Len(r) /\ Off(t, k) = Off(t, k - 1) + Width(t, k)
                  /\ Width(t, k) \in Nat /\ Len(r) \in Nat
                BY <3>1, PieceIs
            <4> QED BY <3>2, <4>1
        <3> QED BY <1>3, <3>1, <3>2, <3>3, <3>4
    <2> QED BY <2>1, <2>2
<1>9. IsPieces(x, n + 1, u, ns)
    BY <1>2, <1>3, <1>7, <1>8 DEF IsPieces
<1>10. ASSUME NEW k \in 1..n + 1
       PROVE  (IF k = u THEN Whole!TORN ELSE [type |-> ns[k]]) =
                  IF k # n + 1 THEN Elements(n, t, ms)[k]
                  ELSE IF u = n + 1 THEN Whole!TORN ELSE [type |-> m]
    <2>1. CASE k = n + 1
        <3>1. ns[k] = m
            BY <1>3, <2>1
        <3> QED BY <2>1, <3>1
    <2>2. CASE k # n + 1
        <3>1. k \in 1..n
            BY <1>1, <2>2
        <3>2. k = u <=> k = t
            BY <1>1, <2>2, <3>1
        <3>3. Elements(n, t, ms)[k] = IF k = t THEN Whole!TORN ELSE [type |-> ms[k]]
            BY <3>1 DEF Elements
        <3> QED BY <1>3, <2>2, <3>1, <3>2, <3>3
    <2> QED BY <2>1, <2>2
<1>11. Elements(n + 1, u, ns) = [k \in 1..n + 1 |->
                         IF k # n + 1 THEN Elements(n, t, ms)[k]
                         ELSE IF u = n + 1 THEN Whole!TORN ELSE [type |-> m]]
    BY <1>10 DEF Elements
<1> QED BY <1>9, <1>11

\* Appending to what a function on 1..n gives.
LEMMA AppendTo ==
    ASSUME NEW n \in Nat, NEW f, NEW q, q = [k \in 1..n |-> f[k]], NEW e
    PROVE  /\ Append(q, e) = [k \in 1..n + 1 |-> IF k # n + 1 THEN q[k] ELSE e]
           /\ q \o <<e>> = [k \in 1..n + 1 |-> IF k # n + 1 THEN q[k] ELSE e]
           /\ q \o SubSeq(<<e>>, 1, 0) = q /\ Len(<<e>>) = 1
<1> DEFINE S == {f[k] : k \in 1..n} \cup {e}
           g == [k \in 1..n + 1 |-> IF k # n + 1 THEN q[k] ELSE e]
<1>1. q \in Seq(S) /\ Len(q) = n /\ e \in S
    <2>1. \A k \in 1..n : f[k] \in S
        OBVIOUS
    <2> HIDE DEF S
    <2>2. q \in [1..n -> S] /\ n \in Nat
        BY <2>1
    <2>3. e \in S
        BY DEF S
    <2> QED BY <2>2, <2>3
<1>2. g \in Seq(S) /\ Len(g) = n + 1
    <2>1. \A k \in 1..n : q[k] \in S
        OBVIOUS
    <2> HIDE DEF S
    <2>2. g \in [1..n + 1 -> S] /\ n + 1 \in Nat
        BY <1>1, <2>1
    <2> HIDE DEF g
    <2> QED BY <2>2
<1> HIDE DEF S
<1>3. Append(q, e) = g
    <2>1. /\ Append(q, e) \in Seq(S) /\ Len(Append(q, e)) = n + 1
          /\ \A k \in 1..n + 1 : Append(q, e)[k] = IF k # n + 1 THEN q[k] ELSE e
        BY <1>1, AppendProperties
    <2>2. \A k \in 1..n + 1 : g[k] = IF k # n + 1 THEN q[k] ELSE e
        OBVIOUS
    <2> HIDE DEF g
    <2> QED BY <1>2, <2>1, <2>2, SeqEqual
<1>4. q \o <<e>> = g
    <2>1. Append(q, e) = q \o <<e>>
        BY <1>1, AppendIsConcat
    <2> QED BY <1>3, <2>1
<1>5. SubSeq(<<e>>, 1, 0) = <<>> /\ Len(<<e>>) = 1
    OBVIOUS
<1>6. q \o <<>> = q
    BY <1>1, ConcatEmptySeq
<1> QED BY <1>3, <1>4, <1>5, <1>6

LEMMA ElementsAre ==
    ASSUME NEW n \in Nat, NEW t, NEW ms
    PROVE  Elements(n, t, ms) = [k \in 1..n |-> Elements(n, t, ms)[k]]
BY DEF Elements

\* QUEUE_Puts has the effect that OutQueue gives it.
LEMMA PutsAsOutQueue ==
    ASSUME OneLength, "TORN" \notin Message, NEW m \in Message,
           NEW r, NEW n, NEW t, NEW ms, IsPieces(r, n, t, ms), Len(r) <= QueueSize
    PROVE  /\ Len(PROTO_AddRb(r, m)) <= QueueSize
           /\ \E a, u, ns : IsPieces(PROTO_AddRb(r, m), a, u, ns)
           /\ Frames(PROTO_AddRb(r, m)) = Whole!Puts(Frames(r), <<[type |-> m]>>)
<1> DEFINE f == Frame(m)
           l == Len(r)
           F == FrameLength
           j == r \o f
           q == Elements(n, t, ms)
           e == [type |-> m]
           w == WholePieces(n, t)
           x == PROTO_AddRb(r, m)
<1>1. /\ n \in Nat /\ t \in 0..n /\ ms \in [1..n -> Message]
      /\ r \in Seq(Octet) /\ l \in Nat /\ l <= QueueSize /\ QueueSize \in Nat
    BY QueueSizeAssumption DEF IsPieces
<1>2. IsFrame(f) /\ Len(f) = F
    BY FrameIs DEF OneLength
<1>3. F \in Nat /\ F >= 1 /\ Spare \in Nat /\ Spare < F /\ Cap \in Nat
    BY SizesAre
<1>4. /\ j \in Seq(Octet) /\ Len(j) = l + F
      /\ \A k \in 1..l : j[k] = r[k]
      /\ \A k \in 1..F : j[l + k] = f[k]
    <2>1. j \in Seq(Octet) /\ Len(j) = l + Len(f)
        <3>1. r \in Seq(Octet) /\ f \in Seq(Octet)
            BY <1>1, <1>2 DEF IsFrame
        <3> HIDE DEF f
        <3> QED BY <3>1, ConcatProperties
    <2>2. r \in Seq(Nat) /\ f \in Seq(Nat)
        BY <1>1, <1>2, OctetsAreNumbers DEF IsFrame
    <2>3. IsJoin(j, r, f, l, Len(f))
        BY <2>2, Join
    <2> QED BY <1>2, <2>1, <2>3 DEF IsJoin
<1>5. Frames(r) = q
    BY FramesAre
<1>6. /\ w \in Nat /\ w <= Cap
      /\ l + F <= QueueSize <=> w < Cap
      /\ w = Cap => l = IF t = 0 THEN QueueSize - Spare ELSE QueueSize
    BY RoomIs
<1>7. Whole!Room(q) = Cap - w /\ ((\E i \in DOMAIN q : q[i] = Whole!TORN) <=> t # 0)
    <2>1. Whole!Whole(q) = w
        BY <1>1, WholeIs
    <2>2. Whole!Room(q) = IF w < Cap THEN Cap - w ELSE 0
        BY <2>1 DEF Whole!Room, Cap
    <2>3. w < Cap \/ w = Cap
        BY <1>3, <1>6
    <2> HIDE DEF w
    <2>4. Whole!Room(q) = Cap - w
        BY <1>3, <1>6, <2>2, <2>3
    <2> QED BY <1>1, <2>4, TornIs
<1>8. /\ Append(q, Whole!TORN) = [k \in 1..n + 1 |-> IF k # n + 1 THEN q[k] ELSE Whole!TORN]
      /\ q \o <<e>> = [k \in 1..n + 1 |-> IF k # n + 1 THEN q[k] ELSE e]
      /\ q \o SubSeq(<<e>>, 1, 0) = q /\ Len(<<e>>) = 1
    <2>1. q = [k \in 1..n |-> q[k]]
        BY <1>1, ElementsAre
    <2> HIDE DEF q, e
    <2> QED BY <1>1, <2>1, AppendTo
<1>9. Whole!Puts(q, <<e>>) =
          IF Len(<<e>>) <= Whole!Room(q) THEN q \o <<e>>
          ELSE LET fitting == q \o SubSeq(<<e>>, 1, Whole!Room(q))
               IN  IF \E i \in DOMAIN q : q[i] = Whole!TORN THEN fitting ELSE Append(fitting, Whole!TORN)
    BY DEF Whole!Puts
<1> DEFINE Told(z) == /\ Len(z) <= QueueSize
                      /\ \E a, u, ns : IsPieces(z, a, u, ns)
                      /\ Frames(z) = Whole!Puts(Frames(r), <<[type |-> m]>>)
<1>10. x = IF l + F <= QueueSize THEN j ELSE SubSeq(j, 1, QueueSize)
    BY <1>2 DEF PROTO_AddRb, Fits
<1> HIDE DEF f, l, F, j, q, w, x, e
<1>11. CASE l + F <= QueueSize
    <2>1. t # n + 1 /\ n + 1 \in 1..n + 1
        BY <1>1
    <2>2. Width(t, n + 1) = F
        BY <2>1 DEF Width, F
    <2>3. PICK ns : /\ IsPieces(j, n + 1, t, ns)
                    /\ Elements(n + 1, t, ns) = [k \in 1..n + 1 |->
                          IF k # n + 1 THEN q[k] ELSE IF t = n + 1 THEN Whole!TORN ELSE e]
        <3>1. /\ j \in Seq(Octet) /\ Len(j) = Len(r) + Width(t, n + 1)
              /\ \A i \in 1..Len(r) : j[i] = r[i]
              /\ \A i \in 1..Width(t, n + 1) : j[Len(r) + i] = Frame(m)[i]
            BY <1>4, <2>2 DEF l, f
        <3>2. \E ns : /\ IsPieces(j, n + 1, t, ns)
                      /\ Elements(n + 1, t, ns) = [k \in 1..n + 1 |->
                            IF k # n + 1 THEN Elements(n, t, ms)[k]
                            ELSE IF t = n + 1 THEN Whole!TORN ELSE [type |-> m]]
            BY <3>1, OneMore
        <3> QED BY <3>2 DEF q, e
    <2>4. Elements(n + 1, t, ns) = [k \in 1..n + 1 |-> IF k # n + 1 THEN q[k] ELSE e]
        BY <2>1, <2>3
    <2>5. Whole!Puts(q, <<e>>) = q \o <<e>>
        <3>1. Len(<<e>>) <= Whole!Room(q)
            BY <1>3, <1>6, <1>7, <1>8, <1>11
        <3> QED BY <1>9, <3>1
    <2>6. Frames(j) = Whole!Puts(q, <<e>>)
        <3>1. Frames(j) = Elements(n + 1, t, ns)
            BY <2>3, FramesAre
        <3> QED BY <1>8, <2>4, <2>5, <3>1
    <2>7. Len(j) <= QueueSize
        BY <1>4, <1>11
    <2> QED BY <1>5, <1>10, <1>11, <2>3, <2>6, <2>7 DEF x, e
<1>12. CASE ~(l + F <= QueueSize)
    <2> DEFINE z == SubSeq(j, 1, QueueSize)
    <2>1. w = Cap /\ l = IF t = 0 THEN QueueSize - Spare ELSE QueueSize
        BY <1>3, <1>6, <1>12
    <2>2. z \in Seq(Octet) /\ Len(z) = QueueSize /\ \A k \in 1..QueueSize : z[k] = j[k]
        <3>1. \A k \in 1..QueueSize : j[k] \in Octet
            <4>1. \A k \in 1..QueueSize : k \in 1..Len(j)
                BY <1>1, <1>3, <1>4, <1>12
            <4> QED BY <1>4, <4>1
        <3>2. /\ z \in Seq(Octet) /\ Len(z) = IF 1 <= QueueSize THEN QueueSize - 1 + 1 ELSE 0
              /\ \A k \in 1..QueueSize - 1 + 1 : z[k] = j[1 + k - 1]
            BY <1>1, <3>1, SubSeqProperties
        <3> HIDE DEF z
        <3>3. QueueSize - 1 + 1 = QueueSize /\ \A k \in 1..QueueSize : 1 + k - 1 = k
            BY <1>1
        <3> QED BY <1>1, <3>2, <3>3, QueueSizeAssumption
    <2> HIDE DEF z
    <2>3. QueueSize <= QueueSize
        BY <1>1
    <2>4. Whole!Room(q) = 0 /\ ~(Len(<<e>>) <= Whole!Room(q))
        BY <1>3, <1>7, <1>8, <2>1
    <2>5. Whole!Puts(q, <<e>>) = IF t # 0 THEN q ELSE Append(q, Whole!TORN)
        BY <1>7, <1>8, <1>9, <2>4
    <2>6. CASE t # 0
        <3>1. l = QueueSize
            BY <2>1, <2>6
        <3>2. z = r
            <4>1. Len(z) = Len(r) /\ \A k \in 1..Len(z) : z[k] = r[k]
                BY <1>4, <2>2, <3>1 DEF l
            <4> QED BY <1>1, <2>2, <4>1, SeqEqual
        <3>3. Frames(z) = Whole!Puts(q, <<e>>)
            BY <1>5, <2>5, <2>6, <3>2
        <3> QED BY <1>5, <1>10, <1>12, <2>2, <2>3, <3>2, <3>3 DEF x, e, z
    <2>7. CASE t = 0
        <3>1. l = QueueSize - Spare
            BY <2>1, <2>7
        <3>2. Width(n + 1, n + 1) = Spare
            BY DEF Width
        <3>3. Len(z) = l + Spare /\ \A i \in 1..l : z[i] = r[i]
            <4>1. \A i \in 1..l : i \in 1..QueueSize
                BY <1>1
            <4> QED BY <1>1, <1>3, <1>4, <2>2, <3>1, <4>1
        <3>4. \A i \in 1..Spare : z[l + i] = f[i]
            <4> TAKE i \in 1..Spare
            <4>1. l + i \in 1..QueueSize /\ i \in 1..F
                BY <1>1, <1>3, <3>1
            <4> QED BY <1>4, <2>2, <4>1
        <3>5. PICK ns : /\ IsPieces(z, n + 1, n + 1, ns)
                        /\ Elements(n + 1, n + 1, ns) = [k \in 1..n + 1 |->
                              IF k # n + 1 THEN q[k] ELSE IF n + 1 = n + 1 THEN Whole!TORN ELSE e]
            <4>1. /\ z \in Seq(Octet) /\ Len(z) = Len(r) + Width(n + 1, n + 1)
                  /\ \A i \in 1..Len(r) : z[i] = r[i]
                  /\ \A i \in 1..Width(n + 1, n + 1) : z[Len(r) + i] = Frame(m)[i]
                BY <2>2, <3>2, <3>3, <3>4 DEF l, f
            <4> DEFINE u == n + 1
            <4>2. u = t \/ (u = n + 1 /\ t = 0)
                BY <2>7
            <4>3. /\ z \in Seq(Octet) /\ Len(z) = Len(r) + Width(u, n + 1)
                  /\ \A i \in 1..Len(r) : z[i] = r[i]
                  /\ \A i \in 1..Width(u, n + 1) : z[Len(r) + i] = Frame(m)[i]
                BY <4>1
            <4> HIDE DEF u
            <4>4. \E ns : /\ IsPieces(z, n + 1, u, ns)
                          /\ Elements(n + 1, u, ns) = [k \in 1..n + 1 |->
                                IF k # n + 1 THEN Elements(n, t, ms)[k]
                                ELSE IF u = n + 1 THEN Whole!TORN ELSE [type |-> m]]
                BY <4>2, <4>3, OneMore
            <4> QED BY <4>4 DEF u, q, e
        <3>6. Elements(n + 1, n + 1, ns) = Append(q, Whole!TORN)
            BY <1>8, <3>5
        <3>7. Frames(z) = Whole!Puts(q, <<e>>)
            BY <2>5, <2>7, <3>5, <3>6, FramesAre
        <3> QED BY <1>5, <1>10, <1>12, <2>2, <2>3, <3>5, <3>7 DEF x, e, z
    <2> QED BY <2>6, <2>7
<1> QED BY <1>11, <1>12

\* Behind the first j pieces are the others.
Later(t, j) == IF t <= j THEN 0 ELSE t - j

LEMMA OffShifts ==
    ASSUME OneLength, NEW t \in Nat, NEW j \in Nat, NEW k \in Nat
    PROVE  /\ Off(Later(t, j), k) = Off(t, k + j) - Off(t, j)
           /\ k # 0 => Width(Later(t, j), k) = Width(t, k + j)
<1> DEFINE F == FrameLength
           u == Later(t, j)
<1>1. F \in Nat /\ Spare \in Nat
    BY SizesAre
<1>2. k # 0 => Width(u, k) = Width(t, k + j)
    BY DEF Width, Later
<1>3. k * F \in Nat /\ j * F \in Nat /\ (k + j) * F = k * F + j * F
    BY <1>1
<1>4. /\ (k - 1) * F = k * F - F /\ (j - 1) * F = j * F - F
      /\ ((k + j) - 1) * F = k * F + j * F - F
    BY <1>1
<1> HIDE DEF F
<1>5. CASE t = 0
    <2>1. u = 0
        BY <1>5 DEF Later
    <2> QED BY <1>2, <1>3, <1>5, <2>1 DEF Off, F
<1>6. CASE t # 0 /\ t <= j
    <2>1. u = 0 /\ ~(k + j < t) /\ ~(j < t)
        BY <1>6 DEF Later
    <2>2. Off(u, k) = k * F /\ Off(t, k + j) = ((k + j) - 1) * F + Spare /\ Off(t, j) = (j - 1) * F + Spare
        BY <1>6, <2>1 DEF Off, F
    <2>3. Off(u, k) = Off(t, k + j) - Off(t, j)
        BY <1>1, <1>3, <1>4, <2>2
    <2> QED BY <1>2, <2>3
<1>7. CASE t > j
    <2>1. u = t - j /\ u # 0 /\ t # 0 /\ j < t /\ (k < u <=> k + j < t)
        BY <1>7 DEF Later
    <2>2. Off(t, j) = j * F
        BY <2>1 DEF Off, F
    <2>3. CASE k < u
        <3>1. Off(u, k) = k * F /\ Off(t, k + j) = (k + j) * F
            BY <2>1, <2>3 DEF Off, F
        <3> QED BY <1>2, <1>3, <2>2, <3>1
    <2>4. CASE ~(k < u)
        <3>1. Off(u, k) = (k - 1) * F + Spare /\ Off(t, k + j) = ((k + j) - 1) * F + Spare
            BY <2>1, <2>4 DEF Off, F
        <3>2. Off(u, k) = Off(t, k + j) - Off(t, j)
            BY <1>1, <1>3, <1>4, <2>2, <3>1
        <3> QED BY <1>2, <3>2
    <2> QED BY <2>3, <2>4
<1> QED BY <1>5, <1>6, <1>7

LEMMA WithoutFirst ==
    ASSUME OneLength, NEW r, NEW n, NEW t, NEW ms, IsPieces(r, n, t, ms), NEW j \in 0..n
    PROVE  \E ns : /\ IsPieces(Behind(r, Off(t, j)), n - j, Later(t, j), ns)
                   /\ Elements(n - j, Later(t, j), ns) = [k \in 1..n - j |-> Elements(n, t, ms)[k + j]]
                   /\ Len(Behind(r, Off(t, j))) <= Len(r)
<1> DEFINE s == Off(t, j)
           u == Later(t, j)
           b == Behind(r, s)
           ns == [k \in 1..n - j |-> ms[k + j]]
<1>1. /\ n \in Nat /\ t \in 0..n /\ t \in Nat /\ ms \in [1..n -> Message] /\ r \in Seq(Octet)
      /\ Len(r) \in Nat /\ Len(r) = Off(t, n)
    BY DEF IsPieces
<1>2. s \in Nat /\ s <= Len(r) /\ j \in Nat /\ n - j \in Nat /\ (n - j) + j = n
    <2>1. j \in Nat /\ n \in 0..n /\ j <= n /\ n - j \in Nat /\ (n - j) + j = n
        BY <1>1
    <2>2. s \in Nat /\ s <= Off(t, n)
        BY <1>1, <2>1, OffRises, OffStep
    <2> QED BY <1>1, <2>1, <2>2
<1>3. b \in Seq(Octet) /\ Len(b) = Len(r) - s /\ \A x \in 1..Len(r) - s : b[x] = r[s + x]
    BY <1>1, <1>2, BehindIs
<1>4. u \in 0..n - j
    BY <1>1, <1>2 DEF Later
<1>5. \A k \in 1..n - j : k + j \in 1..n /\ k \in Nat /\ k # 0 /\ k - 1 \in Nat /\ (k + j) - 1 = (k - 1) + j
    BY <1>1, <1>2
<1>6. ns \in [1..n - j -> Message]
    BY <1>1, <1>5
<1> HIDE DEF s, u, b
<1>7. \A k \in Nat : Off(u, k) = Off(t, k + j) - s
    BY <1>1, <1>2, OffShifts DEF u, s
<1>8. \A k \in Nat \ {0} : Width(u, k) = Width(t, k + j)
    BY <1>1, <1>2, OffShifts DEF u
<1>9. Len(b) = Off(u, n - j)
    BY <1>1, <1>2, <1>3, <1>7
<1>10. ASSUME NEW k \in 1..n - j, NEW x \in 1..Width(u, k) PROVE b[Off(u, k - 1) + x] = Frame(ns[k])[x]
    <2> DEFINE h == k + j
    <2>1. h \in 1..n /\ k \in Nat \ {0} /\ k - 1 \in Nat /\ h - 1 = (k - 1) + j /\ h - 1 \in Nat
        BY <1>2, <1>5
    <2>2. Width(u, k) = Width(t, h) /\ Off(u, k - 1) = Off(t, h - 1) - s
        BY <1>7, <1>8, <2>1
    <2>3. ns[k] = ms[h]
        OBVIOUS
    <2> HIDE DEF h, ns
    <2>4. r[Off(t, h - 1) + x] = Frame(ms[h])[x]
        BY <2>1, <2>2 DEF IsPieces
    <2>5. /\ Off(t, h - 1) \in Nat /\ Off(t, h) <= Len(r) /\ Off(t, h) = Off(t, h - 1) + Width(t, h)
          /\ Width(t, h) \in Nat
        BY <2>1, PieceIs
    <2>6. s <= Off(t, h - 1)
        <3>1. h - 1 \in 0..n /\ j <= h - 1
            BY <1>1, <1>2, <2>1
        <3> QED BY <1>1, <1>2, <3>1, OffRises DEF s
    <2>7. Off(u, k - 1) + x \in 1..Len(r) - s /\ s + (Off(u, k - 1) + x) = Off(t, h - 1) + x
        BY <1>1, <1>2, <2>2, <2>5, <2>6
    <2> QED BY <1>3, <2>3, <2>4, <2>7
<1>11. IsPieces(b, n - j, u, ns)
    BY <1>2, <1>3, <1>4, <1>6, <1>9, <1>10 DEF IsPieces
<1>12. ASSUME NEW k \in 1..n - j
       PROVE  (IF k = u THEN Whole!TORN ELSE [type |-> ns[k]]) = Elements(n, t, ms)[k + j]
    <2>1. k + j \in 1..n
        BY <1>5
    <2>2. k = u <=> k + j = t
        BY <1>1, <1>2 DEF u, Later
    <2>3. Elements(n, t, ms)[k + j] = IF k + j = t THEN Whole!TORN ELSE [type |-> ms[k + j]]
        BY <2>1 DEF Elements
    <2> QED BY <2>2, <2>3
<1>13. Elements(n - j, u, ns) = [k \in 1..n - j |-> Elements(n, t, ms)[k + j]]
    BY <1>12 DEF Elements
<1>14. Len(b) <= Len(r)
    BY <1>1, <1>2, <1>3
<1> QED BY <1>11, <1>13, <1>14 DEF b, u, s

\* How many pieces QUEUE_Gets takes out: a torn one together with the one behind it.
Taken(n, t) == IF n = 0 THEN 0 ELSE IF t = 1 /\ n >= 2 THEN 2 ELSE 1

LEMMA ConsumedPieces ==
    ASSUME OneLength, NEW r, NEW n, NEW t, NEW ms, IsPieces(r, n, t, ms)
    PROVE  Taken(n, t) \in 0..n /\ Consumed(r) = Off(t, Taken(n, t))
<1>1. /\ n \in Nat /\ t \in 0..n /\ t \in Nat /\ r \in Seq(Octet)
      /\ Len(r) \in Nat /\ Len(r) = Off(t, n) /\ Off(t, 0) = 0
    BY OffStep DEF IsPieces
<1>2. Taken(n, t) \in 0..n
    BY <1>1 DEF Taken
<1>3. CASE n = 0
    <2>1. \A k \in 1..Len(r) : r[k] # END
        BY <1>1, <1>3
    <2> QED BY <1>1, <1>2, <1>3, <2>1, ConsumedAll DEF Taken
<1>4. CASE n # 0 /\ t # 1
    <2>1. 1 \in 1..n /\ 1 - 1 = 0 /\ Taken(n, t) = 1
        BY <1>1, <1>4 DEF Taken
    <2>2. Width(t, 1) = FrameLength
        BY <1>4 DEF Width
    <2>3. /\ Off(t, 1) <= Len(r) /\ Off(t, 1) = 0 + Width(t, 1) /\ Width(t, 1) \in Nat /\ Width(t, 1) >= 1
          /\ \A x \in 1..Width(t, 1) : r[0 + x] = END <=> 1 # t /\ x = FrameLength
        <3>1. Off(t, 1 - 1) = 0
            BY <1>1, <2>1
        <3>2. /\ Off(t, 1) <= Len(r) /\ Off(t, 1) = Off(t, 1 - 1) + Width(t, 1)
              /\ Width(t, 1) \in Nat /\ Width(t, 1) >= 1
              /\ \A x \in 1..Width(t, 1) : r[Off(t, 1 - 1) + x] = END <=> 1 # t /\ x = FrameLength
            BY <2>1, PieceIs
        <3> QED BY <3>1, <3>2
    <2> DEFINE e == Off(t, 1)
    <2>4. e \in 1..Len(r) /\ e = FrameLength
        BY <1>1, <2>2, <2>3
    <2>5. \A x \in 1..e : 0 + x = x /\ (r[x] = END <=> x = e)
        BY <1>4, <2>2, <2>3, <2>4
    <2> HIDE DEF e
    <2>6. r[e] = END /\ \A x \in 1..e - 1 : r[x] # END
        BY <2>4, <2>5
    <2>7. Consumed(r) = e
        BY <1>1, <2>4, <2>6, ConsumedIs
    <2> QED BY <1>2, <2>1, <2>7 DEF e
<1>5. CASE t = 1
    <2>1. 1 \in 1..n /\ 1 - 1 = 0 /\ n >= 1
        BY <1>1, <1>5
    <2>2. /\ Off(t, 1) <= Len(r) /\ Off(t, 1) = 0 + Width(t, 1) /\ Width(t, 1) \in Nat /\ Width(t, 1) >= 1
          /\ \A x \in 1..Width(t, 1) : r[0 + x] = END <=> 1 # t /\ x = FrameLength
        <3>1. Off(t, 1 - 1) = 0
            BY <1>1, <2>1
        <3>2. /\ Off(t, 1) <= Len(r) /\ Off(t, 1) = Off(t, 1 - 1) + Width(t, 1)
              /\ Width(t, 1) \in Nat /\ Width(t, 1) >= 1
              /\ \A x \in 1..Width(t, 1) : r[Off(t, 1 - 1) + x] = END <=> 1 # t /\ x = FrameLength
            BY <2>1, PieceIs
        <3> QED BY <3>1, <3>2
    <2> DEFINE d == Off(t, 1)
    <2>3. d \in Nat /\ d >= 1 /\ d = Width(t, 1) /\ d <= Len(r)
        BY <2>2
    <2>4. \A x \in 1..d : r[x] # END
        <3> TAKE x \in 1..d
        <3>1. 0 + x = x /\ x \in 1..Width(t, 1)
            BY <2>3
        <3> QED BY <1>5, <2>2, <3>1
    <2> HIDE DEF d
    <2>5. CASE n = 1
        <3>1. Taken(n, t) = 1 /\ Len(r) = d
            BY <1>1, <2>5 DEF Taken, d
        <3>2. Consumed(r) = Len(r)
            BY <1>1, <2>4, <3>1, ConsumedAll
        <3> QED BY <1>2, <3>1, <3>2 DEF d
    <2>6. CASE n # 1
        <3>1. n >= 2 /\ 2 \in 1..n /\ 2 - 1 = 1 /\ Taken(n, t) = 2
            BY <1>1, <1>5, <2>1, <2>6 DEF Taken
        <3>2. Width(t, 2) = FrameLength
            BY <1>5 DEF Width
        <3> DEFINE e == Off(t, 2)
        <3>3. /\ e <= Len(r) /\ e = d + FrameLength /\ FrameLength \in Nat /\ FrameLength >= 1
              /\ \A x \in 1..FrameLength : r[d + x] = END <=> 2 # t /\ x = FrameLength
            BY <3>1, <3>2, PieceIs DEF d
        <3> HIDE DEF e
        <3>4. e \in 1..Len(r)
            BY <1>1, <2>3, <3>3
        <3>5. r[e] = END
            BY <1>5, <3>3
        <3>6. \A x \in 1..e - 1 : r[x] # END
            <4> TAKE x \in 1..e - 1
            <4>1. CASE x <= d
                BY <2>3, <2>4, <4>1
            <4>2. CASE x > d
                <5> DEFINE y == x - d
                <5>1. y \in 1..FrameLength /\ y # FrameLength /\ d + y = x
                    BY <2>3, <3>3, <4>2
                <5> HIDE DEF y
                <5> QED BY <3>3, <5>1
            <4> QED BY <2>3, <4>1, <4>2
        <3>7. Consumed(r) = e
            BY <1>1, <3>4, <3>5, <3>6, ConsumedIs
        <3> QED BY <1>2, <3>1, <3>7 DEF e
    <2> QED BY <2>5, <2>6
<1> QED BY <1>3, <1>4, <1>5

LEMMA TailOf ==
    ASSUME NEW n \in Nat \ {0}, NEW q, q = [k \in 1..n |-> q[k]]
    PROVE  /\ Tail(q) = [k \in 1..n - 1 |-> q[k + 1]] /\ Head(q) = q[1] /\ q # <<>>
           /\ Tail(q) = <<>> <=> n = 1
<1> DEFINE S == {q[k] : k \in 1..n}
<1>1. q \in Seq(S) /\ Len(q) = n
    <2>1. \A k \in 1..n : q[k] \in S
        OBVIOUS
    <2> HIDE DEF S
    <2>2. q \in [1..n -> S]
        BY <2>1
    <2> QED BY <2>2
<1> HIDE DEF S
<1>2. Tail(q) = [k \in 1..n - 1 |-> q[k + 1]] /\ Head(q) = q[1] /\ q # <<>>
    BY <1>1
<1>3. Len(Tail(q)) = n - 1 /\ Tail(q) \in Seq(S)
    BY <1>1, <1>2, HeadTailProperties
<1>4. Tail(q) = <<>> <=> n = 1
    BY <1>3, EmptySeq
<1> QED BY <1>2, <1>4

\* QUEUE_Gets has the effect that OutQueue gives it.
LEMMA GetsAsOutQueue ==
    ASSUME OneLength, "TORN" \notin Message,
           NEW r, NEW n, NEW t, NEW ms, IsPieces(r, n, t, ms)
    PROVE  LET x == SubSeq(r, Consumed(r) + 1, Len(r))
               q == Whole!Readable(Frames(r))
           IN  /\ Len(x) <= Len(r)
               /\ \E a, u, ns : IsPieces(x, a, u, ns)
               /\ Frames(x) = IF Whole!IsEmpty(q) THEN q ELSE Tail(q)
<1> DEFINE j == Taken(n, t)
           b == Behind(r, Off(t, j))
           x == SubSeq(r, Consumed(r) + 1, Len(r))
           p == Elements(n, t, ms)
           q == Whole!Readable(p)
<1>1. n \in Nat /\ t \in 0..n /\ ms \in [1..n -> Message]
    BY DEF IsPieces
<1>2. j \in 0..n /\ x = b
    BY ConsumedPieces DEF Behind
<1>3. PICK ns : /\ IsPieces(b, n - j, Later(t, j), ns)
                /\ Elements(n - j, Later(t, j), ns) = [k \in 1..n - j |-> p[k + j]]
                /\ Len(b) <= Len(r)
    BY <1>2, WithoutFirst
<1>4. Frames(r) = p /\ Frames(b) = [k \in 1..n - j |-> p[k + j]]
    <2>1. Frames(b) = Elements(n - j, Later(t, j), ns)
        BY <1>3, FramesAre
    <2> QED BY <1>3, <2>1, FramesAre
<1>5. p = [k \in 1..n |-> p[k]]
    BY <1>1, ElementsAre
<1>6. n # 0 => (p[1] = Whole!TORN <=> t = 1)
    <2> SUFFICES ASSUME n # 0 PROVE p[1] = Whole!TORN <=> t = 1
        OBVIOUS
    <2>1. 1 \in 1..n
        BY <1>1
    <2>2. p[1] = IF 1 = t THEN Whole!TORN ELSE [type |-> ms[1]]
        BY <2>1 DEF Elements
    <2>3. [type |-> ms[1]] # Whole!TORN
        <3>1. ms[1] # "TORN"
            BY <1>1, <2>1
        <3>2. [type |-> ms[1]].type # Whole!TORN.type
            BY <3>1 DEF Whole!TORN
        <3> QED BY <3>2
    <2> QED BY <2>2, <2>3
<1>7. q = IF p # <<>> /\ Head(p) = Whole!TORN THEN Tail(p) ELSE p
    BY DEF Whole!Readable
<1>8. Whole!IsEmpty(q) <=> q = <<>>
    BY DEF Whole!IsEmpty
<1> HIDE DEF p, q, b, x
<1>9. [k \in 1..n - j |-> p[k + j]] = IF q = <<>> THEN q ELSE Tail(q)
    <2>1. CASE n = 0
        <3>1. p = <<>> /\ j = 0
            BY <1>5, <2>1 DEF Taken
        <3>2. q = <<>>
            BY <1>7, <3>1
        <3>3. [k \in 1..n - j |-> p[k + j]] = <<>>
            BY <2>1, <3>1
        <3> QED BY <3>2, <3>3
    <2>2. CASE n # 0 /\ t # 1
        <3>1. j = 1 /\ n \in Nat \ {0}
            BY <1>1, <2>2 DEF Taken
        <3>2. Tail(p) = [k \in 1..n - 1 |-> p[k + 1]] /\ Head(p) = p[1] /\ p # <<>>
            BY <1>5, <3>1, TailOf
        <3>3. q = p
            BY <1>6, <1>7, <2>2, <3>2
        <3> QED BY <3>1, <3>2, <3>3
    <2>3. CASE n # 0 /\ t = 1
        <3>1. n \in Nat \ {0}
            BY <1>1, <2>3
        <3>2. Tail(p) = [k \in 1..n - 1 |-> p[k + 1]] /\ Head(p) = p[1] /\ p # <<>> /\ (Tail(p) = <<>> <=> n = 1)
            BY <1>5, <3>1, TailOf
        <3>3. q = Tail(p)
            BY <1>6, <1>7, <2>3, <3>2
        <3>4. CASE n = 1
            <4>1. j = 1 /\ q = <<>>
                BY <3>2, <3>3, <3>4 DEF Taken
            <4>2. [k \in 1..n - j |-> p[k + j]] = <<>>
                BY <3>4, <4>1
            <4> QED BY <4>1, <4>2
        <3>5. CASE n # 1
            <4>1. j = 2 /\ n - 1 \in Nat \ {0} /\ (n - 1) - 1 = n - 2
                BY <2>3, <3>1, <3>5 DEF Taken
            <4>2. \A k \in 1..n - 1 : q[k] = p[k + 1]
                BY <3>2, <3>3
            <4>3. q = [k \in 1..n - 1 |-> q[k]] /\ q # <<>>
                BY <3>2, <3>3, <3>5
            <4>4. Tail(q) = [k \in 1..n - 2 |-> q[k + 1]]
                <5> DEFINE i == n - 1
                <5>1. i \in Nat \ {0} /\ q = [k \in 1..i |-> q[k]] /\ i - 1 = n - 2
                    BY <4>1, <4>3
                <5> HIDE DEF i
                <5>2. Tail(q) = [k \in 1..i - 1 |-> q[k + 1]]
                    BY <5>1, TailOf
                <5> QED BY <5>1, <5>2
            <4>5. \A k \in 1..n - 2 : q[k + 1] = p[k + 2]
                <5> TAKE k \in 1..n - 2
                <5>1. k + 1 \in 1..n - 1 /\ (k + 1) + 1 = k + 2
                    BY <4>1
                <5> QED BY <4>2, <5>1
            <4> QED BY <4>1, <4>3, <4>4, <4>5
        <3> QED BY <3>4, <3>5
    <2> QED BY <2>1, <2>2, <2>3
<1>10. Frames(x) = IF q = <<>> THEN q ELSE Tail(q)
    BY <1>2, <1>4, <1>9
<1>11. \E a, u, os : IsPieces(x, a, u, os)
    BY <1>2, <1>3
<1>12. Len(x) <= Len(r)
    BY <1>2, <1>3
<1> QED BY <1>4, <1>8, <1>10, <1>11, <1>12 DEF x, q

-----------------------------------------------------------------------------
\* The inductive invariant of a queue of messages of one length.
PiecesInv == Len(rb) <= QueueSize /\ \E n, t, ms : IsPieces(rb, n, t, ms)

LEMMA InitPieces == OneLength /\ QueueInit => PiecesInv
<1> SUFFICES ASSUME OneLength, QueueInit PROVE PiecesInv
    OBVIOUS
<1>1. rb = <<>> /\ Len(rb) <= QueueSize
    BY QueueSizeAssumption DEF QueueInit
<1> DEFINE ms == [k \in 1..0 |-> <<>>]
<1>2. Off(0, 0) = 0
    BY OffStep
<1>3. ms \in [1..0 -> Message]
    OBVIOUS
<1> HIDE DEF ms
<1>4. IsPieces(<<>>, 0, 0, ms)
    BY <1>2, <1>3 DEF IsPieces
<1> QED BY <1>1, <1>4 DEF PiecesInv

LEMMA StepPieces ==
    ASSUME OneLength, "TORN" \notin Message, PiecesInv
    PROVE  /\ [QueueNext]_queue => PiecesInv'
           /\ \A m \in Message :
                 QUEUE_Puts(m) => Frames(rb') = Whole!Puts(Frames(rb), <<[type |-> m]>>)
           /\ \A garbage \in BOOLEAN : QUEUE_Gets(garbage) =>
                 Frames(rb') = LET q == Whole!Readable(Frames(rb))
                               IN  IF Whole!IsEmpty(q) THEN q ELSE Tail(q)
<1>1. PICK n, t, ms : IsPieces(rb, n, t, ms)
    BY DEF PiecesInv
<1>2. Len(rb) <= QueueSize /\ Len(rb) \in Nat /\ QueueSize \in Nat
    BY <1>1, QueueSizeAssumption DEF PiecesInv, IsPieces
<1>3. ASSUME NEW m \in Message, QUEUE_Puts(m)
      PROVE  PiecesInv' /\ Frames(rb') = Whole!Puts(Frames(rb), <<[type |-> m]>>)
    <2>1. rb' = PROTO_AddRb(rb, m)
        BY <1>3 DEF QUEUE_Puts
    <2>2. /\ Len(rb') <= QueueSize /\ \E a, u, ns : IsPieces(rb', a, u, ns)
          /\ Frames(rb') = Whole!Puts(Frames(rb), <<[type |-> m]>>)
        BY <1>1, <1>2, <2>1, PutsAsOutQueue
    <2> QED BY <2>2 DEF PiecesInv
<1>4. ASSUME NEW garbage \in BOOLEAN, QUEUE_Gets(garbage)
      PROVE  /\ PiecesInv'
             /\ Frames(rb') = LET q == Whole!Readable(Frames(rb))
                              IN  IF Whole!IsEmpty(q) THEN q ELSE Tail(q)
    <2>1. rb' = SubSeq(rb, Consumed(rb) + 1, Len(rb))
        BY <1>4 DEF QUEUE_Gets
    <2>2. /\ Len(rb') <= Len(rb) /\ \E a, u, ns : IsPieces(rb', a, u, ns)
          /\ Frames(rb') = LET q == Whole!Readable(Frames(rb))
                           IN  IF Whole!IsEmpty(q) THEN q ELSE Tail(q)
        BY <1>1, <2>1, GetsAsOutQueue
    <2>3. Len(rb') <= QueueSize
        <3>1. Len(rb') \in Nat
            BY <2>2 DEF IsPieces
        <3> QED BY <1>2, <2>2, <3>1
    <2> QED BY <2>2, <2>3 DEF PiecesInv
<1>5. ASSUME [QueueNext]_queue PROVE PiecesInv'
    <2>1. CASE UNCHANGED queue
        BY <2>1 DEF queue, PiecesInv, IsPieces
    <2>2. CASE QueueNext
        BY <1>3, <1>4, <2>2 DEF QueueNext
    <2> QED BY <1>5, <2>1, <2>2
<1> QED BY <1>3, <1>4, <1>5

\* OutQueue, on which the broker's and the client's models rest, describes queue.c and
\* proto.c for every length of the messages and every size of the ring, if the messages
\* have one length and do not fill the ring exactly: what each call does to the bytes,
\* wherever they were torn, is what it does to the queue of whole messages.  That the
\* string "TORN" is no message has to be said, since no rule tells it from a sequence.
THEOREM RingIsOutQueue == OneLength /\ "TORN" \notin Message => (QueueSpec => AsOutQueue)
<1> SUFFICES ASSUME OneLength, "TORN" \notin Message PROVE QueueSpec => AsOutQueue
    OBVIOUS
<1>1. QueueInit => PiecesInv
    BY InitPieces
<1>2. PiecesInv /\ [QueueNext]_queue => PiecesInv'
    BY StepPieces
<1>3. PiecesInv /\ [QueueNext]_queue =>
          [/\ \A m \in Message :
                 QUEUE_Puts(m) => Frames(rb') = Whole!Puts(Frames(rb), <<[type |-> m]>>)
           /\ QUEUE_Gets(FALSE) =>
                 Frames(rb') = LET q == Whole!Readable(Frames(rb))
                               IN  IF Whole!IsEmpty(q) THEN q ELSE Tail(q)]_queue
    BY StepPieces
<1> QED BY <1>1, <1>2, <1>3, PTL DEF QueueSpec, AsOutQueue
=============================================================================
