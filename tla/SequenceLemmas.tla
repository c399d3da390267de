--------------------------- MODULE SequenceLemmas ---------------------------
(***************************************************************************)
(* What the proofs about sequences of bytes have in common.                *)
(*                                                                         *)
(* The models define recursive functions by their equations.  That these   *)
(* have solutions, and what the solutions keep, is shown by induction over *)
(* a set of numbers, which the well-foundedness of < gives; so the bytes   *)
(* that FlattenSeq puts one after the other are found again, and that      *)
(* Ascending gives the numbers of a set in their order.                    *)
(***************************************************************************)
EXTENDS Ascent, SequencesExt, SequenceTheorems, FiniteSetTheorems, WellFoundedInduction, TLAPS

\* Every non-empty set of natural numbers has a least element.
LEMMA LeastElement ==
    ASSUME NEW S \in SUBSET Nat, S # {}
    PROVE  \E i \in S : \A j \in S : i <= j
<1>1. PICK i \in S : \A j \in S : ~(<<j, i>> \in OpToRel(<, Nat))
    BY NatLessThanWellFounded, WFMin, Zenon
<1>2. ASSUME NEW j \in S PROVE i <= j
    <2>1. <<j, i>> \in Nat \X Nat
        OBVIOUS
    <2>2. ~(<<j, i>>[1] < <<j, i>>[2])
        BY <1>1, <2>1, Zenon DEF OpToRel
    <2> QED BY <2>2
<1> QED BY <1>2

\* Induction up to N.
LEMMA InductionTo ==
    ASSUME NEW N \in Nat, NEW P, 0 \in P, \A i \in 1..N : i - 1 \in P => i \in P
    PROVE  \A i \in 0..N : i \in P
<1> DEFINE S == {i \in 0..N : i \notin P}
<1> SUFFICES ASSUME S # {} PROVE FALSE
    OBVIOUS
<1>1. PICK i \in S : \A j \in S : i <= j
    <2>1. S \in SUBSET Nat
        OBVIOUS
    <2> HIDE DEF S
    <2> QED BY <2>1, LeastElement
<1>2. i # 0 /\ i \in 1..N
    OBVIOUS
<1>3. i - 1 \in 0..N /\ i - 1 \notin S
    BY <1>1, <1>2
<1> QED BY <1>2, <1>3

\* A recursion that refers to one other place, of lower rank, and stops somewhere: the
\* value at p is base[p], or step of p and the value at next[p].
IsRecursion(D, S, B, rank, stop, base, next, step) ==
    /\ B \in Nat /\ rank \in [D -> 0..B]
    /\ base \in [D -> S] /\ next \in [D -> D] /\ step \in [D \X S -> S]
    /\ \A p \in D : p \notin stop => rank[next[p]] < rank[p]

Solution(D, S, stop, base, next, step, f) ==
    /\ f \in [D -> S]
    /\ \A p \in D : /\ p \in stop => f[p] = base[p]
                    /\ p \notin stop => f[p] = step[<<p, f[next[p]]>>]

LEMMA Recursion ==
    ASSUME NEW D, NEW S, NEW B, NEW rank, NEW stop, NEW base, NEW next, NEW step,
           IsRecursion(D, S, B, rank, stop, base, next, step)
    PROVE  \E f : Solution(D, S, stop, base, next, step, f)
<1> USE DEF IsRecursion
<1> DEFINE Value(f, p) == IF p \in stop THEN base[p] ELSE step[<<p, f[next[p]]>>]
           Solves(k, f) == \A p \in D : rank[p] < k => f[p] = Value(f, p)
           P == {k \in Nat : \E f \in [D -> S] : Solves(k, f)}
<1>1. 0 \in P
    <2>1. Solves(0, base)
        OBVIOUS
    <2> QED BY <2>1
<1>2. ASSUME NEW k \in 1..B + 1, k - 1 \in P PROVE k \in P
    <2>1. PICK f \in [D -> S] : Solves(k - 1, f)
        BY <1>2
    <2> DEFINE g == [p \in D |-> Value(f, p)]
    <2>2. g \in [D -> S]
        <3>1. ASSUME NEW p \in D PROVE Value(f, p) \in S
            <4>1. next[p] \in D /\ f[next[p]] \in S
                OBVIOUS
            <4>2. <<p, f[next[p]]>> \in D \X S
                BY <4>1
            <4> QED BY <4>2
        <3> HIDE DEF Value
        <3> QED BY <3>1
    <2>3. ASSUME NEW p \in D, rank[p] < k PROVE g[p] = Value(g, p)
        <3>1. CASE p \in stop
            BY <3>1
        <3>2. CASE p \notin stop
            <4>1. next[p] \in D /\ rank[next[p]] < k - 1
                BY <2>3, <3>2
            <4>2. f[next[p]] = Value(f, next[p])
                BY <2>1, <4>1
            <4>3. g[next[p]] = f[next[p]]
                BY <4>1, <4>2
            <4> QED BY <3>2, <4>3
        <3> QED BY <3>1, <3>2
    <2>4. Solves(k, g)
        BY <2>3
    <2> HIDE DEF g, Solves
    <2> QED BY <2>2, <2>4
<1>3. B + 1 \in P
    <2> HIDE DEF P
    <2> QED BY <1>1, <1>2, InductionTo
<1>4. PICK f \in [D -> S] : Solves(B + 1, f)
    BY <1>3
<1>5. ASSUME NEW p \in D PROVE f[p] = Value(f, p)
    BY <1>4
<1> QED BY <1>5 DEF Solution

-----------------------------------------------------------------------------
(* Where the pieces of a flattened sequence are *)


\* off[i] bytes come before the piece behind the i-th.
IsOffsets(off, ss, n, bytes) ==
    /\ off \in [0..n -> Nat] /\ off[0] = 0
    /\ \A i \in 1..n : off[i] = off[i - 1] + Len(ss[i])
    /\ bytes \in Seq(Nat) /\ Len(bytes) = off[n]
    /\ \A i \in 1..n : \A j \in 1..Len(ss[i]) : bytes[off[i - 1] + j] = ss[i][j]

\* What FlattenSeq computes.
IsFlattening(f, ss, n) ==
    \A i \in 1..n : f[i] = IF i = 1 THEN ss[i] ELSE f[i - 1] \o ss[i]

LEMMA FlattenIs ==
    ASSUME NEW n \in Nat \ {0}, NEW ss \in [1..n -> Seq(Nat)]
    PROVE  \E f : IsFlattening(f, ss, n) /\ FlattenSeq(ss) = f[n]
<1> DEFINE D == 1..n
           S == Seq(Nat)
           step == [x \in D \X S |-> x[2] \o ss[x[1]]]
           rank == [i \in D |-> i]
           next == [i \in D |-> IF i = 1 THEN 1 ELSE i - 1]
           base == [i \in D |-> ss[1]]
           stop == {1}
           Equation(f) == [i \in 1..Len(ss) |-> IF i = 1 THEN ss[i] ELSE f[i - 1] \o ss[i]]
           flatten == CHOOSE f : f = Equation(f)
<1>1. Len(ss) = n
    OBVIOUS
<1>2. step \in [D \X S -> S]
    OBVIOUS
<1>3. rank \in [D -> 0..n] /\ next \in [D -> D] /\ base \in [D -> S]
    OBVIOUS
<1>4. \A p \in D : p \notin stop => rank[next[p]] < rank[p]
    OBVIOUS
<1>5. PICK f : Solution(D, S, stop, base, next, step, f)
    <2> HIDE DEF D, S, step, rank, next, base, stop
    <2>1. IsRecursion(D, S, n, rank, stop, base, next, step)
        BY <1>2, <1>3, <1>4 DEF IsRecursion
    <2> QED BY <2>1, Recursion
<1>6. f \in [D -> S] /\ \A i \in D : f[i] = IF i = 1 THEN ss[i] ELSE f[i - 1] \o ss[i]
    <2>1. f \in [D -> S]
        BY <1>5 DEF Solution
    <2>2. ASSUME NEW i \in D PROVE f[i] = IF i = 1 THEN ss[i] ELSE f[i - 1] \o ss[i]
        <3>1. CASE i = 1
            BY <1>5, <3>1 DEF Solution
        <3>2. CASE i # 1
            <4>1. next[i] = i - 1 /\ i - 1 \in D
                BY <3>2
            <4>2. f[i] = step[<<i, f[i - 1]>>]
                BY <1>5, <3>2, <4>1 DEF Solution
            <4>3. <<i, f[i - 1]>> \in D \X S
                BY <2>1, <4>1
            <4> QED BY <3>2, <4>2, <4>3
        <3> QED BY <3>1, <3>2
    <2> QED BY <2>1, <2>2
<1>7. f = Equation(f)
    BY <1>1, <1>6
<1>8. flatten = Equation(flatten)
    BY <1>7
<1>9. FlattenSeq(ss) = flatten[Len(ss)]
    BY <1>1 DEF FlattenSeq
<1>10. IsFlattening(flatten, ss, n)
    <2> HIDE DEF flatten
    <2> QED BY <1>1, <1>8 DEF IsFlattening
<1> QED BY <1>1, <1>9, <1>10

LEMMA FlatteningType ==
    ASSUME NEW n \in Nat, NEW ss \in [1..n -> Seq(Nat)], NEW f, IsFlattening(f, ss, n)
    PROVE  \A k \in 1..n : f[k] \in Seq(Nat)
<1> DEFINE P == {k \in 0..n : k # 0 => f[k] \in Seq(Nat)}
<1>1. 0 \in P
    OBVIOUS
<1>2. ASSUME NEW k \in 1..n, k - 1 \in P PROVE k \in P
    <2>1. ss[k] \in Seq(Nat) /\ f[k] = IF k = 1 THEN ss[k] ELSE f[k - 1] \o ss[k]
        BY DEF IsFlattening
    <2>2. k # 1 => f[k - 1] \in Seq(Nat)
        BY <1>2
    <2>3. f[k] \in Seq(Nat)
        BY <2>1, <2>2, ConcatProperties
    <2> QED BY <2>3
<1>3. \A k \in 0..n : k \in P
    <2> HIDE DEF P
    <2> QED BY <1>1, <1>2, InductionTo
<1> QED BY <1>3

\* What has been put in place stays there.
LEMMA FlatteningGrows ==
    ASSUME NEW n \in Nat, NEW ss \in [1..n -> Seq(Nat)], NEW f, IsFlattening(f, ss, n),
           NEW i \in 1..n, NEW k \in i..n
    PROVE  Len(f[i]) <= Len(f[k]) /\ \A x \in 1..Len(f[i]) : f[k][x] = f[i][x]
<1> DEFINE Grown(h) == Len(f[i]) <= Len(f[h]) /\ \A x \in 1..Len(f[i]) : f[h][x] = f[i][x]
           P == {h \in 0..n : h >= i => Grown(h)}
<1>0. f[i] \in Seq(Nat) /\ Len(f[i]) \in Nat
    BY FlatteningType, LenProperties
<1>1. 0 \in P
    OBVIOUS
<1>2. ASSUME NEW h \in 1..n, h - 1 \in P PROVE h \in P
    <2>1. CASE h < i
        BY <2>1
    <2>2. CASE h = i
        <3>1. Grown(i)
            BY <1>0
        <3> QED BY <2>2, <3>1
    <2>3. CASE h > i
        <3>1. Grown(h - 1) /\ h - 1 \in 1..n /\ h # 1
            BY <1>2, <2>3
        <3>2. f[h - 1] \in Seq(Nat) /\ ss[h] \in Seq(Nat) /\ f[h] = f[h - 1] \o ss[h]
            BY <3>1, FlatteningType DEF IsFlattening
        <3>3. /\ Len(f[h]) = Len(f[h - 1]) + Len(ss[h]) /\ Len(f[h - 1]) \in Nat /\ Len(ss[h]) \in Nat
              /\ \A x \in 1..Len(f[h - 1]) : f[h][x] = f[h - 1][x]
            BY <3>2
        <3>4. Len(f[i]) <= Len(f[h - 1]) /\ \A x \in 1..Len(f[i]) : f[h - 1][x] = f[i][x]
            BY <3>1
        <3>5. Len(f[i]) <= Len(f[h])
            BY <1>0, <3>3, <3>4
        <3>6. ASSUME NEW x \in 1..Len(f[i]) PROVE f[h][x] = f[i][x]
            <4>1. x \in 1..Len(f[h - 1])
                BY <1>0, <3>3, <3>4
            <4> QED BY <3>3, <3>4, <4>1
        <3> QED BY <3>5, <3>6
    <2> QED BY <2>1, <2>2, <2>3
<1>3. \A h \in 0..n : h \in P
    <2> HIDE DEF P
    <2> QED BY <1>1, <1>2, InductionTo
<1> QED BY <1>3

LEMMA Flattened ==
    ASSUME NEW n \in Nat, NEW ss \in [1..n -> Seq(Nat)]
    PROVE  \E off : IsOffsets(off, ss, n, FlattenSeq(ss))
<1>1. CASE n = 0
    <2>1. Len(ss) = 0 /\ ss = <<>>
        BY <1>1
    <2>2. FlattenSeq(ss) = <<>>
        BY <2>1 DEF FlattenSeq
    <2>3. IsOffsets([i \in 0..n |-> 0], ss, n, <<>>)
        BY <1>1 DEF IsOffsets
    <2> QED BY <2>2, <2>3
<1>2. CASE n # 0
    <2>1. PICK f : IsFlattening(f, ss, n) /\ FlattenSeq(ss) = f[n]
        BY <1>2, FlattenIs
    <2> DEFINE off == [i \in 0..n |-> IF i = 0 THEN 0 ELSE Len(f[i])]
    <2>2. \A k \in 1..n : f[k] \in Seq(Nat) /\ Len(f[k]) \in Nat /\ ss[k] \in Seq(Nat) /\ Len(ss[k]) \in Nat
        BY <2>1, FlatteningType, LenProperties
    <2>3. off \in [0..n -> Nat] /\ off[0] = 0 /\ off[n] = Len(f[n])
        BY <1>2, <2>2
    <2>4. ASSUME NEW i \in 1..n
          PROVE  /\ off[i] = off[i - 1] + Len(ss[i])
                 /\ \A j \in 1..Len(ss[i]) : f[i][off[i - 1] + j] = ss[i][j]
        <3>1. CASE i = 1
            <4>1. f[1] = ss[1] /\ off[i - 1] = 0 /\ off[i] = Len(f[i])
                BY <2>1, <3>1 DEF IsFlattening
            <4> QED BY <2>2, <3>1, <4>1
        <3>2. CASE i # 1
            <4>1. off[i - 1] = Len(f[i - 1]) /\ off[i] = Len(f[i]) /\ i - 1 \in 1..n
                BY <3>2
            <4> HIDE DEF off
            <4>2. f[i] = f[i - 1] \o ss[i]
                BY <2>1, <3>2 DEF IsFlattening
            <4> QED BY <2>2, <4>1, <4>2
        <3> QED BY <3>1, <3>2
    <2>5. ASSUME NEW i \in 1..n, NEW j \in 1..Len(ss[i]) PROVE f[n][off[i - 1] + j] = ss[i][j]
        <3>0. off[i] = Len(f[i]) /\ i - 1 \in 0..n
            OBVIOUS
        <3> HIDE DEF off
        <3>1. /\ f[i][off[i - 1] + j] = ss[i][j] /\ off[i] = off[i - 1] + Len(ss[i])
              /\ off[i] = Len(f[i]) /\ off[i - 1] \in Nat /\ Len(ss[i]) \in Nat
            BY <2>2, <2>3, <2>4, <3>0
        <3>2. off[i - 1] + j \in 1..Len(f[i])
            <4>1. \A a, b \in Nat : \A x \in 1..b : a + x \in 1..a + b
                OBVIOUS
            <4>2. Len(f[i]) = off[i - 1] + Len(ss[i]) /\ off[i - 1] \in Nat /\ Len(ss[i]) \in Nat
                BY <3>1
            <4> QED BY <4>1, <4>2
        <3>3. n \in i..n
            BY <1>2
        <3>4. f[n][off[i - 1] + j] = f[i][off[i - 1] + j]
            BY <2>1, <3>2, <3>3, FlatteningGrows, ZenonT(60)
        <3> QED BY <3>1, <3>4
    <2> HIDE DEF off
    <2>6. IsOffsets(off, ss, n, f[n])
        BY <1>2, <2>2, <2>3, <2>4, <2>5 DEF IsOffsets
    <2> QED BY <2>1, <2>6
<1> QED BY <1>1, <1>2

\* The offsets rise.
LEMMA OffsetsRise ==
    ASSUME NEW n \in Nat, NEW ss \in [1..n -> Seq(Nat)], NEW off, NEW bytes,
           IsOffsets(off, ss, n, bytes)
    PROVE  \A i, k \in 0..n : i <= k => off[i] <= off[k]
<1> SUFFICES ASSUME NEW i \in 0..n PROVE \A k \in 0..n : i <= k => off[i] <= off[k]
    OBVIOUS
<1> DEFINE P == {k \in 0..n : i <= k => off[i] <= off[k]}
<1>1. \A k \in 0..n : off[k] \in Nat
    BY DEF IsOffsets
<1>2. 0 \in P
    BY <1>1
<1>3. ASSUME NEW k \in 1..n, k - 1 \in P PROVE k \in P
    <2>1. off[k] = off[k - 1] + Len(ss[k]) /\ Len(ss[k]) \in Nat /\ k - 1 \in 0..n
        BY DEF IsOffsets
    <2>2. i <= k - 1 => off[i] <= off[k - 1]
        BY <1>3
    <2> HIDE DEF P
    <2>3. i <= k => off[i] <= off[k]
        BY <1>1, <2>1, <2>2
    <2> QED BY <2>3 DEF P
<1>4. \A k \in 0..n : k \in P
    <2> HIDE DEF P
    <2> QED BY <1>2, <1>3, InductionTo
<1> QED BY <1>4

\* Each byte is in one of the pieces.
InPieces(x, off, ss, k) == \E i \in 1..k : \E j \in 1..Len(ss[i]) : x = off[i - 1] + j

LEMMA InPiece ==
    ASSUME NEW n \in Nat, NEW ss \in [1..n -> Seq(Nat)], NEW off, NEW bytes,
           IsOffsets(off, ss, n, bytes)
    PROVE  \A k \in 0..n : \A x \in 1..off[k] : InPieces(x, off, ss, k)
<1> SUFFICES ASSUME NEW k \in 0..n, NEW x \in 1..off[k] PROVE InPieces(x, off, ss, k)
    OBVIOUS
<1> USE DEF InPieces
<1> DEFINE Found(h) == \E i \in 1..h : \E j \in 1..Len(ss[i]) : x = off[i - 1] + j
           P == {h \in 0..n : x <= off[h] => Found(h)}
<1>1. off[0] = 0 /\ \A h \in 0..n : off[h] \in Nat
    BY DEF IsOffsets
<1>2. 0 \in P
    BY <1>1
<1>3. ASSUME NEW h \in 1..n, h - 1 \in P PROVE h \in P
    <2>1. off[h] = off[h - 1] + Len(ss[h]) /\ Len(ss[h]) \in Nat /\ h - 1 \in 0..n
        BY DEF IsOffsets
    <2>2. ASSUME x <= off[h] PROVE Found(h)
        <3>1. CASE x <= off[h - 1]
            <4>1. Found(h - 1)
                BY <1>3, <3>1
            <4> QED BY <4>1
        <3>2. CASE ~(x <= off[h - 1])
            <4>1. off[h - 1] \in Nat /\ off[h] \in Nat
                BY <1>1, <2>1
            <4> DEFINE y == off[h - 1]
                       l == Len(ss[h])
            <4>2. x \in Nat /\ y \in Nat /\ l \in Nat /\ x <= y + l /\ ~(x <= y)
                BY <2>1, <2>2, <3>2, <4>1
            <4> HIDE DEF y, l
            <4>3. x - y \in 1..l /\ x = y + (x - y)
                BY <4>2
            <4> QED BY <4>3 DEF y, l
        <3> QED BY <3>1, <3>2
    <2> QED BY <2>2
<1>4. \A h \in 0..n : h \in P
    <2> HIDE DEF P
    <2> QED BY <1>2, <1>3, InductionTo
<1>5. off[k] \in Nat /\ x <= off[k]
    BY <1>1
<1> QED BY <1>4, <1>5

\* A part of a sequence of bytes.
LEMMA PartIs ==
    ASSUME NEW s \in Seq(Nat), NEW i \in Nat, NEW j \in Nat, i <= j, j <= Len(s)
    PROVE  /\ SubSeq(s, i + 1, j) \in Seq(Nat) /\ Len(SubSeq(s, i + 1, j)) = j - i
           /\ \A x \in 1..j - i : SubSeq(s, i + 1, j)[x] = s[i + x]
<1> DEFINE m == i + 1
<1>1. m \in Int /\ j \in Int /\ m \in Nat /\ m > 0 /\ Len(s) \in Nat
    BY LenProperties
<1>2. \A x \in m..j : s[x] \in Nat
    <2> SUFFICES ASSUME NEW x \in m..j PROVE s[x] \in Nat
        OBVIOUS
    <2>1. x \in 1..Len(s)
        BY <1>1
    <2> QED BY <2>1, ElementOfSeq
<1> DEFINE t == SubSeq(s, m, j)
<1> HIDE DEF m
<1>3. /\ t \in Seq(Nat) /\ Len(t) = IF m <= j THEN j - m + 1 ELSE 0
      /\ \A x \in 1..j - m + 1 : t[x] = s[m + x - 1]
    BY <1>1, <1>2, SubSeqProperties
<1>4. m = i + 1
    BY DEF m
<1> HIDE DEF t
<1>5. Len(t) = j - i /\ j - m + 1 = j - i
    BY <1>3, <1>4
<1>6. ASSUME NEW x \in 1..j - i PROVE t[x] = s[i + x]
    <2>1. m + x - 1 = i + x
        BY <1>4
    <2>2. t[x] = s[m + x - 1]
        BY <1>3, <1>5
    <2> QED BY <2>1, <2>2
<1> QED BY <1>3, <1>5, <1>6 DEF t, m

\* The pieces up to the k-th make the bytes up to the place where it ends.
LEMMA CutAt ==
    ASSUME NEW n \in Nat, NEW ss \in [1..n -> Seq(Nat)], NEW off, NEW bytes,
           IsOffsets(off, ss, n, bytes), NEW k \in 0..n
    PROVE  FlattenSeq(SubSeq(ss, 1, k)) = SubSeq(bytes, 1, off[k])
<1> DEFINE tt == SubSeq(ss, 1, k)
           part == FlattenSeq(tt)
<1>1. tt \in [1..k -> Seq(Nat)] /\ \A i \in 1..k : tt[i] = ss[i]
    <2>1. ss \in Seq(Seq(Nat)) /\ Len(ss) = n
        OBVIOUS
    <2>2. tt = [i \in 1..k |-> ss[i]]
        BY <2>1
    <2>3. \A i \in 1..k : ss[i] \in Seq(Nat)
        OBVIOUS
    <2> HIDE DEF tt
    <2> QED BY <2>2, <2>3
<1> HIDE DEF tt
<1>2. PICK cut : IsOffsets(cut, tt, k, part)
    BY <1>1, Flattened
<1> HIDE DEF part
<1>3. \A i \in 0..k : cut[i] = off[i]
    <2> DEFINE P == {i \in 0..k : cut[i] = off[i]}
    <2>1. 0 \in P
        BY <1>2 DEF IsOffsets
    <2>2. ASSUME NEW i \in 1..k, i - 1 \in P PROVE i \in P
        <3>1. cut[i] = cut[i - 1] + Len(tt[i])
            BY <1>2 DEF IsOffsets
        <3>2. off[i] = off[i - 1] + Len(ss[i])
            BY DEF IsOffsets
        <3> QED BY <1>1, <2>2, <3>1, <3>2
    <2>3. \A i \in 0..k : i \in P
        <3>1. k \in Nat
            OBVIOUS
        <3> HIDE DEF P
        <3> QED BY <2>1, <2>2, <3>1, InductionTo
    <2> QED BY <2>3
<1>4. /\ part \in Seq(Nat) /\ Len(part) = off[k] /\ bytes \in Seq(Nat)
      /\ Len(bytes) = off[n] /\ off[k] \in Nat /\ off[n] \in Nat
    BY <1>2, <1>3 DEF IsOffsets
<1>5. off[k] <= off[n]
    <2>1. \A i, j \in 0..n : i <= j => off[i] <= off[j]
        BY OffsetsRise
    <2>2. n \in 0..n /\ k <= n
        OBVIOUS
    <2> QED BY <2>1, <2>2
<1>6. /\ SubSeq(bytes, 1, off[k]) \in Seq(Nat) /\ Len(SubSeq(bytes, 1, off[k])) = off[k]
      /\ \A x \in 1..off[k] : SubSeq(bytes, 1, off[k])[x] = bytes[x]
    <2>1. PICK z \in Nat : z = 0
        OBVIOUS
    <2> DEFINE y == off[k]
    <2>2. y \in Nat /\ z <= y /\ y <= Len(bytes) /\ z + 1 = 1 /\ y - z = y
        BY <1>4, <1>5, <2>1
    <2> HIDE DEF y
    <2>3. /\ SubSeq(bytes, z + 1, y) \in Seq(Nat) /\ Len(SubSeq(bytes, z + 1, y)) = y - z
          /\ \A x \in 1..y - z : SubSeq(bytes, z + 1, y)[x] = bytes[z + x]
        BY <1>4, <2>2, PartIs
    <2>4. ASSUME NEW x \in 1..y PROVE SubSeq(bytes, 1, y)[x] = bytes[x]
        <3>1. z + x = x
            BY <2>1, <2>2
        <3> QED BY <2>2, <2>3, <3>1
    <2> QED BY <2>2, <2>3, <2>4 DEF y
<1>7. ASSUME NEW x \in 1..off[k] PROVE part[x] = bytes[x]
    <2>00. InPieces(x, off, ss, k)
        BY InPiece
    <2>0. PICK i \in 1..k : \E j \in 1..Len(ss[i]) : x = off[i - 1] + j
        BY <2>00 DEF InPieces
    <2>1. PICK j \in 1..Len(ss[i]) : x = off[i - 1] + j
        BY <2>0
    <2>2. bytes[off[i - 1] + j] = ss[i][j]
        BY DEF IsOffsets
    <2>3. part[cut[i - 1] + j] = tt[i][j]
        BY <1>1, <1>2, <2>1 DEF IsOffsets
    <2>4. i - 1 \in 0..k
        BY <2>1
    <2> QED BY <1>1, <1>3, <2>1, <2>2, <2>3, <2>4
<1>8. part = SubSeq(bytes, 1, off[k])
    BY <1>4, <1>6, <1>7
<1> QED BY <1>8 DEF part, tt

-----------------------------------------------------------------------------
(* Where the parts of a concatenation are *)

\* s is what r has, and t behind it.
IsJoin(r, s, t, m, n) ==
    /\ r \in Seq(Nat) /\ Len(r) = m + n
    /\ \A j \in 1..m : r[j] = s[j]
    /\ \A j \in 1..n : r[m + j] = t[j]

LEMMA Join ==
    ASSUME NEW s \in Seq(Nat), NEW t \in Seq(Nat)
    PROVE  IsJoin(s \o t, s, t, Len(s), Len(t))
<1> DEFINE m == Len(s)
           n == Len(t)
<1>1. m \in Nat /\ n \in Nat
    BY LenProperties
<1>2. s \o t \in Seq(Nat) /\ Len(s \o t) = m + n
    BY ConcatProperties
<1>3. \A j \in 1..m + n : (s \o t)[j] = IF j <= m THEN s[j] ELSE t[j - m]
    BY ConcatProperties
<1> DEFINE r == s \o t
<1> HIDE DEF m, n, r
<1>4. \A j \in 1..m : r[j] = s[j]
    <2> TAKE j \in 1..m
    <2>1. j \in 1..m + n /\ j <= m
        BY <1>1
    <2> QED BY <1>3, <2>1 DEF r
<1>5. \A j \in 1..n : r[m + j] = t[j]
    <2> TAKE j \in 1..n
    <2>1. m + j \in 1..m + n /\ ~(m + j <= m) /\ (m + j) - m = j
        BY <1>1
    <2> QED BY <1>3, <2>1 DEF r
<1> QED BY <1>2, <1>4, <1>5 DEF IsJoin, r, m, n

-----------------------------------------------------------------------------
(* Numbers in ascending order *)

\* f goes through the n numbers of S from the least to the greatest.
Ascends(f, n, S) ==
    /\ n \in Nat /\ f \in [1..n -> S] /\ S \in SUBSET Nat
    /\ \A i, j \in 1..n : i < j => f[i] < f[j]
    /\ \A x \in S : \E i \in 1..n : f[i] = x

LEMMA AscentExists ==
    ASSUME NEW m \in Nat, NEW S \in SUBSET (0..m)
    PROVE  \E n \in Nat : \E f : Ascends(f, n, S)
<1> DEFINE P == {k \in Nat : \A T \in SUBSET (0..k - 1) : \E n \in Nat : \E f : Ascends(f, n, T)}
<1>1. 0 \in P
    <2> SUFFICES ASSUME NEW T \in SUBSET (0..0 - 1) PROVE \E n \in Nat : \E f : Ascends(f, n, T)
        OBVIOUS
    <2>1. T = {}
        OBVIOUS
    <2> DEFINE f == [i \in 1..0 |-> 0]
    <2>2. Ascends(f, 0, {})
        BY DEF Ascends
    <2> QED BY <2>1, <2>2
<1>2. ASSUME NEW k \in 1..m + 1, k - 1 \in P PROVE k \in P
    <2> SUFFICES ASSUME NEW T \in SUBSET (0..k - 1) PROVE \E n \in Nat : \E f : Ascends(f, n, T)
        OBVIOUS
    <2>1. CASE k - 1 \notin T
        <3>1. T \in SUBSET (0..(k - 1) - 1)
            BY <2>1
        <3> QED BY <1>2, <3>1
    <2>2. CASE k - 1 \in T
        <3> DEFINE U == T \ {k - 1}
        <3>1. U \in SUBSET (0..(k - 1) - 1)
            OBVIOUS
        <3>2. PICK n \in Nat : \E f : Ascends(f, n, U)
            BY <1>2, <3>1
        <3>3. PICK f : Ascends(f, n, U)
            BY <3>2
        <3> DEFINE g == [i \in 1..n + 1 |-> IF i = n + 1 THEN k - 1 ELSE f[i]]
        <3>4. /\ f \in [1..n -> U] /\ \A i, j \in 1..n : i < j => f[i] < f[j]
              /\ \A x \in U : \E i \in 1..n : f[i] = x
            BY <3>3 DEF Ascends
        <3>5. \A i \in 1..n : f[i] \in T /\ f[i] < k - 1
            <4> SUFFICES ASSUME NEW i \in 1..n PROVE f[i] \in T /\ f[i] < k - 1
                OBVIOUS
            <4>1. f[i] \in U
                BY <3>4
            <4>2. f[i] \in T /\ f[i] # k - 1
                BY <4>1
            <4>3. f[i] \in 0..k - 1
                BY <4>2
            <4> QED BY <4>2, <4>3
        <3>6. g \in [1..n + 1 -> T]
            BY <2>2, <3>5
        <3>7. \A i, j \in 1..n + 1 : i < j => g[i] < g[j]
            BY <3>4, <3>5
        <3>8. ASSUME NEW x \in T PROVE \E i \in 1..n + 1 : g[i] = x
            <4>1. CASE x = k - 1
                <5>1. n + 1 \in 1..n + 1 /\ g[n + 1] = x
                    BY <4>1
                <5> QED BY <5>1
            <4>2. CASE x # k - 1
                <5>1. PICK i \in 1..n : f[i] = x
                    BY <3>4, <4>2
                <5>2. i \in 1..n + 1 /\ g[i] = x
                    BY <5>1
                <5> QED BY <5>2
            <4> QED BY <4>1, <4>2
        <3>9. T \in SUBSET Nat
            OBVIOUS
        <3> HIDE DEF g
        <3>10. Ascends(g, n + 1, T)
            BY <3>6, <3>7, <3>8, <3>9 DEF Ascends
        <3> QED BY <3>10
    <2> QED BY <2>1, <2>2
<1>3. m + 1 \in P
    <2> HIDE DEF P
    <2> QED BY <1>1, <1>2, InductionTo
<1>4. S \in SUBSET (0..(m + 1) - 1)
    OBVIOUS
<1> QED BY <1>3, <1>4

LEMMA AscentCounts ==
    ASSUME NEW n, NEW f, NEW S, Ascends(f, n, S)
    PROVE  /\ Cardinality(S) = n
           /\ \A i \in 1..n : Cardinality({x \in S : x < f[i]}) = i - 1
<1> USE DEF Ascends
<1>1. f \in Bijection(1..n, S)
    <2>1. \A i, j \in 1..n : f[i] = f[j] => i = j
        <3> SUFFICES ASSUME NEW i \in 1..n, NEW j \in 1..n, f[i] = f[j], i # j PROVE FALSE
            OBVIOUS
        <3>1. f[i] \in Nat /\ f[j] \in Nat
            OBVIOUS
        <3> QED BY <3>1
    <2> QED BY <2>1 DEF Bijection, Injection, Surjection, IsInjective
<1>2. Cardinality(S) = n
    BY <1>1, FS_CountingElements DEF ExistsBijection
<1>3. ASSUME NEW i \in 1..n PROVE Cardinality({x \in S : x < f[i]}) = i - 1
    <2> DEFINE T == {x \in S : x < f[i]}
               g == [j \in 1..i - 1 |-> f[j]]
    <2>1. g \in [1..i - 1 -> T]
        <3>1. \A j \in 1..i - 1 : j \in 1..n /\ j < i
            OBVIOUS
        <3> QED BY <3>1
    <2>2. \A j, k \in 1..i - 1 : g[j] = g[k] => j = k
        <3> SUFFICES ASSUME NEW j \in 1..i - 1, NEW k \in 1..i - 1, g[j] = g[k], j # k PROVE FALSE
            OBVIOUS
        <3>1. j \in 1..n /\ k \in 1..n /\ f[j] = f[k]
            OBVIOUS
        <3>2. f[j] \in Nat /\ f[k] \in Nat
            BY <3>1
        <3> QED BY <3>1, <3>2
    <2>3. ASSUME NEW x \in T PROVE \E j \in 1..i - 1 : g[j] = x
        <3>1. PICK j \in 1..n : f[j] = x
            OBVIOUS
        <3>2. j < i
            <4> SUFFICES ASSUME ~(j < i) PROVE FALSE
                OBVIOUS
            <4>1. i = j \/ i < j
                OBVIOUS
            <4>2. f[i] \in Nat /\ f[j] \in Nat /\ f[j] < f[i]
                BY <3>1
            <4> QED BY <4>1, <4>2
        <3>3. j \in 1..i - 1 /\ g[j] = x
            BY <3>1, <3>2
        <3> QED BY <3>3
    <2>4. g \in Bijection(1..i - 1, T)
        <3> HIDE DEF g, T
        <3> QED BY <2>1, <2>2, <2>3 DEF Bijection, Injection, Surjection, IsInjective
    <2>5. i - 1 \in Nat
        OBVIOUS
    <2> HIDE DEF g, T
    <2>6. Cardinality(T) = i - 1
        BY <2>4, <2>5, FS_CountingElements DEF ExistsBijection
    <2> QED BY <2>6 DEF T
<1> QED BY <1>2, <1>3

LEMMA AscendingIs ==
    ASSUME NEW n, NEW f, NEW S, Ascends(f, n, S)
    PROVE  Ascending(S) = f /\ Len(f) = n /\ DOMAIN f = 1..n
<1>1. /\ Cardinality(S) = n
      /\ \A i \in 1..n : Cardinality({x \in S : x < f[i]}) = i - 1
    BY AscentCounts
<1>2. ASSUME NEW i \in 1..n PROVE (CHOOSE x \in S : Cardinality({y \in S : y < x}) = i - 1) = f[i]
    <2>1. f[i] \in S /\ Cardinality({y \in S : y < f[i]}) = i - 1
        BY <1>1 DEF Ascends
    <2>2. ASSUME NEW x \in S, Cardinality({y \in S : y < x}) = i - 1 PROVE x = f[i]
        <3>1. PICK j \in 1..n : f[j] = x
            BY DEF Ascends
        <3>2. j - 1 = i - 1
            BY <1>1, <2>2, <3>1
        <3>3. n \in Nat
            BY DEF Ascends
        <3>4. j = i
            BY <3>2, <3>3
        <3> QED BY <3>1, <3>4
    <2> QED BY <2>1, <2>2
<1>3. f = [i \in 1..n |-> f[i]] /\ n \in Nat
    BY DEF Ascends
<1>4. Ascending(S) = [i \in 1..n |-> CHOOSE x \in S : Cardinality({y \in S : y < x}) = i - 1]
    BY <1>1 DEF Ascending
<1>5. Ascending(S) = f
    BY <1>2, <1>3, <1>4
<1>6. f \in Seq(Nat) /\ Len(f) = n /\ DOMAIN f = 1..n
    <2>1. \A i \in 1..n : f[i] \in Nat
        BY DEF Ascends
    <2> QED BY <1>3, <2>1
<1> QED BY <1>5, <1>6
=============================================================================
