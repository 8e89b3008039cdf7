----------------------- MODULE PunycodeDecode_proofs -----------------------
(***************************************************************************)
(* Theorems about PunycodeDecode, for every choice of the Bootstring       *)
(* parameters, word size, label, earlier output and array contents, and    *)
(* at the end about PunycodeRoundTrip, of which PunycodeDecode is a part.  *)
(***************************************************************************)
EXTENDS PunycodeRoundTrip, RFC3492_proofs, Splicing_proofs, WellFoundedInduction

(***************************************************************************)
(* The inductive invariant.  The layout says where every insertion goes,   *)
(* and that a scalar put in has consumed a character keeps the stores      *)
(* inside the array.  Until the end n is no ASCII code point and the last  *)
(* scalar at most, so that it wraps only while nothing is decoded.         *)
(***************************************************************************)
AtStart ==
    pc = "start" =>
        /\ pos = 0 /\ count = 0 /\ startIndex = Len(buffer)
        /\ n = InitialN /\ i = 0 /\ bias = InitialBias

\* The index array has room for every label.
LabelFits == Len(input) + 4 <= Capacity

Progress == count <= pos /\ (pc = "adapt" => count < pos)

Unwrapped ==
    /\ pc \in {"start", "next", "digit", "adapt"} => n \in InitialN .. MaxScalar
    /\ pc = "adapt" => i < WordSize

IndInv ==
    /\ TypeOK /\ AtStart /\ LabelFits /\ Progress /\ IndexArrayCorrect
    /\ Unwrapped /\ NothingHalfDecoded

-----------------------------------------------------------------------------
(* The index array: what it says of the bytes of the output before and     *)
(* after one more scalar is put in.                                        *)

Bytes == Seq(Scalar \X (1 .. 4))

\* Sequences that agree up to some point start with the same subsequence.
LEMMA SameStart ==
    ASSUME NEW S, NEW s \in Seq(S), NEW t \in Seq(S), NEW m \in Nat,
           m <= Len(s), m <= Len(t), \A j \in 1 .. m : s[j] = t[j]
    PROVE  SubSeq(s, 1, m) = SubSeq(t, 1, m)
<1>1. Len(s) \in Nat /\ Len(t) \in Nat
  BY LenProperties
<1>2. /\ \A j \in 1 .. m : s[j] \in S
      /\ \A j \in 1 .. m : t[j] \in S
  BY <1>1, ElementOfSeq
<1> DEFINE u == SubSeq(s, 1, m)
           v == SubSeq(t, 1, m)
<1>3. u \in Seq(S) /\ Len(u) = m /\ \A j \in 1 .. m : u[j] = s[j]
  BY <1>1, <1>2, SubSeqProperties
<1>4. v \in Seq(S) /\ Len(v) = m /\ \A j \in 1 .. m : v[j] = t[j]
  BY <1>1, <1>2, SubSeqProperties
<1> HIDE DEF u, v
<1>5. u = v
  BY <1>3, <1>4, SeqEqual
<1> QED
  BY <1>5 DEF u, v

-----------------------------------------------------------------------------
(* Inserting a scalar into a layout. *)

LEMMA WidthType == \A c : Width(c) \in 1 .. 4
  BY DEF Width

\* The bytes of a scalar.
LEMMA UTF8Facts ==
    ASSUME NEW c \in Scalar
    PROVE  /\ UTF8(c) \in Bytes
           /\ Len(UTF8(c)) = Width(c)
           /\ \A p \in 1 .. Width(c) : UTF8(c)[p] = <<c, p>>
<1>1. Width(c) \in 1 .. 4
  BY WidthType
<1>2. UTF8(c) = [p \in 1 .. Width(c) |-> <<c, p>>]
  BY DEF UTF8
<1>3. \A p \in 1 .. Width(c) : <<c, p>> \in Scalar \X (1 .. 4)
  BY <1>1
<1> QED
  BY <1>1, <1>2, <1>3 DEF Bytes

\* An index array keeps its type under the update of PutScalar.
IndexAfterInsert(idx, idx2, cnt, at, width) ==
    \A j \in 0 .. cnt :
        idx2[j] = IF j < at THEN idx[j]
                  ELSE IF j = at THEN StartIn(idx, at) + width - 1
                  ELSE idx[j - 1] + width

\* What a layout says of offsets alone.
LEMMA LayoutOffsets ==
    ASSUME NEW buf \in Bytes, NEW start \in Nat, NEW cnt \in Nat,
           NEW idx, \A j \in 0 .. cnt - 1 : idx[j] \in Nat,
           LayoutOf(buf, start, idx, cnt)
    PROVE  /\ \A j \in 0 .. cnt : StartIn(idx, j) \in Nat
           /\ \A j \in 0 .. cnt - 1 : StartIn(idx, j) <= idx[j]
           /\ \A j \in 0 .. cnt, l \in 0 .. cnt - 1 : l < j => idx[l] < StartIn(idx, j)
           /\ \A j, l \in 0 .. cnt : l <= j => StartIn(idx, l) <= StartIn(idx, j)
           /\ \A j \in 0 .. cnt : StartIn(idx, j) <= Len(buf) - start
<1>1. \A j \in 0 .. cnt : StartIn(idx, j) \in Nat
  BY DEF StartIn
<1>2. \A j \in 0 .. cnt - 1 : StartIn(idx, j) <= idx[j]
  <2> SUFFICES ASSUME NEW j \in 0 .. cnt - 1 PROVE StartIn(idx, j) <= idx[j]
    OBVIOUS
  <2>1. idx[j] \in StartIn(idx, j) .. Len(buf) - start - 1
    BY DEF LayoutOf
  <2> QED
    BY <2>1
<1>3. \A j \in 0 .. cnt - 1 : \A l \in 0 .. j - 1 : idx[l] < idx[j]
  BY DEF LayoutOf
<1>4. \A j \in 0 .. cnt, l \in 0 .. cnt - 1 : l < j => idx[l] < StartIn(idx, j)
  <2> SUFFICES ASSUME NEW j \in 0 .. cnt, NEW l \in 0 .. cnt - 1, l < j
               PROVE  idx[l] < StartIn(idx, j)
    OBVIOUS
  <2>1. StartIn(idx, j) = idx[j - 1] + 1 /\ j - 1 \in 0 .. cnt - 1
    BY DEF StartIn
  <2>2. l = j - 1 \/ l \in 0 .. (j - 1) - 1
    OBVIOUS
  <2>3. idx[l] <= idx[j - 1]
    BY <1>3, <2>1, <2>2
  <2> QED
    BY <2>1, <2>3
<1>5. \A j, l \in 0 .. cnt : l <= j => StartIn(idx, l) <= StartIn(idx, j)
  <2> SUFFICES ASSUME NEW j \in 0 .. cnt, NEW l \in 0 .. cnt, l <= j
               PROVE  StartIn(idx, l) <= StartIn(idx, j)
    OBVIOUS
  <2>1. CASE l = 0
    BY <1>1, <2>1 DEF StartIn
  <2>2. CASE l # 0
    <3>1. l - 1 \in 0 .. cnt - 1 /\ l - 1 < j /\ StartIn(idx, l) = idx[l - 1] + 1
      BY <2>2 DEF StartIn
    <3>2. idx[l - 1] < StartIn(idx, j)
      BY <1>4, <3>1
    <3> QED
      BY <1>1, <3>1, <3>2
  <2> QED
    BY <2>1, <2>2
<1>6. \A j \in 0 .. cnt : StartIn(idx, j) <= Len(buf) - start
  <2>1. Len(buf) - start = StartIn(idx, cnt)
    BY DEF LayoutOf
  <2> QED
    BY <1>5, <2>1
<1> QED
  BY <1>1, <1>2, <1>4, <1>5, <1>6

\* Scalar c inserted before scalar `at`: the layout of one scalar more.
LEMMA LayoutInsert ==
    ASSUME NEW buf \in Bytes, NEW start \in Nat, NEW cnt \in Nat,
           NEW idx, \A j \in 0 .. cnt - 1 : idx[j] \in Nat,
           LayoutOf(buf, start, idx, cnt),
           NEW c \in Scalar, NEW at \in 0 .. cnt, NEW idx2,
           IndexAfterInsert(idx, idx2, cnt, at, Width(c))
    PROVE  LET buf2 == Splice(buf, start + StartIn(idx, at), UTF8(c))
           IN  /\ buf2 \in Bytes
               /\ LayoutOf(buf2, start, idx2, cnt + 1)
               /\ \A j \in 1 .. start : buf2[j] = buf[j]
               /\ \A j \in 0 .. cnt :
                    buf2[start + idx2[j] + 1][1]
                      = IF j < at THEN buf[start + idx[j] + 1][1]
                        ELSE IF j = at THEN c
                        ELSE buf[start + idx[j - 1] + 1][1]
<1> DEFINE d == Width(c)
           s == start + StartIn(idx, at)
           buf2 == Splice(buf, s, UTF8(c))
           room == Len(buf) - start
           scalar(j) == buf[start + idx[j] + 1][1]
<1>1. d \in 1 .. 4
  BY WidthType
<1>2. /\ Len(buf) \in Nat /\ start <= Len(buf) /\ room \in Nat
      /\ room = StartIn(idx, cnt)
  BY LenProperties DEF Bytes, LayoutOf
<1>3. /\ \A j \in 0 .. cnt : StartIn(idx, j) \in Nat
      /\ \A j \in 0 .. cnt - 1 : StartIn(idx, j) <= idx[j]
      /\ \A j \in 0 .. cnt, l \in 0 .. cnt - 1 : l < j => idx[l] < StartIn(idx, j)
      /\ \A j, l \in 0 .. cnt : l <= j => StartIn(idx, l) <= StartIn(idx, j)
      /\ \A j \in 0 .. cnt : StartIn(idx, j) <= room
  BY LayoutOffsets
<1>4. \A j \in 0 .. cnt - 1 :
        /\ idx[j] \in Nat /\ idx[j] < room
        /\ scalar(j) \in Scalar
        /\ idx[j] = StartIn(idx, j) + Width(scalar(j)) - 1
        /\ \A p \in 1 .. Width(scalar(j)) :
            buf[start + StartIn(idx, j) + p] = <<scalar(j), p>>
  <2> SUFFICES ASSUME NEW j \in 0 .. cnt - 1
               PROVE  /\ idx[j] \in Nat /\ idx[j] < room
                      /\ scalar(j) \in Scalar
                      /\ idx[j] = StartIn(idx, j) + Width(scalar(j)) - 1
                      /\ \A p \in 1 .. Width(scalar(j)) :
                          buf[start + StartIn(idx, j) + p] = <<scalar(j), p>>
    OBVIOUS
  <2>1. idx[j] \in StartIn(idx, j) .. room - 1
    BY DEF LayoutOf
  <2>2. idx[j] < room
    BY <1>2, <1>3, <2>1
  <2> QED
    BY <2>2 DEF LayoutOf
<1>5. s \in 0 .. Len(buf)
  BY <1>2, <1>3
<1>6. /\ buf2 \in Bytes /\ Len(buf2) = Len(buf) + d
      /\ \A m \in 1 .. Len(buf) + d :
            buf2[m] = IF m <= s THEN buf[m]
                      ELSE IF m <= s + d THEN <<c, m - s>>
                      ELSE buf[m - d]
  <2>1. /\ UTF8(c) \in Bytes /\ Len(UTF8(c)) = d
        /\ \A p \in 1 .. d : UTF8(c)[p] = <<c, p>>
    BY UTF8Facts
  <2>2. /\ buf2 \in Bytes /\ Len(buf2) = Len(buf) + d
        /\ \A m \in 1 .. Len(buf) + d :
            buf2[m] = IF m <= s THEN buf[m]
                      ELSE IF m <= s + d THEN UTF8(c)[m - s]
                      ELSE buf[m - d]
    <3> HIDE DEF s, d
    <3> QED
      BY <1>5, <2>1, SpliceFacts, ZenonT(30) DEF Bytes
  <2>3. \A m \in 1 .. Len(buf) + d :
            m > s /\ m <= s + d => UTF8(c)[m - s] = <<c, m - s>>
    <3>1. \A m \in 1 .. Len(buf) + d : m > s /\ m <= s + d => m - s \in 1 .. d
      BY <1>1, <1>2, <1>5
    <3> HIDE DEF s, d
    <3>2. \A p \in 1 .. d : UTF8(c)[p] = <<c, p>>
      BY <2>1
    <3> QED
      BY <3>1, <3>2
  <2> HIDE DEF buf2
  <2>4. \A m \in 1 .. Len(buf) + d : m <= s \/ m > s
    BY <1>1, <1>2, <1>5
  <2> QED
    BY <2>2, <2>3, <2>4
<1> HIDE DEF buf2, scalar, d, s, room

\* The new array, element by element.
<1>7. \A j \in 0 .. cnt :
        /\ j < at => idx2[j] = idx[j] /\ StartIn(idx2, j) = StartIn(idx, j)
        /\ j = at => /\ idx2[j] = StartIn(idx, at) + d - 1
                     /\ StartIn(idx2, j) = StartIn(idx, at)
        /\ j > at => /\ idx2[j] = idx[j - 1] + d
                     /\ StartIn(idx2, j) = StartIn(idx, j - 1) + d
        /\ idx2[j] \in Nat
  <2> SUFFICES ASSUME NEW j \in 0 .. cnt
               PROVE  /\ j < at => idx2[j] = idx[j] /\ StartIn(idx2, j) = StartIn(idx, j)
                      /\ j = at => /\ idx2[j] = StartIn(idx, at) + d - 1
                                   /\ StartIn(idx2, j) = StartIn(idx, at)
                      /\ j > at => /\ idx2[j] = idx[j - 1] + d
                                   /\ StartIn(idx2, j) = StartIn(idx, j - 1) + d
                      /\ idx2[j] \in Nat
    OBVIOUS
  <2>1. \A l \in 0 .. cnt :
            idx2[l] = IF l < at THEN idx[l]
                      ELSE IF l = at THEN StartIn(idx, at) + d - 1
                      ELSE idx[l - 1] + d
    BY DEF IndexAfterInsert, d
  <2>2. CASE j < at
    <3>1. StartIn(idx2, j) = StartIn(idx, j)
      BY <2>1, <2>2 DEF StartIn
    <3>2. j \in 0 .. cnt - 1
      BY <2>2
    <3> QED
      BY <1>4, <2>1, <2>2, <3>1, <3>2
  <2>3. CASE j = at
    <3>1. StartIn(idx2, j) = StartIn(idx, at)
      BY <2>1, <2>3 DEF StartIn
    <3>2. idx2[j] = StartIn(idx, at) + d - 1
      BY <2>1, <2>3
    <3>3. StartIn(idx, at) + d - 1 \in Nat
      BY <1>1, <1>3
    <3> QED
      BY <2>3, <3>1, <3>2, <3>3
  <2>4. CASE j > at
    <3>1. j - 1 \in 0 .. cnt - 1 /\ idx2[j] = idx[j - 1] + d
      BY <2>1, <2>4
    <3>2. idx2[j] \in Nat
      BY <1>1, <1>4, <3>1
    <3>3. StartIn(idx2, j) = idx2[j - 1] + 1
      BY <2>4 DEF StartIn
    <3>4. StartIn(idx2, j) = StartIn(idx, j - 1) + d
      <4>1. CASE j - 1 = at
        <5>1. idx2[j - 1] = StartIn(idx, j - 1) + d - 1
          BY <2>1, <4>1
        <5> QED
          BY <1>1, <1>3, <3>1, <3>3, <5>1
      <4>2. CASE j - 1 > at
        <5>1. idx2[j - 1] = idx[j - 2] + d /\ StartIn(idx, j - 1) = idx[j - 2] + 1
          BY <2>1, <4>2 DEF StartIn
        <5>2. idx[j - 2] \in Nat
          BY <1>4, <4>2
        <5> QED
          BY <1>1, <3>3, <5>1, <5>2
      <4> QED
        BY <2>4, <4>1, <4>2
    <3> QED
      BY <2>4, <3>1, <3>2, <3>4
  <2> QED
    BY <2>2, <2>3, <2>4

\* Scalar j of the new layout: which it is, and where its bytes are.
<1> DEFINE new(j) == IF j < at THEN scalar(j) ELSE IF j = at THEN c ELSE scalar(j - 1)
<1>8. ASSUME NEW j \in 0 .. cnt
      PROVE  /\ new(j) \in Scalar
             /\ buf2[start + idx2[j] + 1][1] = new(j)
             /\ idx2[j] = StartIn(idx2, j) + Width(new(j)) - 1
             /\ idx2[j] \in StartIn(idx2, j) .. Len(buf2) - start - 1
             /\ \A p \in 1 .. Width(new(j)) :
                    buf2[start + StartIn(idx2, j) + p] = <<new(j), p>>
  <2>1. CASE j < at
    <3>1. /\ j \in 0 .. cnt - 1 /\ new(j) = scalar(j)
          /\ idx2[j] = idx[j] /\ StartIn(idx2, j) = StartIn(idx, j)
      BY <1>7, <2>1
    <3>2. /\ idx[j] \in Nat /\ StartIn(idx, j) \in Nat
          /\ start + idx[j] + 1 <= s
          /\ Width(scalar(j)) \in 1 .. 4
          /\ idx[j] = StartIn(idx, j) + Width(scalar(j)) - 1
      <4>1. idx[j] < StartIn(idx, at) /\ StartIn(idx, at) \in Nat /\ idx[j] \in Nat
        BY <1>3, <1>4, <2>1, <3>1
      <4>2. start + idx[j] + 1 <= s
        BY <4>1 DEF s
      <4> QED
        BY <1>3, <1>4, <3>1, <4>1, <4>2, WidthType
    <3>3. \A m \in 1 .. start + idx[j] + 1 : buf2[m] = buf[m]
      BY <1>1, <1>2, <1>5, <1>6, <3>2
    <3>4. start + idx[j] + 1 \in 1 .. start + idx[j] + 1
      BY <3>2
    <3>5. \A p \in 1 .. Width(scalar(j)) :
            start + StartIn(idx, j) + p \in 1 .. start + idx[j] + 1
      BY <3>2
    <3>6. idx[j] \in StartIn(idx, j) .. Len(buf2) - start - 1
      BY <1>1, <1>2, <1>5, <1>6, <3>2
    <3>7. buf2[start + idx2[j] + 1][1] = scalar(j)
      BY <3>1, <3>3, <3>4 DEF scalar
    <3>8. \A p \in 1 .. Width(scalar(j)) :
            buf2[start + StartIn(idx2, j) + p] = <<scalar(j), p>>
      BY <1>4, <3>1, <3>3, <3>5
    <3>9. scalar(j) \in Scalar /\ idx2[j] = StartIn(idx2, j) + Width(scalar(j)) - 1
      BY <1>4, <3>1
    <3>10. idx2[j] \in StartIn(idx2, j) .. Len(buf2) - start - 1
      BY <3>1, <3>6
    <3> HIDE DEF new
    <3> QED
      BY <3>1, <3>7, <3>8, <3>9, <3>10
  <2>2. CASE j = at
    <3>1. /\ new(j) = c /\ idx2[j] = StartIn(idx, at) + d - 1
          /\ StartIn(idx2, j) = StartIn(idx, at) /\ StartIn(idx, at) \in Nat
      BY <1>3, <1>7, <2>2
    <3>2. \A p \in 1 .. d : buf2[s + p] = <<c, p>>
      <4> SUFFICES ASSUME NEW p \in 1 .. d PROVE buf2[s + p] = <<c, p>>
        OBVIOUS
      <4>1. s + p \in 1 .. Len(buf) + d /\ s + p > s /\ s + p <= s + d /\ s + p - s = p
        BY <1>1, <1>2, <1>5
      <4> QED
        BY <1>1, <1>5, <1>6, <4>1
    <3>3. start + idx2[j] + 1 = s + d /\ start + StartIn(idx2, j) = s
      BY <1>1, <3>1 DEF s
    <3>4. buf2[s + d][1] = c
      BY <1>1, <3>2
    <3>5. idx2[j] \in StartIn(idx2, j) .. Len(buf2) - start - 1
      <4>1. /\ idx2[j] \in Nat /\ StartIn(idx2, j) \in Nat
            /\ StartIn(idx2, j) <= idx2[j]
        BY <1>1, <3>1
      <4>2. idx2[j] <= Len(buf2) - start - 1 /\ Len(buf2) - start - 1 \in Int
        BY <1>1, <1>2, <1>5, <1>6, <3>1, <3>3
      <4> QED
        BY <4>1, <4>2
    <3>6. idx2[j] = StartIn(idx2, j) + Width(c) - 1
      BY <3>1 DEF d
    <3>7. \A p \in 1 .. Width(c) : buf2[start + StartIn(idx2, j) + p] = <<c, p>>
      BY <3>2, <3>3 DEF d
    <3> QED
      BY <3>1, <3>3, <3>4, <3>5, <3>6, <3>7
  <2>3. CASE j > at
    <3>1. /\ j - 1 \in 0 .. cnt - 1 /\ new(j) = scalar(j - 1)
          /\ idx2[j] = idx[j - 1] + d /\ StartIn(idx2, j) = StartIn(idx, j - 1) + d
      BY <1>7, <2>3
    <3>2. /\ idx[j - 1] \in Nat /\ StartIn(idx, j - 1) \in Nat
          /\ idx[j - 1] < room
          /\ s <= start + StartIn(idx, j - 1)
          /\ Width(scalar(j - 1)) \in 1 .. 4
          /\ idx[j - 1] = StartIn(idx, j - 1) + Width(scalar(j - 1)) - 1
      <4>1. StartIn(idx, at) <= StartIn(idx, j - 1) /\ StartIn(idx, at) \in Nat
        BY <1>3, <2>3, <3>1
      <4>2. s <= start + StartIn(idx, j - 1)
        BY <1>3, <3>1, <4>1 DEF s
      <4> QED
        BY <1>3, <1>4, <3>1, <4>2, WidthType
    <3>3. \A m \in start + StartIn(idx, j - 1) + 1 .. Len(buf) : buf2[m + d] = buf[m]
      <4> SUFFICES ASSUME NEW m \in start + StartIn(idx, j - 1) + 1 .. Len(buf)
                   PROVE  buf2[m + d] = buf[m]
        OBVIOUS
      <4> DEFINE r == m + d
      <4>1. r \in 1 .. Len(buf) + d /\ ~(r <= s) /\ ~(r <= s + d) /\ r - d = m
        BY <1>1, <1>2, <1>5, <3>2
      <4> HIDE DEF r
      <4>2. buf2[r] = buf[m]
        BY <1>6, <4>1
      <4> QED
        BY <4>2 DEF r
    <3>4. start + idx[j - 1] + 1 \in start + StartIn(idx, j - 1) + 1 .. Len(buf)
      BY <1>2, <3>2 DEF room
    <3>5. \A p \in 1 .. Width(scalar(j - 1)) :
            /\ start + StartIn(idx, j - 1) + p \in start + StartIn(idx, j - 1) + 1 .. Len(buf)
            /\ start + StartIn(idx2, j) + p = start + StartIn(idx, j - 1) + p + d
      <4> DEFINE width == Width(scalar(j - 1))
                 from == StartIn(idx, j - 1)
                 last == idx[j - 1]
      <4>1. /\ width \in 1 .. 4 /\ from \in Nat /\ last \in Nat /\ d \in 1 .. 4
            /\ last = from + width - 1 /\ last < Len(buf) - start /\ Len(buf) \in Nat
            /\ StartIn(idx2, j) = from + d
        BY <1>1, <1>2, <3>1, <3>2 DEF room
      <4> HIDE DEF width, from, last
      <4>2. \A p \in 1 .. width :
              /\ start + from + p \in start + from + 1 .. Len(buf)
              /\ start + StartIn(idx2, j) + p = start + from + p + d
        BY <4>1
      <4> QED
        BY <4>2 DEF width, from
    <3>6. start + idx2[j] + 1 = start + idx[j - 1] + 1 + d
      BY <1>1, <3>1, <3>2
    <3>7. idx2[j] \in StartIn(idx2, j) .. Len(buf2) - start - 1
      <4>1. /\ idx2[j] \in Nat /\ StartIn(idx2, j) \in Nat
            /\ StartIn(idx2, j) <= idx2[j]
        BY <1>1, <3>1, <3>2
      <4>2. idx2[j] <= Len(buf2) - start - 1 /\ Len(buf2) - start - 1 \in Int
        BY <1>1, <1>2, <1>6, <3>1, <3>2 DEF room
      <4> QED
        BY <4>1, <4>2
    <3>8. idx2[j] = StartIn(idx2, j) + Width(scalar(j - 1)) - 1
      BY <1>1, <3>1, <3>2
    <3>9. buf2[start + idx2[j] + 1][1] = scalar(j - 1)
      BY <3>3, <3>4, <3>6 DEF scalar
    <3>10. \A p \in 1 .. Width(scalar(j - 1)) :
             buf2[start + StartIn(idx2, j) + p] = <<scalar(j - 1), p>>
      BY <1>4, <3>1, <3>3, <3>5
    <3> QED
      BY <1>4, <3>1, <3>7, <3>8, <3>9, <3>10
  <2> QED
    BY <2>1, <2>2, <2>3
<1>9. \A j \in 0 .. cnt : \A l \in 0 .. j - 1 : idx2[l] < idx2[j]
  <2> SUFFICES ASSUME NEW j \in 0 .. cnt, NEW l \in 0 .. j - 1 PROVE idx2[l] < idx2[j]
    OBVIOUS
  <2>1. l \in 0 .. cnt /\ l < j
    OBVIOUS
  <2>2. \A x \in 0 .. cnt - 1 : \A y \in 0 .. x - 1 : idx[y] < idx[x]
    BY DEF LayoutOf
  <2>3. CASE j < at
    BY <1>7, <2>1, <2>2, <2>3
  <2>4. CASE j = at
    <3>1. idx2[l] = idx[l] /\ idx[l] < StartIn(idx, at) /\ l \in 0 .. cnt - 1
      BY <1>3, <1>7, <2>1, <2>4
    <3>2. idx2[j] = StartIn(idx, at) + d - 1
      BY <1>7, <2>4
    <3> QED
      BY <1>1, <1>3, <1>4, <3>1, <3>2
  <2>5. CASE j > at /\ l < at
    <3>1. /\ j - 1 \in 0 .. cnt - 1 /\ l \in 0 .. cnt - 1
          /\ idx2[j] = idx[j - 1] + d /\ idx2[l] = idx[l]
      BY <1>7, <2>1, <2>5
    <3>2. l = j - 1 \/ l \in 0 .. (j - 1) - 1
      BY <2>1
    <3>3. idx[l] <= idx[j - 1]
      BY <1>4, <2>2, <3>1, <3>2
    <3> QED
      BY <1>1, <1>4, <3>1, <3>3
  <2>6. CASE j > at /\ l = at
    <3>1. /\ j - 1 \in 0 .. cnt - 1
          /\ idx2[j] = idx[j - 1] + d /\ idx2[l] = StartIn(idx, at) + d - 1
      BY <1>7, <2>1, <2>6
    <3>2. StartIn(idx, at) <= StartIn(idx, j - 1) /\ StartIn(idx, j - 1) <= idx[j - 1]
      BY <1>3, <2>6, <3>1
    <3> QED
      BY <1>1, <1>3, <1>4, <3>1, <3>2
  <2>7. CASE j > at /\ l > at
    <3>1. /\ j - 1 \in 0 .. cnt - 1 /\ l - 1 \in 0 .. (j - 1) - 1 /\ l - 1 \in 0 .. cnt - 1
          /\ idx2[j] = idx[j - 1] + d /\ idx2[l] = idx[l - 1] + d
      BY <1>7, <2>1, <2>7
    <3> QED
      BY <1>1, <1>4, <2>2, <3>1
  <2> QED
    BY <2>1, <2>3, <2>4, <2>5, <2>6, <2>7
<1>10. start <= Len(buf2) /\ Len(buf2) - start = StartIn(idx2, cnt + 1)
  <2>1. StartIn(idx2, cnt + 1) = idx2[cnt] + 1
    <3>1. cnt + 1 # 0 /\ (cnt + 1) - 1 = cnt
      OBVIOUS
    <3> QED
      BY <3>1 DEF StartIn
  <2>2. CASE at = cnt
    <3>1. idx2[cnt] = StartIn(idx, cnt) + d - 1 /\ StartIn(idx, cnt) \in Nat
      BY <1>3, <1>7, <2>2
    <3> QED
      BY <1>1, <1>2, <1>6, <2>1, <3>1 DEF room
  <2>3. CASE at < cnt
    <3>1. /\ idx2[cnt] = idx[cnt - 1] + d
          /\ StartIn(idx, cnt) = idx[cnt - 1] + 1
          /\ idx[cnt - 1] \in Nat
      BY <1>4, <1>7, <2>3 DEF StartIn
    <3>2. Len(buf) - start = StartIn(idx, cnt) /\ Len(buf2) = Len(buf) + d
      BY <1>2, <1>6 DEF room
    <3> DEFINE last == idx[cnt - 1]
    <3>3. /\ StartIn(idx2, cnt + 1) = last + d + 1
          /\ Len(buf) - start = last + 1 /\ last \in Nat
      BY <2>1, <3>1, <3>2
    <3> HIDE DEF last, new
    <3> QED
      BY <1>1, <1>2, <3>2, <3>3
  <2>4. at = cnt \/ at < cnt
    OBVIOUS
  <2> HIDE DEF new
  <2> QED
    BY <2>2, <2>3, <2>4
<1>11. LayoutOf(buf2, start, idx2, cnt + 1)
  <2> HIDE DEF new
  <2>1. ASSUME NEW j \in 0 .. (cnt + 1) - 1
        PROVE  LET e == buf2[start + idx2[j] + 1][1]
               IN  /\ e \in Scalar
                   /\ idx2[j] = StartIn(idx2, j) + Width(e) - 1
                   /\ \A p \in 1 .. Width(e) :
                        buf2[start + StartIn(idx2, j) + p] = <<e, p>>
    <3>1. j \in 0 .. cnt
      OBVIOUS
    <3> QED
      BY <1>8, <3>1
  <2>2. \A j \in 0 .. (cnt + 1) - 1 :
          /\ idx2[j] \in StartIn(idx2, j) .. Len(buf2) - start - 1
          /\ \A l \in 0 .. j - 1 : idx2[l] < idx2[j]
    <3>1. \A j \in 0 .. (cnt + 1) - 1 : j \in 0 .. cnt
      OBVIOUS
    <3> QED
      BY <1>8, <1>9, <3>1
  <2> QED
    BY <1>10, <2>1, <2>2 DEF LayoutOf
<1>12. \A j \in 1 .. start : buf2[j] = buf[j]
  <2>1. \A j \in 1 .. start : j \in 1 .. Len(buf) + d /\ j <= s
    BY <1>1, <1>2, <1>3 DEF s
  <2> QED
    BY <1>6, <2>1
<1> QED
  BY <1>6, <1>8, <1>11, <1>12 DEF buf2, s, scalar

-----------------------------------------------------------------------------
(* What both ways of putting a scalar in do. *)

\* An append is a splice at the end.
LEMMA SpliceAtEnd ==
    ASSUME NEW S, NEW s \in Seq(S), NEW t \in Seq(S)
    PROVE  s \o t = Splice(s, Len(s), t)
<1>1. Len(s) \in 0 .. Len(s) /\ Len(t) \in Nat
  BY LenProperties
<1>2. /\ s \o t \in Seq(S) /\ Len(s \o t) = Len(s) + Len(t)
      /\ \A j \in 1 .. Len(s) + Len(t) :
            (s \o t)[j] = IF j <= Len(s) THEN s[j] ELSE t[j - Len(s)]
  BY ConcatProperties
<1> DEFINE spliced == Splice(s, Len(s), t)
           joined == s \o t
<1>3. /\ spliced \in Seq(S) /\ Len(spliced) = Len(s) + Len(t)
      /\ \A j \in 1 .. Len(s) + Len(t) :
            spliced[j] = IF j <= Len(s) THEN s[j]
                         ELSE IF j <= Len(s) + Len(t) THEN t[j - Len(s)]
                         ELSE s[j - Len(t)]
  BY <1>1, SpliceFacts
<1> HIDE DEF spliced, joined
<1>4. joined \in Seq(S) /\ Len(joined) = Len(s) + Len(t)
  BY <1>2 DEF joined
<1>5. \A j \in 1 .. Len(joined) : joined[j] = spliced[j]
  BY <1>2, <1>3, <1>4 DEF joined
<1>6. joined = spliced
  BY <1>3, <1>4, <1>5, SeqEqual
<1> QED
  BY <1>6 DEF joined, spliced

\* One element put into a sequence after its first `at`.
LEMMA SpliceOfOne ==
    ASSUME NEW S, NEW s \in Seq(S), NEW r \in Seq(S), NEW c \in S,
           NEW cnt \in Nat, NEW at \in 0 .. cnt,
           Len(s) = cnt, Len(r) = cnt + 1,
           \A j \in 1 .. cnt + 1 :
                r[j] = IF j <= at THEN s[j] ELSE IF j = at + 1 THEN c ELSE s[j - 1]
    PROVE  r = Splice(s, at, <<c>>)
<1> DEFINE t == <<c>>
<1>1. t \in Seq(S) /\ Len(t) = 1 /\ t[1] = c
  OBVIOUS
<1> HIDE DEF t
<1> DEFINE u == Splice(s, at, t)
<1>2. /\ u \in Seq(S) /\ Len(u) = cnt + 1
      /\ \A j \in 1 .. cnt + 1 :
            u[j] = IF j <= at THEN s[j] ELSE IF j <= at + 1 THEN t[j - at] ELSE s[j - 1]
  <2>1. /\ u \in Seq(S) /\ Len(u) = Len(s) + Len(t)
        /\ \A j \in 1 .. Len(s) + Len(t) :
              u[j] = IF j <= at THEN s[j]
                     ELSE IF j <= at + Len(t) THEN t[j - at] ELSE s[j - Len(t)]
    <3>1. s \in Seq(S) /\ t \in Seq(S) /\ at \in 0 .. Len(s)
      BY <1>1
    <3> QED
      BY <3>1, SpliceFacts
  <2> HIDE DEF u
  <2> QED
    BY <1>1, <2>1
<1> HIDE DEF u
<1>3. \A j \in 1 .. cnt + 1 : r[j] = u[j]
  <2> SUFFICES ASSUME NEW j \in 1 .. cnt + 1 PROVE r[j] = u[j]
    OBVIOUS
  <2>1. CASE j <= at
    BY <1>2, <2>1
  <2>2. CASE j = at + 1
    <3>1. t[j - at] = c /\ ~(j <= at) /\ j <= at + 1
      BY <1>1, <2>2, SMTT(30)
    <3>2. u[j] = c
      BY <1>2, <3>1
    <3> QED
      BY <2>2, <3>1, <3>2
  <2>3. CASE j > at + 1
    <3>1. ~(j <= at) /\ ~(j <= at + 1) /\ j # at + 1
      BY <2>3
    <3> QED
      BY <1>2, <3>1
  <2> QED
    BY <2>1, <2>2, <2>3
<1>4. r = u
  BY <1>2, <1>3, SeqEqual
<1> QED
  BY <1>4 DEF t, u

-----------------------------------------------------------------------------
(* The basic code points. *)

\* A string with a hyphen has a last one.
LEMMA LastDelimiterExists ==
    ASSUME input \in Seq(Scalar), Delimiters # {}
    PROVE  /\ LastDelimiter \in Delimiters
           /\ LastDelimiter \in 1 .. Len(input)
<1> DEFINE L == Len(input)
           fromEnd == {L - d : d \in Delimiters}
           R == OpToRel(<, Nat)
<1>1. L \in Nat
  BY LenProperties
<1>2. Delimiters \subseteq 1 .. L
  BY DEF Delimiters
<1>3. fromEnd \subseteq Nat /\ fromEnd # {}
  <2>1. \A d \in Delimiters : L - d \in Nat
    <3> SUFFICES ASSUME NEW d \in Delimiters PROVE L - d \in Nat
      OBVIOUS
    <3> HIDE DEF L
    <3>1. d \in 1 .. L
      BY <1>2
    <3> QED
      BY <1>1, <3>1
  <2>2. PICK d \in Delimiters : TRUE
    OBVIOUS
  <2>3. L - d \in fromEnd
    BY <2>2
  <2> QED
    BY <2>1, <2>3
<1>4. PICK x \in fromEnd : \A y \in fromEnd : ~(<<y, x>> \in R)
  <2> HIDE DEF fromEnd, R
  <2>1. IsWellFoundedOn(R, Nat)
    BY NatLessThanWellFounded DEF R
  <2> QED
    BY <1>3, <2>1, WFMin
<1>5. PICK d \in Delimiters : x = L - d
  BY <1>4
<1>6. \A e \in Delimiters : e <= d
  <2> SUFFICES ASSUME NEW e \in Delimiters PROVE e <= d
    OBVIOUS
  <2>1. L - e \in fromEnd /\ L - e \in Nat /\ x \in Nat
    BY <1>3, <1>4
  <2>2. ~(L - e < x)
    BY <1>4, <2>1 DEF OpToRel
  <2>3. e \in Int /\ d \in Int
    BY <1>1, <1>2
  <2> QED
    BY <1>1, <1>5, <2>2, <2>3
<1>7. LastDelimiter \in Delimiters
  BY <1>6 DEF LastDelimiter
<1> QED
  BY <1>2, <1>7

\* The labels there may be.
LEMMA LabelsFit ==
    ASSUME input \in Labels
    PROVE  input \in Seq(Scalar) /\ LabelFits
<1>1. /\ Len(input) \in Nat /\ input \in Seq(Nat)
      /\ \A j \in 1 .. Len(input) : input[j] \in Scalar
  BY LabelsAssumption, LenProperties, ScalarIs
<1> QED
  BY <1>1, CapacityAssumption DEF LabelFits

\* What is true of the label in every state.
LEMMA LabelFacts ==
    ASSUME input \in Seq(Scalar), LabelFits
    PROVE  /\ input \in Seq(Scalar) /\ Len(input) \in Nat
           /\ Len(input) + 4 <= Capacity /\ Capacity \in Nat
           /\ \A j \in 1 .. Len(input) : input[j] \in Scalar /\ input[j] \in Nat
<1>2. Len(input) \in Nat /\ \A j \in 1 .. Len(input) : input[j] \in Scalar
  BY LenProperties, ElementOfSeq
<1>3. \A c \in Scalar : c \in Nat
  BY ScalarIs
<1> QED
  BY <1>2, <1>3, CapacityAssumption DEF LabelFits

\* The layout after the basic code points: one byte each, one after another.
LEMMA StartLayout ==
    ASSUME NEW buf \in Bytes, NEW start, start = Len(buf),
           NEW basic \in Seq(Scalar), NEW idx,
           \A j \in 1 .. Len(basic) : IsASCII(basic[j]),
           \A j \in 0 .. Len(basic) - 1 : idx[j] = j
    PROVE  LET buf2 == buf \o BasicBytes(basic)
           IN  /\ buf2 \in Bytes
               /\ LayoutOf(buf2, start, idx, Len(basic))
               /\ SubSeq(buf2, 1, start) = SubSeq(buf, 1, start)
               /\ DecodedIn(buf2, start, idx, Len(basic)) = basic
<1> DEFINE m == Len(basic)
           added == BasicBytes(basic)
           buf2 == buf \o added
<1>1. m \in Nat /\ start \in Nat /\ \A j \in 1 .. m : basic[j] \in Scalar
  BY LenProperties, ElementOfSeq DEF Bytes
<1>2. /\ added \in Bytes /\ Len(added) = m
      /\ \A j \in 1 .. m : added[j] = <<basic[j], 1>>
  <2>1. \A j \in 1 .. m : <<basic[j], 1>> \in Scalar \X (1 .. 4)
    BY <1>1
  <2>2. added = [j \in 1 .. m |-> <<basic[j], 1>>]
    BY DEF BasicBytes
  <2> HIDE DEF m, added
  <2> QED
    BY <1>1, <2>1, <2>2 DEF Bytes
<1> HIDE DEF added, m
<1>3. /\ buf2 \in Bytes /\ Len(buf2) = start + m
      /\ \A j \in 1 .. start + m :
            buf2[j] = IF j <= start THEN buf[j] ELSE added[j - start]
  BY <1>2, ConcatProperties DEF Bytes
<1> HIDE DEF buf2
<1>4. \A j \in 0 .. m - 1 :
        /\ idx[j] = j /\ StartIn(idx, j) = j
        /\ buf2[start + idx[j] + 1] = <<basic[j + 1], 1>>
        /\ basic[j + 1] \in Scalar /\ Width(basic[j + 1]) = 1
  <2> SUFFICES ASSUME NEW j \in 0 .. m - 1
               PROVE  /\ idx[j] = j /\ StartIn(idx, j) = j
                      /\ buf2[start + idx[j] + 1] = <<basic[j + 1], 1>>
                      /\ basic[j + 1] \in Scalar /\ Width(basic[j + 1]) = 1
    OBVIOUS
  <2>1. \A l \in 0 .. m - 1 : idx[l] = l
    BY DEF m
  <2>2. StartIn(idx, j) = j
    BY <1>1, <2>1 DEF StartIn
  <2>3. /\ start + j + 1 \in 1 .. start + m /\ ~(start + j + 1 <= start)
        /\ start + j + 1 - start = j + 1 /\ j + 1 \in 1 .. m
    BY <1>1
  <2>4. buf2[start + j + 1] = <<basic[j + 1], 1>>
    <3>1. buf2[start + j + 1] = added[start + j + 1 - start]
      BY <1>3, <2>3
    <3>2. added[j + 1] = <<basic[j + 1], 1>>
      BY <1>2, <2>3
    <3> QED
      BY <2>3, <3>1, <3>2
  <2>5. Width(basic[j + 1]) = 1
    BY <2>3 DEF IsASCII, Width, m
  <2> QED
    BY <1>1, <2>1, <2>2, <2>3, <2>4, <2>5
<1>5. StartIn(idx, m) = m
  <2>1. CASE m = 0
    BY <2>1 DEF StartIn
  <2>2. CASE m # 0
    <3>1. m - 1 \in 0 .. m - 1
      BY <1>1, <2>2
    <3>2. idx[m - 1] = m - 1
      BY <1>4, <3>1
    <3> QED
      BY <1>1, <2>2, <3>2 DEF StartIn
  <2> QED
    BY <2>1, <2>2
<1>6. LayoutOf(buf2, start, idx, m)
  <2>1. start <= Len(buf2) /\ Len(buf2) - start = StartIn(idx, m)
    BY <1>1, <1>3, <1>5
  <2>2. ASSUME NEW j \in 0 .. m - 1
        PROVE  /\ idx[j] \in StartIn(idx, j) .. Len(buf2) - start - 1
               /\ \A l \in 0 .. j - 1 : idx[l] < idx[j]
    <3>1. idx[j] = j /\ StartIn(idx, j) = j /\ \A l \in 0 .. m - 1 : idx[l] = l
      BY <1>4
    <3>2. \A l \in 0 .. j - 1 : l \in 0 .. m - 1 /\ l < j
      BY <1>1
    <3>3. \A l \in 0 .. j - 1 : idx[l] < idx[j]
      BY <3>1, <3>2
    <3>4. j \in j .. Len(buf2) - start - 1
      BY <1>1, <1>3
    <3> QED
      BY <3>1, <3>3, <3>4
  <2>3. ASSUME NEW j \in 0 .. m - 1
        PROVE  LET c == buf2[start + idx[j] + 1][1]
               IN  /\ c \in Scalar
                   /\ idx[j] = StartIn(idx, j) + Width(c) - 1
                   /\ \A p \in 1 .. Width(c) :
                        buf2[start + StartIn(idx, j) + p] = <<c, p>>
    <3> DEFINE c == buf2[start + idx[j] + 1][1]
    <3>1. c = basic[j + 1] /\ c \in Scalar /\ Width(c) = 1
      <4>1. /\ buf2[start + idx[j] + 1] = <<basic[j + 1], 1>>
            /\ basic[j + 1] \in Scalar /\ Width(basic[j + 1]) = 1
        BY <1>4
      <4>2. c = basic[j + 1]
        <5>1. c = <<basic[j + 1], 1>>[1]
          BY <4>1
        <5> QED
          BY <5>1
      <4> HIDE DEF c
      <4> QED
        BY <4>1, <4>2
    <3>2. buf2[start + j + 1] = <<c, 1>> /\ idx[j] = j /\ StartIn(idx, j) = j
      <4>1. idx[j] = j /\ StartIn(idx, j) = j /\ buf2[start + idx[j] + 1] = <<basic[j + 1], 1>>
        BY <1>4
      <4> HIDE DEF c
      <4> QED
        BY <3>1, <4>1
    <3> HIDE DEF c
    <3>3. \A p \in 1 .. Width(c) : buf2[start + StartIn(idx, j) + p] = <<c, p>>
      BY <3>1, <3>2
    <3>4. idx[j] = StartIn(idx, j) + Width(c) - 1
      BY <3>1, <3>2
    <3> QED
      BY <3>1, <3>3, <3>4 DEF c
  <2> QED
    BY <2>1, <2>2, <2>3 DEF LayoutOf
<1>7. SubSeq(buf2, 1, start) = SubSeq(buf, 1, start)
  BY <1>1, <1>3, SameStart
<1>8. DecodedIn(buf2, start, idx, m) = basic
  <2> DEFINE scalars == DecodedIn(buf2, start, idx, m)
  <2>1. \A j \in 1 .. m : buf2[start + idx[j - 1] + 1][1] = basic[j]
    <3> SUFFICES ASSUME NEW j \in 1 .. m
                 PROVE  buf2[start + idx[j - 1] + 1][1] = basic[j]
      OBVIOUS
    <3>1. j - 1 \in 0 .. m - 1 /\ (j - 1) + 1 = j
      BY <1>1
    <3>2. buf2[start + idx[j - 1] + 1] = <<basic[j], 1>>
      BY <1>4, <3>1
    <3> QED
      BY <3>2
  <2>2. scalars = [j \in 1 .. m |-> basic[j]]
    BY <2>1 DEF DecodedIn
  <2> HIDE DEF scalars
  <2>3. scalars \in Seq(Scalar) /\ Len(scalars) = m /\ \A j \in 1 .. m : scalars[j] = basic[j]
    BY <1>1, <2>2
  <2>4. scalars = basic
    BY <2>3, SeqEqual DEF m
  <2> QED
    BY <2>4 DEF scalars
<1> QED
  BY <1>3, <1>6, <1>7, <1>8 DEF m, buf2, added

-----------------------------------------------------------------------------
(* The two steps that write to the output. *)

\* The basic code points and the delimiter, that the call starts with.
BasicLength == IF Delimiters = {} THEN 0 ELSE LastDelimiter

\* The call copies the code points before some place d of the label, those
\* before the last delimiter.
LEMMA StartStep ==
    ASSUME IndInv, SplitAtDelimiter \/ NoDelimiter
    PROVE  /\ pos' \in 0 .. Len(input) /\ count' \in Nat /\ count' <= pos'
           /\ buffer' \in Bytes
           /\ index' \in [0 .. Capacity - 1 -> Nat]
           /\ LayoutOf(buffer', startIndex, index', count')
           /\ SubSeq(buffer', 1, startIndex) = SubSeq(buffer, 1, startIndex)
           /\ \E d \in 0 .. Len(input) :
                /\ DecodedIn(buffer', startIndex, index', count') = SubSeq(input, 1, d)
                /\ \A j \in 1 .. d : IsASCII(input[j])
           /\ pos' = BasicLength /\ BasicLength \in 0 .. Len(input)
           /\ DecodedIn(buffer', startIndex, index', count')
                = SubSeq(input, 1, BasicLength - 1)
           /\ \A j \in 1 .. BasicLength - 1 : IsASCII(input[j])
<1>1. /\ input \in Seq(Scalar) /\ LabelFits /\ buffer \in Bytes /\ startIndex = Len(buffer)
      /\ index \in [0 .. Capacity - 1 -> Nat] /\ startIndex \in Nat
  BY DEF IndInv, TypeOK, AtStart, SplitAtDelimiter, NoDelimiter, Bytes
<1>2. /\ input \in Seq(Scalar) /\ Len(input) \in Nat
      /\ Len(input) + 4 <= Capacity /\ Capacity \in Nat
      /\ \A j \in 1 .. Len(input) : input[j] \in Scalar
  BY <1>1, LabelFacts
<1>3. ASSUME NEW d \in 0 .. Len(input), NEW consumed \in d .. Len(input),
             \A j \in 1 .. d : IsASCII(input[j]),
             StartLoop(SubSeq(input, 1, d), consumed)
      PROVE  /\ pos' \in 0 .. Len(input) /\ count' \in Nat /\ count' <= pos'
             /\ pos' = consumed
             /\ buffer' \in Bytes
             /\ index' \in [0 .. Capacity - 1 -> Nat]
             /\ LayoutOf(buffer', startIndex, index', count')
             /\ SubSeq(buffer', 1, startIndex) = SubSeq(buffer, 1, startIndex)
             /\ DecodedIn(buffer', startIndex, index', count') = SubSeq(input, 1, d)
  <2> DEFINE basic == SubSeq(input, 1, d)
  <2>1. basic \in Seq(Scalar) /\ Len(basic) = d /\ \A j \in 1 .. d : basic[j] = input[j]
    BY <1>2, SubSeqProperties
  <2>2. StartLoop(basic, consumed)
    BY <1>3
  <2> HIDE DEF basic
  <2>3. /\ pos' = consumed /\ count' = d /\ buffer' = buffer \o BasicBytes(basic)
        /\ index' = [j \in 0 .. Capacity - 1 |-> IF j < d THEN j ELSE index[j]]
    BY <2>1, <2>2 DEF StartLoop
  <2>4. index' \in [0 .. Capacity - 1 -> Nat]
    BY <1>1, <1>2, <2>3
  <2>5. \A j \in 0 .. d - 1 : j \in 0 .. Capacity - 1 /\ j < d
    BY <1>2
  <2>6. \A j \in 0 .. Len(basic) - 1 : index'[j] = j
    BY <2>1, <2>3, <2>5
  <2>7. \A j \in 1 .. Len(basic) : IsASCII(basic[j])
    BY <1>3, <2>1
  <2> DEFINE after == index'
  <2> HIDE DEF after
  <2>8. LET buf2 == buffer \o BasicBytes(basic)
        IN  /\ buf2 \in Bytes
            /\ LayoutOf(buf2, startIndex, after, Len(basic))
            /\ SubSeq(buf2, 1, startIndex) = SubSeq(buffer, 1, startIndex)
            /\ DecodedIn(buf2, startIndex, after, Len(basic)) = basic
    <3>1. \A j \in 0 .. Len(basic) - 1 : after[j] = j
      BY <2>6 DEF after
    <3> QED
      BY <1>1, <2>1, <2>7, <3>1, StartLayout
  <2>9. /\ LayoutOf(buffer', startIndex, index', count')
        /\ SubSeq(buffer', 1, startIndex) = SubSeq(buffer, 1, startIndex)
        /\ DecodedIn(buffer', startIndex, index', count') = basic
        /\ buffer' \in Bytes
    BY <2>1, <2>3, <2>8 DEF after
  <2>10. pos' = consumed /\ pos' \in 0 .. Len(input) /\ count' \in Nat /\ count' <= pos'
    BY <1>2, <2>3
  <2> QED
    BY <2>4, <2>9, <2>10 DEF basic
<1>4. CASE SplitAtDelimiter
  <2> DEFINE d == LastDelimiter - 1
             basic == SubSeq(input, 1, d)
  <2>1. LastDelimiter \in 1 .. Len(input)
    BY <1>2, <1>4, LastDelimiterExists DEF SplitAtDelimiter
  <2>2. d \in 0 .. Len(input) /\ LastDelimiter \in d .. Len(input)
    BY <1>2, <2>1
  <2>3. (\A j \in 1 .. Len(basic) : IsASCII(basic[j])) /\ StartLoop(basic, LastDelimiter)
    BY <1>4 DEF SplitAtDelimiter
  <2>4. Len(basic) = d /\ \A j \in 1 .. d : basic[j] = input[j]
    <3>1. d \in Nat /\ \A j \in 1 .. d : input[j] \in Scalar
      BY <1>2, <2>2
    <3> HIDE DEF d
    <3> QED
      BY <1>2, <2>2, <3>1, SubSeqProperties
  <2>5. \A j \in 1 .. d : IsASCII(input[j])
    BY <2>3, <2>4
  <2>6. BasicLength = LastDelimiter /\ d = BasicLength - 1
    BY <1>4 DEF SplitAtDelimiter, BasicLength
  <2> HIDE DEF d
  <2>7. BasicLength \in 0 .. Len(input)
    BY <1>2, <2>1, <2>6
  <2> QED
    BY <1>3, <2>2, <2>3, <2>5, <2>6, <2>7
<1>5. CASE NoDelimiter
  <2>1. SubSeq(input, 1, 0) = <<>>
    BY <1>2, SubSeqEmpty
  <2>2. StartLoop(SubSeq(input, 1, 0), 0)
    BY <1>5, <2>1 DEF NoDelimiter
  <2>3. 0 \in 0 .. Len(input) /\ \A j \in 1 .. 0 : IsASCII(input[j])
    BY <1>2
  <2>4. BasicLength = 0
    BY <1>5 DEF NoDelimiter, BasicLength
  <2>5. SubSeq(input, 1, BasicLength - 1) = <<>>
    BY <1>2, <2>4, SubSeqEmpty
  <2>6. \A j \in 1 .. BasicLength - 1 : IsASCII(input[j])
    BY <2>4
  <2> QED
    BY <1>3, <2>1, <2>2, <2>3, <2>4, <2>5, <2>6
<1> QED
  BY <1>4, <1>5

\* The call puts one scalar in.
LEMMA PutStep ==
    ASSUME IndInv, PutScalar
    PROVE  /\ NewI \in 0 .. count /\ NewN \in Scalar /\ ~IsASCII(NewN)
           /\ count' = count + 1 /\ count' <= pos
           /\ buffer' \in Bytes
           /\ index' \in [0 .. Capacity - 1 -> Nat]
           /\ LayoutOf(buffer', startIndex, index', count')
           /\ SubSeq(buffer', 1, startIndex) = SubSeq(buffer, 1, startIndex)
           /\ DecodedIn(buffer', startIndex, index', count')
                = Splice(Decoded, NewI, <<NewN>>)
<1> DEFINE at == NewI
           c == NewN
           buf2 == Splice(buffer, startIndex + StartIn(index, at), UTF8(c))
<1>1. /\ input \in Seq(Scalar) /\ LabelFits /\ pos \in 0 .. Len(input) /\ buffer \in Bytes
      /\ index \in [0 .. Capacity - 1 -> Nat] /\ startIndex \in Nat
      /\ count \in Nat /\ i \in Nat /\ count < pos
      /\ LayoutOf(buffer, startIndex, index, count)
  BY DEF IndInv, TypeOK, Progress, IndexArrayCorrect, Layout, PutScalar, AdaptDone, Bytes
<1>2. Len(input) \in Nat /\ Len(input) + 4 <= Capacity /\ Capacity \in Nat
  BY <1>1, LabelFacts
<1>3. at \in 0 .. count
  <2>1. count + 1 \in Nat /\ count + 1 # 0 /\ (count + 1) - 1 = count
    BY <1>1
  <2> QED
    BY <1>1, <2>1, DivMod DEF NewI
<1>4. c \in Scalar /\ ~IsASCII(c) /\ count' = count + 1 /\ count' <= pos
  BY <1>1, <1>2, ScalarIs DEF PutScalar
<1>5. \A j \in 0 .. count : j \in 0 .. Capacity - 1
  BY <1>1, <1>2
<1>6. \A j \in 0 .. count : index[j] \in Nat
  BY <1>1, <1>5
<1>7. Width(c) \in 1 .. 4
  BY WidthType
<1>8. \A j \in 0 .. count : StartIn(index, j) \in Nat
  BY <1>1, <1>6 DEF StartIn
<1> HIDE DEF at, c
<1>9. /\ buffer' = buf2
      /\ index' \in [0 .. Capacity - 1 -> Nat]
      /\ IndexAfterInsert(index, index', count, at, Width(c))
  <2>1. CASE AppendScalar(c)
    <3>1. at = count /\ buffer' = buffer \o UTF8(c)
      BY <2>1 DEF AppendScalar, at
    <3>2. startIndex + StartIn(index, count) = Len(buffer) /\ OutputCount = StartIn(index, count)
      <4>1. Len(buffer) \in Nat /\ Len(buffer) - startIndex = StartIn(index, count)
        BY <1>1, LenProperties DEF LayoutOf, Bytes
      <4> QED
        BY <1>1, <4>1 DEF OutputCount
    <3>3. buffer' = buf2
      <4>1. UTF8(c) \in Bytes
        BY <1>4, UTF8Facts
      <4>2. buffer \o UTF8(c) = Splice(buffer, Len(buffer), UTF8(c))
        BY <1>1, <4>1, SpliceAtEnd DEF Bytes
      <4> QED
        BY <3>1, <3>2, <4>2
    <3>4. index' = [index EXCEPT ![count] = StartIn(index, count) + Width(c) - 1]
      BY <2>1, <3>2 DEF AppendScalar
    <3>5. StartIn(index, count) + Width(c) - 1 \in Nat
      BY <1>1, <1>7, <1>8
    <3> HIDE DEF buf2
    <3>6. index' \in [0 .. Capacity - 1 -> Nat]
      BY <1>1, <3>4, <3>5
    <3>7. \A j \in 0 .. count :
            index'[j] = IF j < at THEN index[j] ELSE StartIn(index, at) + Width(c) - 1
      BY <1>1, <1>5, <3>1, <3>4
    <3>8. \A j \in 0 .. count : j < at \/ j = at
      BY <1>1, <3>1
    <3>9. IndexAfterInsert(index, index', count, at, Width(c))
      BY <3>7, <3>8 DEF IndexAfterInsert
    <3> QED
      BY <3>3, <3>6, <3>9
  <2>2. CASE InsertScalar(c)
    <3>1. /\ at < count
          /\ buffer' = buf2
          /\ index' = [j \in 0 .. Capacity - 1 |->
                IF j < at THEN index[j]
                ELSE IF j = at THEN StartIn(index, at) + Width(c) - 1
                ELSE IF j <= count THEN index[j - 1] + Width(c)
                ELSE index[j - 1]]
      BY <2>2 DEF InsertScalar, StartOf, at
    <3> HIDE DEF buf2
    <3>2. StartIn(index, at) + Width(c) - 1 \in Nat
      BY <1>3, <1>7, <1>8
    <3>3. ASSUME NEW j \in 0 .. Capacity - 1, ~(j < at), j # at
          PROVE  index[j - 1] \in Nat /\ index[j - 1] + Width(c) \in Nat
      <4>1. j - 1 \in 0 .. Capacity - 1
        BY <1>1, <1>2, <1>3, <3>3
      <4> QED
        BY <1>1, <1>7, <4>1
    <3>4. index' \in [0 .. Capacity - 1 -> Nat]
      BY <1>1, <3>1, <3>2, <3>3
    <3>5. IndexAfterInsert(index, index', count, at, Width(c))
      BY <1>1, <1>5, <3>1 DEF IndexAfterInsert
    <3> QED
      BY <3>1, <3>4, <3>5
  <2> QED
    BY <2>1, <2>2 DEF PutScalar, c
<1> DEFINE after == index'
<1> HIDE DEF after
<1>10. /\ buf2 \in Bytes
       /\ LayoutOf(buf2, startIndex, after, count + 1)
       /\ \A j \in 1 .. startIndex : buf2[j] = buffer[j]
       /\ \A j \in 0 .. count :
            buf2[startIndex + after[j] + 1][1]
              = IF j < at THEN buffer[startIndex + index[j] + 1][1]
                ELSE IF j = at THEN c
                ELSE buffer[startIndex + index[j - 1] + 1][1]
  <2>1. IndexAfterInsert(index, after, count, at, Width(c))
    BY <1>9 DEF after
  <2>2. \A j \in 0 .. count - 1 : index[j] \in Nat
    BY <1>1, <1>6
  <2>3. /\ buffer \in Bytes /\ startIndex \in Nat /\ count \in Nat
        /\ LayoutOf(buffer, startIndex, index, count) /\ c \in Scalar
    BY <1>1, <1>4
  <2> QED
    BY <1>3, <2>1, <2>2, <2>3, LayoutInsert
<1> HIDE DEF buf2
<1>11. SubSeq(buf2, 1, startIndex) = SubSeq(buffer, 1, startIndex)
  <2>1. startIndex <= Len(buffer) /\ startIndex <= Len(buf2)
    BY <1>1, <1>10 DEF LayoutOf
  <2> QED
    BY <1>1, <1>10, <2>1, SameStart DEF Bytes
<1>12. DecodedIn(buf2, startIndex, after, count + 1) = Splice(Decoded, at, <<c>>)
  <2> DEFINE s == Decoded
             r == DecodedIn(buf2, startIndex, after, count + 1)
  <2>1. s \in Seq(Scalar) /\ Len(s) = count
    <3>1. \A j \in 1 .. count : j - 1 \in 0 .. count - 1
      BY <1>1
    <3>2. \A j \in 0 .. count - 1 : buffer[startIndex + index[j] + 1][1] \in Scalar
      BY <1>1 DEF LayoutOf
    <3> QED
      BY <1>1, <3>1, <3>2 DEF Decoded, DecodedIn
  <2>2. \A j \in 1 .. count : s[j] = buffer[startIndex + index[j - 1] + 1][1]
    BY DEF Decoded, DecodedIn
  <2>3. \A j \in 1 .. count + 1 : r[j] = buf2[startIndex + after[j - 1] + 1][1]
    BY DEF DecodedIn
  <2>4. r = [j \in 1 .. count + 1 |-> r[j]]
    BY DEF DecodedIn
  <2> HIDE DEF s, r
  <2>5. ASSUME NEW j \in 1 .. count + 1
        PROVE  r[j] = IF j <= at THEN s[j] ELSE IF j = at + 1 THEN c ELSE s[j - 1]
    <3>1. j - 1 \in 0 .. count
      BY <1>1
    <3>2. r[j] = IF j - 1 < at THEN buffer[startIndex + index[j - 1] + 1][1]
                 ELSE IF j - 1 = at THEN c
                 ELSE buffer[startIndex + index[(j - 1) - 1] + 1][1]
      BY <1>10, <2>3, <3>1
    <3>3. CASE j <= at
      <4>1. j \in 1 .. count /\ j - 1 < at
        BY <1>1, <1>3, <3>3
      <4> QED
        BY <2>2, <3>2, <3>3, <4>1
    <3>4. CASE j = at + 1
      <4>1. ~(j - 1 < at) /\ j - 1 = at /\ ~(j <= at)
        BY <1>3, <3>4
      <4> QED
        BY <3>2, <3>4, <4>1
    <3>5. CASE j > at + 1
      <4>1. j - 1 \in 1 .. count /\ ~(j - 1 < at) /\ j - 1 # at /\ ~(j <= at) /\ j # at + 1
        BY <1>1, <1>3, <3>5
      <4> QED
        BY <2>2, <3>2, <4>1
    <3> QED
      BY <1>3, <3>3, <3>4, <3>5
  <2>6. \A j \in 1 .. count + 1 : r[j] \in Scalar
    <3> SUFFICES ASSUME NEW j \in 1 .. count + 1 PROVE r[j] \in Scalar
      OBVIOUS
    <3>1. \A l \in 1 .. count : s[l] \in Scalar
      BY <2>1
    <3>2. (j <= at => j \in 1 .. count) /\ (j > at + 1 => j - 1 \in 1 .. count)
      BY <1>1, <1>3
    <3>3. j <= at \/ j = at + 1 \/ j > at + 1
      BY <1>3
    <3>4. j > at + 1 => ~(j <= at) /\ j # at + 1
      BY <1>3
    <3> QED
      BY <1>4, <2>5, <3>1, <3>2, <3>3, <3>4
  <2>7. r \in Seq(Scalar) /\ Len(r) = count + 1
    BY <1>1, <2>4, <2>6
  <2>8. r = Splice(s, at, <<c>>)
    <3>1. count \in Nat /\ c \in Scalar
      BY <1>1, <1>4
    <3> QED
      BY <1>3, <2>1, <2>5, <2>7, <3>1, SpliceOfOne
  <2> QED
    BY <2>8 DEF r, s
<1> QED
  BY <1>3, <1>4, <1>9, <1>10, <1>11, <1>12 DEF at, c, after

-----------------------------------------------------------------------------
(* The invariant. *)

LEMMA InitInv == Init => IndInv
<1> SUFFICES ASSUME Init PROVE IndInv
  OBVIOUS
<1>1. PICK x \in Stale : index = [j \in 0 .. Capacity - 1 |-> x]
  BY DEF Init
<1>2. index \in [0 .. Capacity - 1 -> Nat]
  BY <1>1, StaleAssumption
<1>3. buffer \in Bytes /\ startIndex \in Nat
  <2>1. buffer \in Bytes /\ startIndex = Len(buffer)
    <3>1. /\ buffer \in Seq(Nat \X (1 .. 4)) /\ startIndex = Len(buffer)
          /\ \A j \in 1 .. Len(buffer) : buffer[j][1] \in Scalar
      BY EarlierAssumption, ScalarIs DEF Init
    <3>2. /\ Len(buffer) \in Nat
          /\ \A j \in 1 .. Len(buffer) : buffer[j] \in Nat \X (1 .. 4)
      BY <3>1, LenProperties, ElementOfSeq
    <3>3. \A j \in 1 .. Len(buffer) : buffer[j] \in Scalar \X (1 .. 4)
      BY <3>1, <3>2
    <3> QED
      BY <3>1, <3>2, <3>3 DEF Bytes
  <2> QED
    BY <2>1, LenProperties DEF Bytes
<1>4. input \in Seq(Scalar) /\ LabelFits /\ pos \in 0 .. Len(input)
  <2>1. input \in Labels /\ pos = 0
    BY DEF Init
  <2>2. input \in Seq(Scalar) /\ LabelFits
    BY <2>1, LabelsFit
  <2> QED
    BY <2>1, <2>2, LabelFacts
<1>5. TypeOK
  BY <1>2, <1>3, <1>4, BootstringAssumption, CodePointAssumption
  DEF Init, TypeOK, PCs, Bytes
<1>6. AtStart /\ Progress /\ IndexArrayCorrect
  BY DEF Init, AtStart, Progress, IndexArrayCorrect
<1>7. Unwrapped /\ NothingHalfDecoded
  BY CodePointAssumption DEF Init, Unwrapped, NothingHalfDecoded
<1> QED
  BY <1>4, <1>5, <1>6, <1>7 DEF IndInv

\* Between the scalars nothing wraps: with a scalar decoded, what is added
\* to n is at most half of what i can be.
LEMMA NoWrap ==
    ASSUME IndInv, pc = "adapt", count # 0
    PROVE  ~IsASCII(NewN)
<1>1. /\ n \in InitialN .. MaxScalar /\ i \in Nat /\ i < WordSize
      /\ count \in Nat /\ count >= 1 /\ InitialN \in Nat /\ MaxScalar \in Nat
      /\ WordSize \in Nat /\ WordSize > 2 * MaxScalar
  BY WordAssumption, CodePointAssumption DEF IndInv, Unwrapped, TypeOK
<1> DEFINE b == count + 1
           quot == i \div b
<1>2. b \in Nat /\ b >= 2 /\ b # 0
  BY <1>1
<1>3. quot \in Nat /\ b * quot <= i
  <2> HIDE DEF b
  <2> QED
    BY <1>1, <1>2
<1> HIDE DEF b, quot
<1>4. 2 * quot <= b * quot
  BY <1>2, <1>3
<1>5. b * quot \in Nat
  BY <1>2, <1>3, Products
<1>6. 2 * quot < WordSize
  BY <1>1, <1>3, <1>4, <1>5
<1>7. n + quot \in 0 .. WordSize - 1 /\ n + quot >= InitialN
  BY <1>1, <1>3, <1>6
<1>8. (n + quot) % WordSize = n + quot
  BY <1>1, <1>7
<1> QED
  BY <1>7, <1>8, <1>1 DEF NewN, WAdd, IsASCII, quot, b

\* What the steps that leave the output alone preserve.
LEMMA OutputUnchanged ==
    ASSUME IndInv, UNCHANGED <<buffer, startIndex, index, count>>,
           pc \in {"next", "digit", "adapt"}
    PROVE  Layout'
<1>1. LayoutOf(buffer, startIndex, index, count)
  BY DEF IndInv, IndexArrayCorrect, Layout
<1> QED
  BY <1>1 DEF Layout

LEMMA StepInv == IndInv /\ [Next]_vars => IndInv'
<1> SUFFICES ASSUME IndInv, [Next]_vars PROVE IndInv'
  OBVIOUS
<1>1. /\ input \in Seq(Scalar) /\ LabelFits /\ pos \in 0 .. Len(input) /\ Len(input) \in Nat
      /\ count \in Nat /\ count <= pos /\ buffer \in Bytes
      /\ \A j \in 1 .. Len(input) : input[j] \in Nat
  BY LabelFacts DEF IndInv, TypeOK, Progress, Bytes
<1>0. LabelFits'
  <2>1. input' = input
    BY DEF Next, vars, SplitAtDelimiter, NoDelimiter, FailBasic, NextScalar, ReadDigit,
           FailDigit, AdaptLoop, PutScalar, FailASCII, UnwrapNil, Finish
  <2> QED
    BY <1>1, <2>1 DEF LabelFits
<1>2. ASSUME SplitAtDelimiter \/ NoDelimiter PROVE IndInv'
  <2>1. /\ pos' \in 0 .. Len(input) /\ count' \in Nat /\ count' <= pos'
        /\ buffer' \in Bytes /\ index' \in [0 .. Capacity - 1 -> Nat]
        /\ LayoutOf(buffer', startIndex, index', count')
    BY <1>2, StartStep
  <2>2. /\ pc' = "next" /\ startIndex' = startIndex
        /\ UNCHANGED <<input, n, i, bias, oldi, w, k, delta, kAdapt>>
    BY <1>2 DEF SplitAtDelimiter, NoDelimiter, StartLoop
  <2>3. TypeOK'
    BY <2>1, <2>2 DEF IndInv, TypeOK, PCs, Bytes
  <2>4. AtStart' /\ Progress' /\ IndexArrayCorrect'
    BY <2>1, <2>2 DEF AtStart, Progress, IndexArrayCorrect, Layout
  <2>5. Unwrapped' /\ NothingHalfDecoded'
    BY <1>2, <2>2 DEF IndInv, Unwrapped, NothingHalfDecoded, SplitAtDelimiter, NoDelimiter
  <2> QED
    BY <1>0, <2>3, <2>4, <2>5 DEF IndInv
<1>3. ASSUME FailBasic \/ FailDigit PROVE IndInv'
  <2>1. /\ pc' = "failed" /\ buffer' = <<>>
        /\ UNCHANGED <<input, pos, n, i, bias, oldi, w, k, delta, kAdapt,
                       startIndex, index, count>>
    BY <1>3 DEF FailBasic, FailDigit, Fail
  <2>2. buffer' \in Bytes
    BY <2>1 DEF Bytes
  <2>3. TypeOK'
    BY <2>1, <2>2 DEF IndInv, TypeOK, PCs, Final, Bytes
  <2>4. AtStart' /\ Progress' /\ IndexArrayCorrect'
    BY <1>1, <2>1 DEF AtStart, Progress, IndexArrayCorrect
  <2>5. Unwrapped' /\ NothingHalfDecoded'
    BY <2>1 DEF Unwrapped, NothingHalfDecoded
  <2> QED
    BY <1>0, <2>3, <2>4, <2>5 DEF IndInv
<1>4. ASSUME NextScalar PROVE IndInv'
  <2>1. TypeOK'
    BY <1>4, BootstringAssumption DEF IndInv, TypeOK, PCs, NextScalar
  <2>2. Layout'
    BY <1>4, OutputUnchanged DEF NextScalar
  <2>3. AtStart' /\ Progress' /\ IndexArrayCorrect'
    BY <1>1, <1>4, <2>2 DEF AtStart, Progress, IndexArrayCorrect, NextScalar
  <2>4. Unwrapped' /\ NothingHalfDecoded'
    BY <1>4 DEF IndInv, Unwrapped, NothingHalfDecoded, NextScalar
  <2> QED
    BY <1>0, <2>1, <2>3, <2>4 DEF IndInv
<1>5. ASSUME ReadDigit PROVE IndInv'
  <2> DEFINE digit == DigitOf(input[pos + 1])
  <2>1. pos + 1 \in 0 .. Len(input) /\ digit \in Nat
    <3>1. pos < Len(input) /\ IsDigit(input[pos + 1])
      BY <1>5 DEF ReadDigit, AtDigit
    <3>2. pos + 1 \in 1 .. Len(input)
      BY <1>1, <3>1
    <3> QED
      BY <1>1, <3>1, <3>2, Digits
  <2>2. /\ i' = WAdd(i, WMul(digit, w)) /\ pos' = pos + 1
        /\ UNCHANGED <<input, n, bias, oldi, buffer, startIndex, index, count>>
        /\ \/ /\ delta' = Spread((i' - oldi) % WordSize, count + 1, oldi = 0)
              /\ kAdapt' = 0 /\ pc' = "adapt" /\ UNCHANGED <<w, k>>
           \/ /\ w' = WMul(w, Base - T(k, bias)) /\ k' = k + Base
              /\ UNCHANGED <<pc, delta, kAdapt>>
        /\ pc = "digit"
    BY <1>5 DEF ReadDigit
  <2> HIDE DEF digit
  <2>3. n \in Nat /\ i \in Nat /\ bias \in Nat /\ oldi \in Nat /\ w \in Nat /\ k \in Nat
        /\ delta \in Nat /\ kAdapt \in Nat /\ Base \in Nat
    BY BootstringAssumption DEF IndInv, TypeOK
  <2>4. i' \in Nat /\ i' < WordSize
    BY <2>1, <2>2, <2>3, WordOps
  <2>5. (i' - oldi) % WordSize \in Nat
    <3> DEFINE a == i' - oldi
    <3>1. a \in Int /\ WordSize \in Nat /\ WordSize # 0
      BY <2>3, <2>4, WordAssumption, CodePointAssumption
    <3> HIDE DEF a
    <3>2. a % WordSize \in 0 .. WordSize - 1
      BY <3>1, ModInt
    <3> QED
      BY <3>1, <3>2 DEF a
  <2>6. Spread((i' - oldi) % WordSize, count + 1, oldi = 0) \in Nat
    <3>1. count + 1 \in Nat /\ count + 1 # 0
      BY <1>1
    <3> QED
      BY <2>5, <3>1, SpreadType
  <2>7. WMul(w, Base - T(k, bias)) \in Nat /\ k + Base \in Nat
    BY <2>3, ThresholdBounds, WordOps
  <2>8. /\ w' \in Nat /\ k' \in Nat /\ delta' \in Nat /\ kAdapt' \in Nat
        /\ pc' \in {"digit", "adapt"}
    BY <2>2, <2>3, <2>6, <2>7
  <2>9. TypeOK'
    BY <2>1, <2>2, <2>4, <2>8 DEF IndInv, TypeOK, PCs
  <2>10. Layout'
    BY <2>2, OutputUnchanged
  <2>11. AtStart' /\ Progress' /\ IndexArrayCorrect'
    BY <1>1, <2>2, <2>8, <2>10 DEF AtStart, Progress, IndexArrayCorrect
  <2>12. Unwrapped' /\ NothingHalfDecoded'
    BY <2>2, <2>4, <2>8 DEF IndInv, Unwrapped, NothingHalfDecoded
  <2> QED
    BY <1>0, <2>9, <2>11, <2>12 DEF IndInv
<1>6. ASSUME AdaptLoop PROVE IndInv'
  <2>1. delta' \in Nat /\ kAdapt' \in Nat
    <3>1. delta \in Nat /\ kAdapt \in Nat /\ Base \in Nat
      BY BootstringAssumption DEF IndInv, TypeOK
    <3>2. delta' = delta \div (Base - TMin) /\ kAdapt' = kAdapt + Base
      BY <1>6 DEF AdaptLoop
    <3>3. delta \div (Base - TMin) \in Nat
      BY <3>1, AdaptLoopType
    <3> QED
      BY <3>1, <3>2, <3>3
  <2>2. TypeOK'
    BY <1>6, <2>1 DEF IndInv, TypeOK, PCs, AdaptLoop
  <2>3. Layout'
    BY <1>6, OutputUnchanged DEF AdaptLoop
  <2>4. AtStart' /\ Progress' /\ IndexArrayCorrect'
    BY <1>6, <2>3 DEF IndInv, AtStart, Progress, IndexArrayCorrect, AdaptLoop
  <2>5. Unwrapped' /\ NothingHalfDecoded'
    BY <1>6 DEF IndInv, Unwrapped, NothingHalfDecoded, AdaptLoop
  <2> QED
    BY <1>0, <2>2, <2>4, <2>5 DEF IndInv
<1>7. ASSUME AdaptDone PROVE bias' \in Nat /\ NewN \in Nat /\ NewI \in Nat
  <2>1. /\ delta \in Nat /\ kAdapt \in Nat /\ n \in Nat /\ i \in Nat
        /\ count + 1 \in Nat /\ count + 1 # 0
    BY <1>1 DEF IndInv, TypeOK
  <2>2. /\ Base - TMin + 1 \in Nat /\ delta + Skew \in Nat /\ delta + Skew # 0
    BY <2>1, BootstringAssumption
  <2>3. bias' \in Nat
    BY <1>7, <2>1, AdaptedBiasType DEF AdaptDone
  <2>4. NewN \in Nat
    <3>1. i \div (count + 1) \in Nat
      BY <2>1, DivMod
    <3> QED
      BY <2>1, <3>1, WordOps DEF NewN
  <2>5. NewI \in Nat
    <3>1. i % (count + 1) \in 0 .. (count + 1) - 1
      BY <2>1, DivMod
    <3> QED
      BY <1>1, <3>1 DEF NewI
  <2> QED
    BY <2>3, <2>4, <2>5
<1>8. ASSUME PutScalar PROVE IndInv'
  <2>1. /\ count' = count + 1 /\ count' <= pos
        /\ buffer' \in Bytes /\ index' \in [0 .. Capacity - 1 -> Nat]
        /\ LayoutOf(buffer', startIndex, index', count')
    BY <1>8, PutStep
  <2>2. /\ pc' = "next" /\ n' = NewN /\ i' = NewI + 1 /\ AdaptDone
        /\ UNCHANGED <<input, pos, oldi, w, k, delta, kAdapt, startIndex>>
    BY <1>8 DEF PutScalar
  <2>3. bias' \in Nat /\ n' \in Nat /\ i' \in Nat /\ count' \in Nat
    BY <1>1, <1>7, <2>1, <2>2
  <2>4. TypeOK'
    BY <2>1, <2>2, <2>3 DEF IndInv, TypeOK, PCs, Bytes
  <2>5. AtStart' /\ Progress' /\ IndexArrayCorrect'
    BY <2>1, <2>2 DEF AtStart, Progress, IndexArrayCorrect, Layout
  <2>6. Unwrapped' /\ NothingHalfDecoded'
    <3>1. NewN \in Scalar /\ ~IsASCII(NewN)
      BY <1>8, PutStep
    <3>2. NewN \in InitialN .. MaxScalar
      BY <3>1, CodePointAssumption DEF Scalar, IsASCII
    <3> QED
      BY <2>2, <3>2 DEF Unwrapped, NothingHalfDecoded
  <2> QED
    BY <1>0, <2>4, <2>5, <2>6 DEF IndInv
<1>9. ASSUME FailASCII \/ UnwrapNil PROVE IndInv'
  <2>1. /\ pc' \in {"failed", "undefined"} /\ n' = NewN /\ i' = NewI /\ AdaptDone
        /\ UNCHANGED <<input, pos, oldi, w, k, delta, kAdapt,
                       buffer, startIndex, index, count>>
    BY <1>9 DEF FailASCII, UnwrapNil
  <2>2. bias' \in Nat /\ n' \in Nat /\ i' \in Nat
    BY <1>7, <2>1
  <2>3. TypeOK'
    BY <2>1, <2>2 DEF IndInv, TypeOK, PCs, Final
  <2>4. AtStart' /\ Progress' /\ IndexArrayCorrect'
    BY <1>1, <2>1 DEF AtStart, Progress, IndexArrayCorrect
  <2>5. Unwrapped'
    BY <2>1 DEF Unwrapped
  <2>6. NothingHalfDecoded'
    <3>1. CASE FailASCII
      <4>1. pc = "adapt" /\ IsASCII(NewN) /\ count = 0
        BY <3>1, NoWrap DEF FailASCII, AdaptDone
      <4>2. Len(buffer) - startIndex = 0 /\ Len(buffer) \in Nat /\ startIndex \in Nat
        <5>1. LayoutOf(buffer, startIndex, index, count)
          BY <4>1 DEF IndInv, IndexArrayCorrect, Layout
        <5>2. Len(buffer) \in Nat /\ startIndex \in Nat
          BY <1>1, LenProperties DEF Bytes, IndInv, TypeOK
        <5> QED
          BY <4>1, <5>1, <5>2 DEF LayoutOf, StartIn
      <4> QED
        BY <2>1, <4>1, <4>2 DEF NothingHalfDecoded
    <3>2. CASE UnwrapNil
      BY <3>2 DEF UnwrapNil, NothingHalfDecoded
    <3> QED
      BY <1>9, <3>1, <3>2
  <2> QED
    BY <1>0, <2>3, <2>4, <2>5, <2>6 DEF IndInv
<1>10. ASSUME Finish PROVE IndInv'
  <2>1. TypeOK'
    BY <1>10 DEF IndInv, TypeOK, PCs, Final, Finish
  <2>2. Layout'
    BY <1>10, OutputUnchanged DEF Finish
  <2>3. AtStart' /\ Progress' /\ IndexArrayCorrect'
    BY <1>1, <1>10, <2>2 DEF AtStart, Progress, IndexArrayCorrect, Finish
  <2>4. Unwrapped' /\ NothingHalfDecoded'
    BY <1>10 DEF IndInv, Unwrapped, NothingHalfDecoded, Finish
  <2> QED
    BY <1>0, <2>1, <2>3, <2>4 DEF IndInv
<1>11. ASSUME UNCHANGED vars PROVE IndInv'
  <2>1. TypeOK'
    BY <1>11 DEF IndInv, TypeOK, vars
  <2>2. AtStart' /\ Progress' /\ IndexArrayCorrect'
    BY <1>11 DEF IndInv, AtStart, Progress, IndexArrayCorrect, Layout, vars
  <2>3. Unwrapped' /\ NothingHalfDecoded'
    BY <1>11 DEF IndInv, Unwrapped, NothingHalfDecoded, vars
  <2> QED
    BY <1>0, <2>1, <2>2, <2>3 DEF IndInv
<1> QED
  BY <1>2, <1>3, <1>4, <1>5, <1>6, <1>8, <1>9, <1>10, <1>11 DEF Next

-----------------------------------------------------------------------------
(***************************************************************************)
(* The call and the RFC's decoder, character by character.  The state that *)
(* the RFC's decoder is in after the characters consumed so far is the one *)
(* of the call, as long as the RFC's decoder reads on.  In the middle of an *)
(* integer the call's i and w need be the RFC's only where those fit a     *)
(* word: a digit other than 0 then takes the RFC's decoder out of the word *)
(* too, and a digit 0 ends the integer and brings i back to what it was.   *)
(***************************************************************************)
Reached == RFCState(input, BasicLength)[pos]

BetweenScalars(st) ==
    st.kind = "reading" =>
        /\ st.n = n /\ st.i = i /\ st.oldi = i /\ st.w = 1 /\ st.k = Base
        /\ st.bias = bias /\ st.out = Decoded

AmongDigits(st) ==
    st.kind = "reading" =>
        /\ st.n = n /\ st.oldi = oldi /\ st.k = k /\ st.bias = bias /\ st.out = Decoded
        /\ st.i < WordSize => i = st.i
        /\ st.w < WordSize => w = st.w
        /\ k = Base => pos < Len(input)

BeforeInsertion(st) ==
    st.kind = "reading" =>
        /\ st.n = NewN /\ IsScalar(NewN) /\ ~IsASCII(NewN)
        /\ st.i = NewI + 1 /\ st.oldi = NewI + 1 /\ st.w = 1 /\ st.k = Base
        /\ st.bias = kAdapt + RFCReduce(delta)
        /\ st.out = Splice(Decoded, NewI, <<NewN>>)

StatesAgree ==
    /\ BasicLength \in 0 .. pos
    /\ \A j \in 1 .. BasicLength - 1 : IsASCII(input[j])
    /\ Reached.kind # "bad"
    /\ pc = "next" => BetweenScalars(Reached)
    /\ pc = "digit" => AmongDigits(Reached)
    /\ pc = "adapt" => BeforeInsertion(Reached)
    /\ pc = "decoded" => pos = Len(input) /\ BetweenScalars(Reached)
    /\ pc = "undefined" => Reached.kind = "overflow"

AgreesWithRFC ==
    /\ pc \in PCs \ {"start", "failed"} => StatesAgree
    /\ pc = "failed" => RFCDecodeFrom(input, BasicLength).kind # "decoded"

\* What the RFC's decoder does next, and where it ends once it has failed.
LEMMA ReachedFacts ==
    ASSUME IndInv, BasicLength \in 0 .. pos
    PROVE  /\ GoodState(Reached)
           /\ pos < Len(input) =>
                /\ input[pos + 1] \in Nat
                /\ RFCState(input, BasicLength)[pos + 1] = RFCRead(Reached, input[pos + 1])
           /\ Reached.kind # "reading" =>
                RFCState(input, BasicLength)[Len(input)] = Reached
           /\ pos = Len(input) => RFCState(input, BasicLength)[Len(input)] = Reached
<1>1. /\ input \in Seq(Scalar) /\ LabelFits /\ pos \in 0 .. Len(input)
  BY DEF IndInv, TypeOK
<1>2. Len(input) \in Nat /\ \A j \in 1 .. Len(input) : input[j] \in Nat
  BY <1>1, LabelFacts
<1>3. input \in Seq(Nat)
  BY <1>1, <1>2
<1>4. BasicLength \in 0 .. Len(input) /\ pos \in BasicLength .. Len(input)
  BY <1>1, <1>2
<1>5. GoodState(Reached)
  BY <1>3, <1>4, StatesAreGood DEF Reached
<1>6. pos < Len(input) => RFCState(input, BasicLength)[pos + 1] = RFCRead(Reached, input[pos + 1])
  <2> SUFFICES ASSUME pos < Len(input)
               PROVE  RFCState(input, BasicLength)[pos + 1] = RFCRead(Reached, input[pos + 1])
    OBVIOUS
  <2>1. pos + 1 <= Len(input)
    BY <1>1, <1>2
  <2> QED
    BY <1>2, <1>4, <2>1, StateIsRead DEF Reached
<1>7. pos < Len(input) => input[pos + 1] \in Nat
  BY <1>1, <1>2
<1>8. Reached.kind # "reading" => RFCState(input, BasicLength)[Len(input)] = Reached
  BY <1>2, <1>4, FailedStaysFailed DEF Reached
<1>9. pos = Len(input) => RFCState(input, BasicLength)[Len(input)] = Reached
  BY DEF Reached
<1> QED
  BY <1>5, <1>6, <1>7, <1>8, <1>9

\* Steps that consume nothing leave the RFC's decoder where it is.
LEMMA SameReached ==
    ASSUME input' = input, pos' = pos
    PROVE  BasicLength' = BasicLength /\ Reached' = Reached
<1>1. BasicLength' = BasicLength
  BY DEF BasicLength, LastDelimiter, Delimiters
<1> QED
  BY <1>1 DEF Reached

LEMMA SameDecoded ==
    ASSUME UNCHANGED <<buffer, startIndex, index, count>>
    PROVE  Decoded' = Decoded
  BY DEF Decoded

\* A digit's sum is the RFC's wherever that fits a word.
LEMMA SumAgrees ==
    ASSUME NEW i0 \in Nat, NEW w0 \in Nat, NEW si \in Nat, NEW sw \in Nat, NEW d \in Nat,
           si < WordSize => i0 = si, sw < WordSize => w0 = sw, 1 <= sw,
           si + d * sw < WordSize
    PROVE  WAdd(i0, WMul(d, w0)) = si + d * sw
<1>0. WordSize \in Nat /\ WordSize # 0
  BY WordAssumption, CodePointAssumption
<1>1. d * sw \in Nat
  BY Products
<1>2. si < WordSize /\ d * sw < WordSize
  BY <1>0, <1>1
<1>3. WMul(d, w0) = d * sw
  <2>1. CASE d = 0
    <3>1. d * w0 = 0 /\ d * sw = 0
      BY <2>1
    <3> QED
      BY <1>0, <3>1 DEF WMul
  <2>2. CASE d # 0
    <3>1. sw <= sw * d /\ sw * d = d * sw
      BY <2>2, ProductGrows
    <3>2. w0 = sw
      BY <1>0, <1>1, <1>2, <3>1
    <3> DEFINE p == d * sw
    <3>3. WMul(d, w0) = p % WordSize
      BY <3>2 DEF WMul
    <3>4. p \in 0 .. WordSize - 1
      BY <1>0, <1>1, <1>2
    <3> HIDE DEF p
    <3>5. p % WordSize = p
      BY <1>0, <3>4
    <3> QED
      BY <3>3, <3>5 DEF p
  <2> QED
    BY <2>1, <2>2
<1> DEFINE s == si + d * sw
<1>4. WAdd(i0, WMul(d, w0)) = s % WordSize
  BY <1>2, <1>3 DEF WAdd
<1>5. s \in 0 .. WordSize - 1
  BY <1>0, <1>1
<1> HIDE DEF s
<1>6. s % WordSize = s
  BY <1>0, <1>5
<1> QED
  BY <1>4, <1>6 DEF s

\* So is a weight.
LEMMA WeightAgrees ==
    ASSUME NEW w0 \in Nat, NEW sw \in Nat, NEW factor \in Nat, 1 <= factor,
           sw < WordSize => w0 = sw, sw * factor < WordSize
    PROVE  WMul(w0, factor) = sw * factor
<1>0. WordSize \in Nat /\ WordSize # 0
  BY WordAssumption, CodePointAssumption
<1>1. sw * factor \in Nat /\ sw <= sw * factor
  BY ProductGrows
<1>2. w0 = sw
  BY <1>0, <1>1
<1> DEFINE p == sw * factor
<1>3. WMul(w0, factor) = p % WordSize
  BY <1>2 DEF WMul
<1>4. p \in 0 .. WordSize - 1
  BY <1>0, <1>1
<1> HIDE DEF p
<1>5. p % WordSize = p
  BY <1>0, <1>4
<1> QED
  BY <1>3, <1>5 DEF p

LEMMA DecodedLength == ASSUME IndInv PROVE count \in Nat /\ Len(Decoded) = count
<1>1. count \in Nat
  BY DEF IndInv, TypeOK
<1> QED
  BY <1>1 DEF Decoded, DecodedIn

\* One digit.
LEMMA DigitAgrees ==
    ASSUME IndInv, StatesAgree, ReadDigit
    PROVE  StatesAgree'
<1> DEFINE st == Reached
           c == input[pos + 1]
           d == DigitOf(c)
           st2 == RFCRead(st, c)
           sum == SumWith(st, d)
           length == count + 1
<1>1. /\ pc = "digit" /\ pos < Len(input) /\ IsDigit(c)
      /\ i' = WAdd(i, WMul(d, w)) /\ pos' = pos + 1
      /\ UNCHANGED <<input, n, bias, oldi, buffer, startIndex, index, count>>
  BY DEF ReadDigit, AtDigit
<1>2. /\ pos \in Nat /\ Len(input) \in Nat /\ i \in Nat /\ w \in Nat /\ count \in Nat
      /\ Len(Decoded) = count
      /\ BasicLength \in 0 .. pos
      /\ \A j \in 1 .. BasicLength - 1 : IsASCII(input[j])
  <2>1. Len(input) \in Nat
    BY LabelFacts DEF IndInv, TypeOK
  <2> QED
    BY <2>1, DecodedLength DEF IndInv, TypeOK, StatesAgree
<1>3. GoodState(st) /\ c \in Nat /\ RFCState(input, BasicLength)[pos + 1] = st2
  BY <1>1, <1>2, ReachedFacts
<1>4. BasicLength' = BasicLength
  BY <1>1 DEF BasicLength, LastDelimiter, Delimiters
<1>5. Reached' = st2
  BY <1>1, <1>3, <1>4 DEF Reached
<1>6. Decoded' = Decoded
  BY <1>1, SameDecoded
<1>7. st.kind # "bad" /\ AmongDigits(st) /\ GoodState(st2) /\ d \in Nat
  BY <1>1, <1>3, ReadIsGood, Digits DEF StatesAgree
<1>8. pc' \in {"digit", "adapt"}
  BY <1>1 DEF ReadDigit
<1> HIDE DEF st
<1>9. /\ BasicLength' \in 0 .. pos'
      /\ \A j \in 1 .. BasicLength' - 1 : IsASCII(input'[j])
  BY <1>1, <1>2, <1>4
<1>10. ASSUME st2.kind # "bad", pc' = "digit" => AmongDigits(Reached)',
              pc' = "adapt" => BeforeInsertion(Reached)'
       PROVE  StatesAgree'
  <2>1. pc' \notin {"next", "decoded", "undefined"}
    BY <1>8
  <2> QED
    BY <1>5, <1>9, <1>10, <2>1 DEF StatesAgree
<1>11. CASE st.kind # "reading"
  <2>1. st2 = st
    BY <1>11 DEF RFCRead
  <2>2. st2.kind # "reading" /\ st2.kind # "bad"
    BY <1>7, <1>11, <2>1
  <2> QED
    BY <1>5, <1>10, <2>2 DEF AmongDigits, BeforeInsertion
<1>12. CASE st.kind = "reading" /\ d < T(k, bias)
  <2>1. /\ st.n = n /\ st.oldi = oldi /\ st.k = k /\ st.bias = bias /\ st.out = Decoded
        /\ st.i < WordSize => i = st.i
        /\ st.w < WordSize => w = st.w
    BY <1>7, <1>12 DEF AmongDigits
  <2>2. /\ delta' = Spread((i' - oldi) % WordSize, length, oldi = 0)
        /\ kAdapt' = 0 /\ pc' = "adapt"
    <3>1. T(k, bias) \in Nat /\ d \in Nat
      <4>1. k \in Nat /\ bias \in Nat
        BY DEF IndInv, TypeOK
      <4>2. T(k, bias) \in 1 .. Base - 1
        BY <4>1, WeightGrows
      <4> QED
        BY <1>7, <4>2
    <3>2. ~(d >= T(k, bias))
      BY <1>12, <3>1
    <3> QED
      BY <3>2 DEF ReadDigit
  <2>3. CASE ~Fits(st, d)
    <3>1. st2 = [st EXCEPT !.kind = "overflow"]
      BY <1>1, <1>3, <1>12, <2>1, <2>3, LastDigitRead
    <3>2. st2.kind = "overflow"
      BY <1>3, <3>1 DEF GoodState, States
    <3> QED
      BY <1>5, <1>10, <2>2, <3>2 DEF BeforeInsertion
  <2>4. CASE Fits(st, d)
    <3> DEFINE at == sum % length
               newN == ScalarWith(st, d)
               newBias == RFCReduce(Spread(sum - oldi, length, oldi = 0))
    <3>1. st2 = [kind |-> "reading", n |-> newN, i |-> at + 1, oldi |-> at + 1,
                 w |-> 1, k |-> Base, bias |-> newBias,
                 out |-> Splice(Decoded, at, <<newN>>)]
      <4>1. Len(st.out) + 1 = length /\ T(st.k, st.bias) = T(k, bias)
        BY <1>2, <2>1
      <4>2. LET at2 == SumWith(st, d) % (Len(st.out) + 1)
            IN  st2 = [kind |-> "reading", n |-> newN, i |-> at2 + 1, oldi |-> at2 + 1,
                       w |-> 1, k |-> Base,
                       bias |-> RFCReduce(Spread(SumWith(st, d) - st.oldi, Len(st.out) + 1,
                                                 st.oldi = 0)),
                       out |-> Splice(st.out, at2, <<newN>>)]
        BY <1>1, <1>3, <1>12, <2>4, <4>1, LastDigitRead
      <4> QED
        BY <2>1, <4>1, <4>2
    <3>2. /\ sum \in Nat /\ sum < WordSize /\ oldi \in Nat /\ oldi <= sum
          /\ sum \div length \in Nat /\ newN = n + sum \div length
          /\ IsScalar(newN)
      <4>1. st.oldi <= st.i /\ st.oldi \in Nat /\ st.i \in Nat
        BY <1>3 DEF GoodState, States
      <4>2. sum \in Nat /\ st.i <= sum /\ sum \div length \in Nat
        BY <1>2, <1>3, <1>7, <2>1, SumType
      <4>3. sum < WordSize /\ IsScalar(newN)
        BY <2>4 DEF Fits
      <4>4. newN = n + sum \div length
        BY <1>2, <2>1 DEF ScalarWith
      <4> HIDE DEF sum, length, newN
      <4> QED
        BY <2>1, <4>1, <4>2, <4>3, <4>4
    <3>3. i' = sum
      <4>1. st.i \in Nat /\ st.w \in Nat /\ 1 <= st.w
        BY <1>3 DEF GoodState, States
      <4>2. st.i + d * st.w < WordSize
        BY <3>2 DEF SumWith
      <4>3. WAdd(i, WMul(d, w)) = st.i + d * st.w
        BY <1>2, <1>7, <2>1, <4>1, <4>2, SumAgrees
      <4> QED
        BY <1>1, <4>3 DEF SumWith
    <3> HIDE DEF sum
    <3>4. delta' = Spread(sum - oldi, length, oldi = 0)
      <4>1. WordSize \in Nat /\ WordSize # 0
        BY WordAssumption, CodePointAssumption
      <4> DEFINE rise == sum - oldi
      <4>2. rise \in 0 .. WordSize - 1
        BY <3>2, <4>1
      <4> HIDE DEF rise
      <4>3. rise % WordSize = rise
        BY <4>1, <4>2
      <4> QED
        BY <2>2, <3>3, <4>3 DEF rise
    <3>5. NewN' = newN /\ NewI' = at
      <4>1. WordSize \in Nat /\ MaxScalar \in Nat /\ WordSize > MaxScalar
        BY WordAssumption, CodePointAssumption
      <4>2. newN \in 0 .. MaxScalar
        BY <3>2 DEF IsScalar
      <4>3. NewN' = newN % WordSize
        BY <1>1, <3>2, <3>3 DEF NewN, WAdd
      <4>4. NewI' = at
        BY <1>1, <3>3 DEF NewI
      <4> HIDE DEF newN
      <4>5. newN % WordSize = newN
        BY <4>1, <4>2
      <4> QED
        BY <4>3, <4>4, <4>5
    <3>6. ~IsASCII(newN)
      <4>1. n \in InitialN .. MaxScalar /\ InitialN \in Nat /\ MaxScalar \in Nat
        BY <1>1, CodePointAssumption DEF IndInv, Unwrapped
      <4> HIDE DEF newN, length
      <4> QED
        BY <3>2, <4>1 DEF IsASCII
    <3>7. newBias = kAdapt' + RFCReduce(delta')
      <4>1. newBias = RFCReduce(delta') /\ kAdapt' = 0
        BY <2>2, <3>4
      <4>2. newBias \in Nat
        <5>1. st2.bias = newBias
          BY <3>1
        <5>2. st2.bias \in Nat
          BY <1>7 DEF GoodState, States
        <5> QED
          BY <5>1, <5>2
      <4> HIDE DEF newBias
      <4> QED
        BY <4>1, <4>2
    <3> DEFINE out2 == Splice(Decoded, at, <<newN>>)
               i2 == at + 1
    <3>8. out2 = Splice(Decoded', NewI', <<NewN'>>) /\ i2 = NewI' + 1
      BY <1>6, <3>5
    <3> HIDE DEF at, newN, newBias, out2, i2
    <3>9. /\ st2.kind = "reading" /\ st2.n = newN /\ st2.i = i2 /\ st2.oldi = i2
          /\ st2.w = 1 /\ st2.k = Base /\ st2.bias = newBias /\ st2.out = out2
      <4>1. st2 = [kind |-> "reading", n |-> newN, i |-> i2, oldi |-> i2,
                   w |-> 1, k |-> Base, bias |-> newBias, out |-> out2]
        BY <3>1 DEF out2, i2
      <4> HIDE DEF st2
      <4> QED
        BY <4>1
    <3>10. BeforeInsertion(Reached)'
      <4>1. Reached' = st2
        BY <1>5
      <4> QED
        BY <3>2, <3>5, <3>6, <3>7, <3>8, <3>9, <4>1 DEF BeforeInsertion
    <3> QED
      BY <1>10, <2>2, <3>9, <3>10
  <2> QED
    BY <2>3, <2>4
<1>13. CASE st.kind = "reading" /\ ~(d < T(k, bias))
  <2> DEFINE factor == Base - T(k, bias)
             w2 == st.w * factor
             k2 == k + Base
  <2>1. /\ st.n = n /\ st.oldi = oldi /\ st.k = k /\ st.bias = bias /\ st.out = Decoded
        /\ st.i < WordSize => i = st.i
        /\ st.w < WordSize => w = st.w
    BY <1>7, <1>13 DEF AmongDigits
  <2>2. w' = WMul(w, factor) /\ k' = k2 /\ pc' = "digit"
    BY <1>1, <1>13 DEF ReadDigit
  <2>3. st2 = [st EXCEPT !.i = sum, !.w = w2, !.k = k2]
    BY <1>1, <1>13, <2>1, DigitRead
  <2>4. /\ st.i \in Nat /\ st.w \in Nat /\ 1 <= st.w /\ k \in Nat /\ Base <= k
        /\ bias \in Nat /\ Base \in Nat /\ Base >= 1
    BY <1>3, <2>1, BootstringAssumption DEF GoodState, States
  <2>5. factor \in Nat /\ 1 <= factor
    BY <2>4, WeightGrows
  <2>6. sum < WordSize => i' = sum
    <3> SUFFICES ASSUME sum < WordSize PROVE i' = sum
      OBVIOUS
    <3>1. st.i + d * st.w < WordSize
      BY DEF SumWith
    <3>2. i \in Nat /\ w \in Nat /\ d \in Nat
      BY <1>2, <1>7
    <3>3. WAdd(i, WMul(d, w)) = st.i + d * st.w
      <4>1. st.i \in Nat /\ st.w \in Nat /\ 1 <= st.w
        BY <2>4
      <4>2. (st.i < WordSize => i = st.i) /\ (st.w < WordSize => w = st.w)
        BY <2>1
      <4> QED
        BY <3>1, <3>2, <4>1, <4>2, SumAgrees
    <3> QED
      BY <1>1, <3>3 DEF SumWith
  <2>7. w2 < WordSize => w' = w2
    <3> HIDE DEF factor
    <3> QED
      BY <1>2, <2>1, <2>2, <2>4, <2>5, WeightAgrees
  <2>8. k2 # Base
    BY <2>4
  <2> HIDE DEF w2, k2, factor, sum
  <2>9. /\ st2.kind = "reading" /\ st2.n = n /\ st2.oldi = oldi /\ st2.i = sum
        /\ st2.w = w2 /\ st2.k = k2 /\ st2.bias = bias /\ st2.out = Decoded
    <3>1. st \in States
      BY <1>3 DEF GoodState
    <3> HIDE DEF st2
    <3> QED
      BY <1>13, <2>1, <2>3, <3>1 DEF States
  <2>10. AmongDigits(Reached)'
    <3>1. Reached' = st2
      BY <1>5
    <3> QED
      BY <1>1, <1>6, <2>2, <2>6, <2>7, <2>8, <2>9, <3>1 DEF AmongDigits
  <2> QED
    BY <1>10, <2>2, <2>9, <2>10
<1> QED
  BY <1>11, <1>12, <1>13

\* Once the RFC's decoder has failed it has not decoded the label.
LEMMA FailedOutcome ==
    ASSUME IndInv, BasicLength \in 0 .. pos, Reached.kind # "reading"
    PROVE  RFCDecodeFrom(input, BasicLength).kind # "decoded"
<1>1. RFCState(input, BasicLength)[Len(input)].kind # "reading"
  BY ReachedFacts
<1>2. RFCState(input, BasicLength)[Len(input)].kind # "decoded"
  BY ReachedFacts DEF GoodState, States
<1> QED
  BY <1>1, <1>2 DEF RFCDecodeFrom, RFCOutcome

LEMMA StepAgrees == IndInv /\ AgreesWithRFC /\ [Next]_vars => AgreesWithRFC'
<1> SUFFICES ASSUME IndInv, AgreesWithRFC, [Next]_vars PROVE AgreesWithRFC'
  OBVIOUS
<1>1. pc \in {"next", "digit", "adapt"} => StatesAgree
  BY DEF AgreesWithRFC, PCs
<1>2. ASSUME UNCHANGED <<input, pos>>, StatesAgree
      PROVE  /\ Reached' = Reached
             /\ BasicLength' \in 0 .. pos'
             /\ \A j \in 1 .. BasicLength' - 1 : IsASCII(input'[j])
             /\ Reached'.kind # "bad"
  BY <1>2, SameReached DEF StatesAgree
<1>3. CASE SplitAtDelimiter \/ NoDelimiter
  <2>1. /\ pos' = BasicLength /\ BasicLength \in 0 .. Len(input)
        /\ Decoded' = SubSeq(input, 1, BasicLength - 1)
        /\ \A j \in 1 .. BasicLength - 1 : IsASCII(input[j])
    BY <1>3, StartStep DEF Decoded, SplitAtDelimiter, NoDelimiter
  <2>2. pc = "start" /\ pc' = "next" /\ UNCHANGED <<input, n, i, bias>>
    BY <1>3 DEF SplitAtDelimiter, NoDelimiter, StartLoop
  <2>3. BasicLength' = BasicLength /\ Len(input) \in Nat
    BY <2>2, LabelFacts DEF IndInv, TypeOK, BasicLength, LastDelimiter, Delimiters
  <2>4. RFCState(input, BasicLength)[BasicLength] = RFCInitial(Decoded')
    BY <2>1, <2>3, StateIsRead
  <2>5. Reached' = RFCInitial(Decoded')
    BY <2>1, <2>2, <2>3, <2>4 DEF Reached
  <2>6. n = InitialN /\ i = 0 /\ bias = InitialBias
    BY <2>2 DEF IndInv, AtStart
  <2>7. BetweenScalars(Reached)' /\ Reached'.kind # "bad"
    BY <2>2, <2>5, <2>6 DEF BetweenScalars, RFCInitial
  <2>8. BasicLength' \in 0 .. pos'
    BY <2>1, <2>3
  <2> QED
    BY <2>1, <2>2, <2>3, <2>7, <2>8 DEF AgreesWithRFC, StatesAgree
<1>4. CASE FailBasic
  <2>1. /\ pc' = "failed" /\ input' = input /\ BasicLength = LastDelimiter
        /\ \E j \in 1 .. BasicLength - 1 : ~IsASCII(input[j])
    BY <1>4 DEF FailBasic, Fail, BasicLength
  <2>2. BasicLength' = BasicLength
    BY <2>1 DEF BasicLength, LastDelimiter, Delimiters
  <2>3. RFCDecodeFrom(input, BasicLength).kind # "decoded"
    BY <2>1 DEF RFCDecodeFrom, RFCOutcome
  <2> QED
    BY <2>1, <2>2, <2>3 DEF AgreesWithRFC
<1>5. CASE NextScalar
  <2>1. /\ pc = "next" /\ pc' = "digit" /\ pos # Len(input)
        /\ oldi' = i /\ w' = 1 /\ k' = Base
        /\ UNCHANGED <<input, pos, n, i, bias, buffer, startIndex, index, count>>
    BY <1>5 DEF NextScalar
  <2>2. StatesAgree /\ BetweenScalars(Reached)
    BY <1>1, <2>1 DEF StatesAgree
  <2>3. pos < Len(input)
    <3>1. pos \in 0 .. Len(input) /\ Len(input) \in Nat
      BY LabelFacts DEF IndInv, TypeOK
    <3> QED
      BY <2>1, <3>1
  <2>4. Decoded' = Decoded
    BY <2>1, SameDecoded
  <2>5. AmongDigits(Reached)'
    BY <1>2, <2>1, <2>2, <2>3, <2>4 DEF AmongDigits, BetweenScalars
  <2> QED
    BY <1>2, <2>1, <2>2, <2>5 DEF AgreesWithRFC, StatesAgree
<1>6. CASE ReadDigit
  <2>1. pc = "digit" /\ pc' # "failed"
    BY <1>6 DEF ReadDigit
  <2>2. StatesAgree'
    BY <1>1, <1>6, <2>1, DigitAgrees
  <2> QED
    BY <2>1, <2>2 DEF AgreesWithRFC
<1>7. CASE FailDigit
  <2>1. /\ pc = "digit" /\ pc' = "failed" /\ UNCHANGED <<input, pos>>
        /\ ~(pos < Len(input) /\ IsDigit(input[pos + 1]))
    BY <1>7 DEF FailDigit, Fail, AtDigit
  <2>2. StatesAgree /\ AmongDigits(Reached) /\ BasicLength \in 0 .. pos
    BY <1>1, <2>1 DEF StatesAgree
  <2>3. RFCDecodeFrom(input, BasicLength).kind # "decoded"
    <3>1. CASE Reached.kind # "reading"
      BY <2>2, <3>1, FailedOutcome
    <3>2. CASE Reached.kind = "reading" /\ pos < Len(input)
      <4>1. /\ RFCState(input, BasicLength)[pos + 1] = RFCRead(Reached, input[pos + 1])
            /\ GoodState(Reached)
        BY <2>2, <3>2, ReachedFacts
      <4>2. RFCRead(Reached, input[pos + 1]) = [Reached EXCEPT !.kind = "bad"]
        BY <2>1, <3>2, NoDigitRead
      <4>3. RFCState(input, BasicLength)[pos + 1].kind = "bad"
        BY <4>1, <4>2 DEF GoodState, States
      <4>4. /\ Len(input) \in Nat /\ BasicLength \in 0 .. Len(input)
            /\ pos + 1 \in BasicLength .. Len(input)
        <5>1. pos \in 0 .. Len(input) /\ Len(input) \in Nat
          BY LabelFacts DEF IndInv, TypeOK
        <5> QED
          BY <2>2, <3>2, <5>1
      <4>5. RFCState(input, BasicLength)[Len(input)].kind = "bad"
        BY <4>3, <4>4, FailedStaysFailed
      <4> QED
        BY <4>5 DEF RFCDecodeFrom, RFCOutcome
    <3>3. CASE Reached.kind = "reading" /\ pos = Len(input)
      <4>1. Reached.k = k /\ k # Base
        <5>1. pos \in 0 .. Len(input) /\ Len(input) \in Nat
          BY LabelFacts DEF IndInv, TypeOK
        <5> QED
          BY <2>2, <3>3, <5>1 DEF AmongDigits
      <4>2. RFCState(input, BasicLength)[Len(input)] = Reached
        BY <2>2, <3>3, ReachedFacts
      <4> QED
        BY <3>3, <4>1, <4>2 DEF RFCDecodeFrom, RFCOutcome
    <3>4. pos < Len(input) \/ pos = Len(input)
      <4>1. pos \in 0 .. Len(input) /\ Len(input) \in Nat
        BY LabelFacts DEF IndInv, TypeOK
      <4> QED
        BY <4>1
    <3> QED
      BY <3>1, <3>2, <3>3, <3>4
  <2>4. BasicLength' = BasicLength
    BY <2>1, SameReached
  <2> QED
    BY <2>1, <2>3, <2>4 DEF AgreesWithRFC
<1>8. CASE AdaptLoop
  <2>1. /\ pc = "adapt" /\ pc' = pc /\ delta > AdaptLimit
        /\ delta' = delta \div (Base - TMin) /\ kAdapt' = kAdapt + Base
        /\ UNCHANGED <<input, pos, n, i, buffer, startIndex, index, count>>
    BY <1>8 DEF AdaptLoop
  <2>2. StatesAgree /\ BeforeInsertion(Reached)
    BY <1>1, <2>1 DEF StatesAgree
  <2>3. Decoded' = Decoded /\ NewN' = NewN /\ NewI' = NewI
    BY <2>1, SameDecoded DEF NewN, NewI
  <2>4. kAdapt + RFCReduce(delta) = kAdapt' + RFCReduce(delta')
    <3>1. delta \in Nat /\ kAdapt \in Nat /\ Base \in Nat
      BY BootstringAssumption DEF IndInv, TypeOK
    <3>2. RFCReduce(delta) = Base + RFCReduce(delta') /\ delta' \in Nat
      BY <2>1, <3>1, ReduceIsLoop, AdaptLoopType
    <3>3. RFCReduce(delta') \in Nat
      BY <3>2, ReduceIsLoop
    <3> QED
      BY <2>1, <3>1, <3>2, <3>3
  <2>5. BeforeInsertion(Reached)'
    BY <1>2, <2>1, <2>2, <2>3, <2>4 DEF BeforeInsertion
  <2> QED
    BY <1>2, <2>1, <2>2, <2>5 DEF AgreesWithRFC, StatesAgree
<1>9. CASE PutScalar
  <2>1. /\ pc = "adapt" /\ pc' = "next" /\ n' = NewN /\ i' = NewI + 1
        /\ delta <= AdaptLimit /\ bias' = AdaptedBias(delta, kAdapt)
        /\ UNCHANGED <<input, pos>>
    BY <1>9 DEF PutScalar, AdaptDone
  <2>2. StatesAgree /\ BeforeInsertion(Reached)
    BY <1>1, <2>1 DEF StatesAgree
  <2>3. Decoded' = Splice(Decoded, NewI, <<NewN>>)
    BY <1>9, PutStep DEF Decoded, PutScalar
  <2>4. bias' = kAdapt + RFCReduce(delta)
    <3>1. delta \in Nat
      BY DEF IndInv, TypeOK
    <3>2. RFCReduce(delta) = ((Base - TMin + 1) * delta) \div (delta + Skew)
      BY <2>1, <3>1, ReduceIsLoop
    <3> QED
      BY <2>1, <3>2 DEF AdaptedBias
  <2>5. BetweenScalars(Reached)'
    BY <1>2, <2>1, <2>2, <2>3, <2>4 DEF BeforeInsertion, BetweenScalars
  <2> QED
    BY <1>2, <2>1, <2>2, <2>5 DEF AgreesWithRFC, StatesAgree
<1>10. CASE FailASCII \/ UnwrapNil
  <2>1. /\ pc = "adapt" /\ pc' \in {"failed", "undefined"} /\ UNCHANGED <<input, pos>>
        /\ IsASCII(NewN) \/ ~IsScalar(NewN)
    BY <1>10 DEF FailASCII, UnwrapNil, AdaptDone
  <2>2. StatesAgree /\ BeforeInsertion(Reached) /\ BasicLength \in 0 .. pos
    BY <1>1, <2>1 DEF StatesAgree
  <2>3. Reached.kind # "reading" /\ Reached.kind # "bad"
    BY <2>1, <2>2 DEF BeforeInsertion, StatesAgree
  <2>4. Reached.kind = "overflow"
    <3>1. Reached.kind \in {"reading", "bad", "overflow"}
      BY <2>2, ReachedFacts DEF GoodState, States
    <3> QED
      BY <2>3, <3>1
  <2>5. RFCDecodeFrom(input, BasicLength).kind # "decoded" /\ BasicLength' = BasicLength
    BY <2>1, <2>2, <2>3, FailedOutcome, SameReached
  <2> QED
    BY <1>2, <2>1, <2>2, <2>4, <2>5 DEF AgreesWithRFC, StatesAgree
<1>11. CASE Finish
  <2>1. /\ pc = "next" /\ pc' = "decoded" /\ pos = Len(input)
        /\ UNCHANGED <<input, pos, n, i, bias, buffer, startIndex, index, count>>
    BY <1>11 DEF Finish
  <2>2. StatesAgree /\ BetweenScalars(Reached)
    BY <1>1, <2>1 DEF StatesAgree
  <2>3. Decoded' = Decoded
    BY <2>1, SameDecoded
  <2>4. BetweenScalars(Reached)'
    BY <1>2, <2>1, <2>2, <2>3 DEF BetweenScalars
  <2> QED
    BY <1>2, <2>1, <2>2, <2>4 DEF AgreesWithRFC, StatesAgree
<1>12. CASE UNCHANGED vars
  <2>1. BasicLength' = BasicLength /\ Reached' = Reached /\ Decoded' = Decoded
    BY <1>12, SameReached, SameDecoded DEF vars
  <2>2. NewN' = NewN /\ NewI' = NewI
    BY <1>12 DEF vars, NewN, NewI
  <2>3. UNCHANGED <<pc, input, pos, n, i, bias, oldi, w, k, delta, kAdapt>>
    BY <1>12 DEF vars
  <2> QED
    BY <2>1, <2>2, <2>3
    DEF AgreesWithRFC, StatesAgree, BetweenScalars, AmongDigits, BeforeInsertion
<1> QED
  BY <1>3, <1>4, <1>5, <1>6, <1>7, <1>8, <1>9, <1>10, <1>11, <1>12 DEF Next

\* How a call that has ended relates to what the RFC's decoder returns.
LEMMA EndsAsRFC ==
    ASSUME IndInv, AgreesWithRFC, pc \in Final
    PROVE  LET reference == RFCDecodeFrom(input, BasicLength)
           IN  /\ reference.kind = "decoded" =>
                    pc = "decoded" /\ Decoded = reference.scalars
               /\ reference.kind = "bad" => pc = "failed"
<1>1. pc \in PCs \ {"start", "failed"} => StatesAgree
  BY DEF AgreesWithRFC
<1>2. CASE pc = "failed"
  BY <1>2 DEF AgreesWithRFC
<1>3. CASE pc \in {"decoded", "undefined"}
  <2>1. /\ BasicLength \in 0 .. pos /\ \A j \in 1 .. BasicLength - 1 : IsASCII(input[j])
        /\ Reached.kind # "bad"
        /\ pc = "decoded" => pos = Len(input) /\ BetweenScalars(Reached)
        /\ pc = "undefined" => Reached.kind = "overflow"
    BY <1>1, <1>3 DEF StatesAgree, PCs, Final
  <2>2. RFCState(input, BasicLength)[Len(input)] = Reached
    BY <1>3, <2>1, ReachedFacts
  <2>3. ~\E j \in 1 .. BasicLength - 1 : ~IsASCII(input[j])
    BY <2>1
  <2>4. RFCDecodeFrom(input, BasicLength) =
            IF Reached.kind # "reading" THEN RFCOutcome(Reached.kind, <<>>)
            ELSE IF Reached.k # Base THEN RFCOutcome("bad", <<>>)
            ELSE RFCOutcome("decoded", Reached.out)
    BY <2>2, <2>3 DEF RFCDecodeFrom
  <2>5. CASE Reached.kind = "reading"
    <3>1. pc = "decoded" /\ Reached.k = Base /\ Reached.out = Decoded
      BY <1>3, <2>1, <2>5 DEF BetweenScalars
    <3> QED
      BY <2>4, <2>5, <3>1 DEF RFCOutcome
  <2>6. CASE Reached.kind # "reading"
    <3>1. Reached.kind = "overflow"
      <4>1. Reached.kind \in {"reading", "bad", "overflow"}
        BY <2>1, ReachedFacts DEF GoodState, States
      <4> QED
        BY <2>1, <2>6, <4>1
    <3> QED
      BY <2>4, <3>1 DEF RFCOutcome
  <2> QED
    BY <2>5, <2>6
<1> QED
  BY <1>2, <1>3 DEF Final

LEMMA AgreeingDecodes == IndInv /\ AgreesWithRFC => DecodesAsRFC
<1> SUFFICES ASSUME IndInv, AgreesWithRFC, pc \in Final
             PROVE  LET reference ==
                          IF Delimiters = {1} THEN RFCDecodeFrom(input, 1)
                          ELSE RFCDecode(input)
                    IN  /\ reference.kind = "decoded" =>
                              pc = "decoded" /\ Decoded = reference.scalars
                        /\ reference.kind = "bad" => pc = "failed"
  BY DEF DecodesAsRFC
<1>1. CASE Delimiters = {1}
  <2>1. LastDelimiter = 1
    BY <1>1 DEF LastDelimiter
  <2>2. BasicLength = 1
    BY <1>1, <2>1 DEF BasicLength
  <2> QED
    BY <1>1, <2>2, EndsAsRFC
<1>2. CASE Delimiters # {1}
  <2>1. RFCConsumed(input) = BasicLength
    <3>1. Delimiters \subseteq {1} <=> Delimiters = {}
      BY <1>2
    <3> QED
      BY <3>1 DEF RFCConsumed, BasicLength, Delimiters, LastDelimiter
  <2> QED
    BY <1>2, <2>1, EndsAsRFC DEF RFCDecode
<1> QED
  BY <1>1, <1>2

-----------------------------------------------------------------------------
(* The theorems. *)

\* The invariant of Punycode.decode holds throughout a call.
THEOREM Invariant == Spec => []IndInv
<1>1. Init => IndInv
  BY InitInv
<1>2. IndInv /\ [Next]_vars => IndInv'
  BY StepInv
<1> QED
  BY <1>1, <1>2, PTL DEF Spec

\* The variables of a call keep their types.
THEOREM TypeCorrect == Spec => []TypeOK
<1>1. IndInv => TypeOK
  BY DEF IndInv
<1> QED
  BY <1>1, Invariant, PTL

\* Whatever was decoded before, and whatever the reused array held, the
\* array gives the offset of the last byte of each scalar decoded, so an
\* insertion never tears a scalar (Punycode.swift:284-307).
THEOREM IndexArrayAlwaysCorrect == Spec => []IndexArrayCorrect
<1>1. IndInv => IndexArrayCorrect
  BY DEF IndInv
<1> QED
  BY <1>1, Invariant, PTL

\* No unchecked store of the array falls outside it (Punycode.swift:226-229
\* and 279-307): there are never more scalars than characters consumed.
THEOREM StoresAlwaysInBounds == Spec => []StoresInBounds
<1>1. IndInv => StoresInBounds
  <2> SUFFICES ASSUME IndInv PROVE StoresInBounds
    OBVIOUS
  <2>1. /\ count \in Nat /\ i \in Nat /\ pos \in 0 .. Len(input)
        /\ input \in Seq(Scalar) /\ LabelFits
        /\ count <= pos /\ (pc = "adapt" => count < pos)
    BY DEF IndInv, TypeOK, Progress
  <2>2. Len(input) \in Nat /\ Len(input) + 4 <= Capacity /\ Capacity \in Nat
    BY <2>1, LabelFacts
  <2>3. NewI <= count
    <3>1. count + 1 \in Nat /\ count + 1 # 0
      BY <2>1
    <3>2. i % (count + 1) \in 0 .. (count + 1) - 1
      BY <2>1, <3>1, DivMod
    <3> QED
      BY <2>1, <3>2 DEF NewI
  <2> QED
    BY <2>1, <2>2, <2>3 DEF StoresInBounds
<1> QED
  BY <1>1, Invariant, PTL

\* A failing call never leaves a part of what it decoded: the guard against
\* ASCII (Punycode.swift:273-275), the one that does not clean up, fails
\* only where nothing has been appended yet.
THEOREM NothingEverHalfDecoded == Spec => []NothingHalfDecoded
<1>1. IndInv => NothingHalfDecoded
  BY DEF IndInv
<1> QED
  BY <1>1, Invariant, PTL

\* Decoding a label leaves the labels before it as they were, unless it
\* fails.
THEOREM EarlierLabelsAlwaysKept == Spec => EarlierLabelsKept
<1> DEFINE Unfailed == pc' # "failed" =>
                    SubSeq(buffer', 1, startIndex) = SubSeq(buffer, 1, startIndex)
<1>1. IndInv /\ [Next]_vars => [Unfailed]_vars
  <2> SUFFICES ASSUME IndInv, Next PROVE Unfailed
    OBVIOUS
  <2>1. CASE SplitAtDelimiter \/ NoDelimiter
    BY <2>1, StartStep
  <2>2. CASE PutScalar
    BY <2>2, PutStep
  <2>3. CASE FailBasic \/ FailDigit
    BY <2>3 DEF FailBasic, FailDigit, Fail
  <2>4. CASE NextScalar \/ ReadDigit \/ AdaptLoop \/ FailASCII \/ UnwrapNil \/ Finish
    BY <2>4 DEF NextScalar, ReadDigit, AdaptLoop, FailASCII, UnwrapNil, Finish
  <2> QED
    BY <2>1, <2>2, <2>3, <2>4 DEF Next
<1>2. Spec => [][Unfailed]_vars
  BY <1>1, Invariant, PTL DEF Spec
<1> QED
  BY <1>2 DEF EarlierLabelsKept

\* Whatever label, parameters and word size: a call decodes what RFC 3492
\* decodes, to the same scalars, and fails where the RFC does, unless the
\* RFC's decoder overflows (Punycode.swift:171-317).
THEOREM DecodesLikeTheRFC == Spec => []DecodesAsRFC
<1>1. Init => AgreesWithRFC
  BY DEF Init, AgreesWithRFC
<1>2. IndInv /\ AgreesWithRFC /\ [Next]_vars => AgreesWithRFC'
  BY StepAgrees
<1>3. IndInv /\ AgreesWithRFC => DecodesAsRFC
  BY AgreeingDecodes
<1> QED
  BY <1>1, <1>2, <1>3, Invariant, PTL DEF Spec

-----------------------------------------------------------------------------
(* Decoding implements the insertion of scalars. *)

AbstractScalars == IF pc \in {"start", "failed"} THEN <<>> ELSE Decoded
AbstractPhase == CASE pc = "start" -> "start"
                   [] pc \in {"next", "digit", "adapt"} -> "insert"
                   [] pc \in Final -> pc

LEMMA Phases ==
    /\ pc = "start" => AbstractPhase = "start" /\ AbstractScalars = <<>>
    /\ pc \in {"next", "digit", "adapt"} =>
            AbstractPhase = "insert" /\ AbstractScalars = Decoded
    /\ pc = "failed" => AbstractPhase = "failed" /\ AbstractScalars = <<>>
    /\ pc \in {"decoded", "undefined"} =>
            AbstractPhase = pc /\ AbstractScalars = Decoded
  BY DEF AbstractPhase, AbstractScalars, Final

LEMMA PhasesAfter ==
    /\ pc' \in {"next", "digit", "adapt"} =>
            AbstractPhase' = "insert" /\ AbstractScalars' = Decoded'
    /\ pc' = "failed" => AbstractPhase' = "failed" /\ AbstractScalars' = <<>>
    /\ pc' \in {"decoded", "undefined"} =>
            AbstractPhase' = pc' /\ AbstractScalars' = Decoded'
  BY DEF AbstractPhase, AbstractScalars, Final

LEMMA AbstractStep ==
    ASSUME IndInv, Next
    PROVE  [Scalars!Next]_(Scalars!vars)
<1>1. CASE SplitAtDelimiter \/ NoDelimiter
  <2>1. \E d \in 0 .. Len(input) :
            Decoded' = SubSeq(input, 1, d) /\ \A j \in 1 .. d : IsASCII(input[j])
    BY <1>1, StartStep DEF Decoded, SplitAtDelimiter, NoDelimiter
  <2>2. pc = "start" /\ pc' = "next" /\ input' = input
    BY <1>1 DEF SplitAtDelimiter, NoDelimiter, StartLoop
  <2>3. AbstractPhase = "start" /\ AbstractPhase' = "insert" /\ AbstractScalars' = Decoded'
    BY <2>2, Phases, PhasesAfter
  <2> QED
    BY <2>1, <2>2, <2>3
    DEF Scalars!Next, Scalars!CopyBasic, AbstractPhase, AbstractScalars, IsASCII
<1>2. CASE PutScalar
  <2>1. /\ NewI \in 0 .. count /\ NewN \in Scalar /\ NewN >= InitialN
        /\ Decoded' = Splice(Decoded, NewI, <<NewN>>)
    <3>1. /\ NewI \in 0 .. count /\ NewN \in Scalar /\ ~IsASCII(NewN)
          /\ DecodedIn(buffer', startIndex, index', count')
               = Splice(Decoded, NewI, <<NewN>>)
      BY <1>2, PutStep
    <3>2. NewN \in Nat /\ InitialN \in Nat
      BY <3>1, ScalarIs, CodePointAssumption
    <3> QED
      BY <1>2, <3>1, <3>2 DEF PutScalar, Decoded, IsASCII
  <2>2. Len(Decoded) = count
    <3>1. count \in Nat
      BY DEF IndInv, TypeOK
    <3> QED
      BY <3>1 DEF Decoded, DecodedIn
  <2>3. pc = "adapt" /\ pc' = "next" /\ input' = input
    BY <1>2 DEF PutScalar, AdaptDone
  <2>4. /\ AbstractPhase = "insert" /\ AbstractPhase' = "insert"
        /\ AbstractScalars = Decoded /\ AbstractScalars' = Decoded'
    BY <2>3, Phases, PhasesAfter
  <2>5. /\ NewI \in 0 .. Len(AbstractScalars)
        /\ AbstractScalars' = Splice(AbstractScalars, NewI, <<NewN>>)
    BY <2>1, <2>2, <2>4
  <2>6. \E c \in Scalar, at \in 0 .. Len(AbstractScalars) :
            c >= InitialN /\ AbstractScalars' = Splice(AbstractScalars, at, <<c>>)
    BY <2>1, <2>5
  <2> QED
    BY <2>3, <2>4, <2>6
    DEF Scalars!Next, Scalars!Insert, AbstractPhase, AbstractScalars,
        Splice, Scalars!Splice
<1>3. CASE FailBasic \/ FailDigit \/ FailASCII
  <2>1. /\ pc \in {"start", "next", "digit", "adapt"} /\ pc' = "failed"
        /\ input' = input
    BY <1>3 DEF FailBasic, FailDigit, FailASCII, Fail, AdaptDone
  <2>2. /\ AbstractPhase \in {"start", "insert"} /\ AbstractPhase' = "failed"
        /\ AbstractScalars' = <<>>
    BY <2>1, Phases, PhasesAfter
  <2> QED
    BY <2>1, <2>2 DEF Scalars!Next, Scalars!Fail, AbstractPhase, AbstractScalars
<1>4. CASE UnwrapNil \/ Finish
  <2>1. /\ pc \in {"next", "adapt"} /\ pc' \in {"decoded", "undefined"}
        /\ UNCHANGED <<input, buffer, startIndex, index, count>>
    BY <1>4 DEF UnwrapNil, Finish, AdaptDone
  <2>2. Decoded' = Decoded
    BY <2>1 DEF Decoded
  <2>3. /\ AbstractPhase = "insert" /\ AbstractPhase' \in {"decoded", "undefined"}
        /\ AbstractScalars' = AbstractScalars
    BY <2>1, <2>2, Phases, PhasesAfter
  <2> QED
    BY <2>1, <2>3 DEF Scalars!Next, Scalars!End, AbstractPhase, AbstractScalars
<1>5. CASE NextScalar \/ ReadDigit \/ AdaptLoop
  <2>1. /\ pc \in {"next", "digit", "adapt"} /\ pc' \in {"next", "digit", "adapt"}
        /\ UNCHANGED <<input, buffer, startIndex, index, count>>
    BY <1>5 DEF NextScalar, ReadDigit, AdaptLoop
  <2>2. Decoded' = Decoded
    BY <2>1 DEF Decoded
  <2>3. AbstractPhase' = AbstractPhase /\ AbstractScalars' = AbstractScalars
    BY <2>1, <2>2, Phases, PhasesAfter
  <2> QED
    BY <2>1, <2>3 DEF Scalars!vars, AbstractPhase, AbstractScalars
<1> QED
  BY <1>1, <1>2, <1>3, <1>4, <1>5 DEF Next

\* Seen as a string of scalars, a call copies the basic code points and
\* inserts one scalar that is not ASCII at a time, until it ends or fails
\* (Punycode.swift:195-314).
THEOREM Implementation == Spec => InsertsScalars
<1>1. Init => Scalars!Init
  BY Phases DEF Init, Scalars!Init, AbstractPhase, AbstractScalars
<1>2. IndInv /\ [Next]_vars => [Scalars!Next]_(Scalars!vars)
  <2>1. UNCHANGED vars => UNCHANGED Scalars!vars
    BY DEF vars, Scalars!vars, Decoded, Final
  <2> QED
    BY <2>1, AbstractStep
<1> QED
  BY <1>1, <1>2, Invariant, PTL DEF Spec, InsertsScalars, Scalars!Spec

-----------------------------------------------------------------------------
(* The round trip.  The encoder's invariants are carried along while the   *)
(* decoder runs: what they say of the bytes, by the RFC's decoder, is what *)
(* AgreesWithRFC says of the scalars decoded from them.                    *)

Proved == INSTANCE PunycodeEncode_proofs
    WITH Labels <- Texts, pc <- ePC, pos <- ePos, n <- eN, delta <- eDelta, bias <- eBias,
         k <- eK, kAdapt <- eKAdapt

\* What the theorems about PunycodeEncode assume of its constants.
LEMMA EncoderAssumptions ==
    /\ Proved!BootstringAssumption /\ Proved!CodePointAssumption /\ Proved!WordAssumption
    /\ Proved!InlineCapacityAssumption /\ Proved!ThresholdAssumption /\ Proved!ByteAssumption
    /\ Proved!ASCIILimitAssumption /\ Proved!NFCTableAssumption /\ Proved!ASCIIIsNFCAssumption
    /\ Proved!LabelsAssumption /\ Proved!ReusedAssumption /\ Proved!EncodedBytesAssumption
<1>1. Proved!BootstringAssumption /\ Proved!CodePointAssumption /\ Proved!WordAssumption
  BY BootstringAssumption, CodePointAssumption, WordAssumption
  DEF Proved!BootstringAssumption, Proved!CodePointAssumption, Proved!WordAssumption
<1>2. /\ Proved!InlineCapacityAssumption /\ Proved!ThresholdAssumption /\ Proved!ByteAssumption
      /\ Proved!ASCIILimitAssumption /\ Proved!NFCTableAssumption /\ Proved!EncodedBytesAssumption
  BY BufferAssumption
  DEF Proved!InlineCapacityAssumption, Proved!ThresholdAssumption, Proved!ByteAssumption,
      Proved!ASCIILimitAssumption, Proved!NFCTableAssumption,
      Proved!EncodedBytesAssumption
<1>3. Proved!ASCIIIsNFCAssumption
  BY EncoderAssumption
  DEF Proved!ASCIIIsNFCAssumption, Proved!AllASCII, Encoder!AllASCII
<1>4. Proved!LabelsAssumption
  BY TextsAssumption
  DEF Proved!LabelsAssumption, Proved!IsScalar, IsScalar
<1>5. Proved!ReusedAssumption
  BY EncoderAssumption
  DEF Proved!ReusedAssumption, Proved!Buffer, Proved!InlineBuffer, Proved!HeapBuffer,
      Proved!Cells, Encoder!Buffer, Encoder!InlineBuffer, Encoder!HeapBuffer,
      Encoder!Cells
<1> QED
  BY <1>1, <1>2, <1>3, <1>4, <1>5

\* The encoder of PunycodeRoundTrip is the one the theorems are about.
LEMMA SameValues ==
    /\ Encoder!CountInBounds(output) <=> Proved!CountInBounds(output)
    /\ Encoder!Contents(output) = Proved!Contents(output)
    /\ Encoder!ShortEnough <=> Proved!ShortEnough
  BY DEF Encoder!CountInBounds, Proved!CountInBounds, Encoder!Contents, Proved!Contents,
         Encoder!ShortEnough, Proved!ShortEnough, Encoder!IsInline, Proved!IsInline,
         Encoder!CountCell, Proved!CountCell

LEMMA SameSteps ==
    /\ Encoder!Init <=> Proved!Init
    /\ Encoder!Next <=> Proved!Next
<1>1. Encoder!Init <=> Proved!Init
  BY DEF Encoder!Init, Proved!Init
<1> USE DEF Encoder!Scanning, Proved!Scanning, Encoder!CodePoint, Proved!CodePoint,
            Encoder!IsASCII, Proved!IsASCII, Encoder!WAdd, Proved!WAdd, Encoder!WMul,
            Proved!WMul
<1>2. \A byte, next : Encoder!Put(byte, next) <=> Proved!Put(byte, next)
  BY DEF Encoder!Put, Proved!Put, Encoder!WritesPastTuple, Proved!WritesPastTuple,
         Encoder!AppendUnchecked, Proved!AppendUnchecked, Encoder!IsInline,
         Proved!IsInline, Encoder!Inline, Proved!Inline, Encoder!Heap, Proved!Heap,
         Encoder!CountCell, Proved!CountCell, Encoder!GrownTo, Proved!GrownTo
<1>3. Encoder!Start <=> Proved!Start
  BY DEF Encoder!Start, Proved!Start, Encoder!RemoveAll, Proved!RemoveAll,
         Encoder!IsInline, Proved!IsInline, Encoder!EmptyInline, Proved!EmptyInline,
         Encoder!Inline, Proved!Inline, Encoder!Heap, Proved!Heap
<1>4. (Encoder!CopyASCII <=> Proved!CopyASCII) /\ (Encoder!SkipNonASCII <=> Proved!SkipNonASCII)
  BY <1>2 DEF Encoder!CopyASCII, Proved!CopyASCII, Encoder!SkipNonASCII,
              Proved!SkipNonASCII
<1>5. Encoder!EndASCII <=> Proved!EndASCII
  BY <1>2 DEF Encoder!EndASCII, Proved!EndASCII, Encoder!Count, Proved!Count,
              Encoder!IsInline, Proved!IsInline, Encoder!CountCell, Proved!CountCell
<1>6. Encoder!NextCodePoint = Proved!NextCodePoint
  BY DEF Encoder!NextCodePoint, Proved!NextCodePoint, Encoder!Unhandled,
         Proved!Unhandled, Encoder!Min, Proved!Min
<1>7. Encoder!BeginPass <=> Proved!BeginPass
  BY <1>6 DEF Encoder!BeginPass, Proved!BeginPass
<1>8. /\ Encoder!Pass <=> Proved!Pass
      /\ Encoder!Meet <=> Proved!Meet
      /\ Encoder!EndPass <=> Proved!EndPass
  BY DEF Encoder!Pass, Proved!Pass, Encoder!Meet, Proved!Meet, Encoder!EndPass,
         Proved!EndPass, Encoder!PassedOver, Proved!PassedOver
<1>9. \A kk, b : Encoder!T(kk, b) = Proved!T(kk, b)
  BY DEF Encoder!T, Proved!T
<1>10. Encoder!Digit = Proved!Digit /\ Encoder!Quotient = Proved!Quotient
  BY <1>9 DEF Encoder!Digit, Proved!Digit, Encoder!Quotient, Proved!Quotient
<1>11. \A d : Encoder!ByteOfDigit(d) = Proved!ByteOfDigit(d)
  BY DEF Encoder!ByteOfDigit, Proved!ByteOfDigit, Encoder!Letters, Proved!Letters
<1>12. Encoder!WriteDigit <=> Proved!WriteDigit
  BY <1>2, <1>9, <1>10, <1>11
  DEF Encoder!WriteDigit, Proved!WriteDigit
<1>13. \A d, c, f : Encoder!Spread(d, c, f) = Proved!Spread(d, c, f)
  BY DEF Encoder!Spread, Proved!Spread
<1>14. Encoder!WriteLastDigit <=> Proved!WriteLastDigit
  BY <1>2, <1>9, <1>11, <1>13
  DEF Encoder!WriteLastDigit, Proved!WriteLastDigit
<1>15. (Encoder!AdaptLoop <=> Proved!AdaptLoop) /\ (Encoder!Adapted <=> Proved!Adapted)
  BY DEF Encoder!AdaptLoop, Proved!AdaptLoop, Encoder!Adapted, Proved!Adapted,
         Encoder!AdaptLimit, Proved!AdaptLimit, Encoder!AdaptedBias, Proved!AdaptedBias
<1>16. Encoder!Return <=> Proved!Return
  BY DEF Encoder!Return, Proved!Return
<1>17. Encoder!Next <=> Proved!Next
  BY <1>3, <1>4, <1>5, <1>7, <1>8, <1>12, <1>14, <1>15, <1>16
  DEF Encoder!Next, Proved!Next
<1> QED
  BY <1>1, <1>17

\* And both directions are compared with the same decoder.
LEMMA SameReference == \A s : RFCDecode(s) = Proved!RFCDecode(s)
  BY DEF RFCDecode, Proved!RFCDecode, RFCDecodeFrom, Proved!RFCDecodeFrom, RFCConsumed,
         Proved!RFCConsumed, RFCOutcome, Proved!RFCOutcome, RFCState, Proved!RFCState,
         RFCInitial, Proved!RFCInitial, RFCRead, Proved!RFCRead, RFCInsert,
         Proved!RFCInsert, RFCAdapt, Proved!RFCAdapt, RFCReduce, Proved!RFCReduce,
         RFCThreshold, Proved!RFCThreshold, IsScalar, Proved!IsScalar, IsASCII,
         Proved!IsASCII, IsDigit, Proved!IsDigit, DigitOf, Proved!DigitOf, Letters,
         Proved!Letters, Splice, Proved!Splice

\* The decoder waits for the encoder, and then reads what was written.
Handed ==
    /\ turn = "encode" => pc = "start"
    /\ turn = "decode" /\ label # <<>> =>
        /\ ePC = "done" /\ Encoder!CountInBounds(output)
        /\ input = Encoder!Contents(output)

\* What is kept of the encoder's call.
Encoding == Proved!IndInv /\ Proved!Follows /\ Proved!Writes

RoundTripInv == Encoding /\ IndInv /\ AgreesWithRFC /\ Handed

LEMMA EncoderSteps == Encoding /\ [Proved!Next]_(Proved!vars) => Encoding'
  BY Proved!StepInv, Proved!StepFollows, Proved!StepWrites, EncoderAssumptions DEF Encoding

LEMMA EncoderStutters ==
    ASSUME Encoding, UNCHANGED encoderVars
    PROVE  Encoding'
<1>1. UNCHANGED Proved!vars
  BY DEF encoderVars, Proved!vars
<1> QED
  BY <1>1, EncoderSteps

LEMMA InputKept == Next => input' = input
  BY DEF Next, SplitAtDelimiter, NoDelimiter, FailBasic, NextScalar, ReadDigit, FailDigit,
         AdaptLoop, PutScalar, FailASCII, UnwrapNil, Finish

\* What is handed over is a label like those of any other origin.
LEMMA HandOverStep == RoundTripInv /\ HandOver => RoundTripInv'
<1> SUFFICES ASSUME RoundTripInv, HandOver PROVE RoundTripInv'
  OBVIOUS
<1>1. /\ Encoding /\ IndInv /\ Handed
      /\ UNCHANGED encoderVars /\ turn = "encode" /\ turn' = "decode"
      /\ input' = Encoder!Contents(output)
      /\ ePC = "done" /\ Encoder!CountInBounds(output)
      /\ UNCHANGED <<pc, pos, n, i, bias, oldi, w, k, delta, kAdapt,
                     buffer, startIndex, index, count>>
      /\ Len(input') + 4 <= Capacity
  BY DEF RoundTripInv, HandOver
<1>2. Encoding'
  BY <1>1, EncoderStutters
<1>3. pc = "start" /\ pc' = "start"
  BY <1>1 DEF Handed
<1>4. input' \in Seq(Scalar) /\ Len(input') \in Nat
  <2>1. Proved!Contents(output) \in Seq(0 .. InitialN - 1)
    BY <1>1, Proved!DoneIsASCII, EncoderAssumptions, SameValues DEF Encoding
  <2>2. \A c \in 0 .. InitialN - 1 : c \in Scalar
    <3> SUFFICES ASSUME NEW c \in 0 .. InitialN - 1 PROVE c \in Scalar
      OBVIOUS
    <3>1. c \in 0 .. MaxScalar /\ c \notin InitialN .. MaxScalar
      BY CodePointAssumption
    <3> QED
      BY <3>1, CodePointAssumption DEF Scalar, IsScalar
  <2>3. input' \in Seq(0 .. InitialN - 1) /\ Len(input') \in Nat
    BY <1>1, <2>1, SameValues, LenProperties
  <2> DEFINE D == 0 .. InitialN - 1
  <2> HIDE DEF D
  <2>4. D \subseteq Scalar
    BY <2>2 DEF D
  <2>5. input' \in Seq(D)
    BY <2>3 DEF D
  <2> QED
    BY <2>3, <2>4, <2>5
<1>5. IndInv'
  <2>1. TypeOK'
    BY <1>1, <1>3, <1>4 DEF IndInv, TypeOK, AtStart
  <2>2. AtStart' /\ LabelFits' /\ Progress'
    BY <1>1, <1>3 DEF IndInv, AtStart, LabelFits, Progress
  <2>3. IndexArrayCorrect' /\ Unwrapped' /\ NothingHalfDecoded'
    BY <1>1, <1>3 DEF IndInv, IndexArrayCorrect, Unwrapped, NothingHalfDecoded
  <2> QED
    BY <2>1, <2>2, <2>3 DEF IndInv
<1>6. AgreesWithRFC'
  BY <1>3 DEF AgreesWithRFC
<1>7. Handed'
  <2>1. output' = output /\ ePC' = ePC
    BY <1>1 DEF encoderVars
  <2>2. Encoder!CountInBounds(output)' /\ Encoder!Contents(output)' = Encoder!Contents(output)
    BY <1>1, <2>1
  <2> QED
    BY <1>1, <2>1, <2>2 DEF Handed
<1> QED
  BY <1>2, <1>5, <1>6, <1>7 DEF RoundTripInv

LEMMA RoundTripInitInv == RoundTripInit => RoundTripInv
<1> SUFFICES ASSUME RoundTripInit PROVE RoundTripInv
  OBVIOUS
<1>1. Encoding
  BY SameSteps, Proved!InitInv, Proved!InitFollows, Proved!InitWrites, EncoderAssumptions
  DEF RoundTripInit, Encoding
<1>2. IndInv /\ AgreesWithRFC
  BY InitInv DEF RoundTripInit, Init, AgreesWithRFC
<1>3. Handed
  BY DEF RoundTripInit, Init, Handed
<1> QED
  BY <1>1, <1>2, <1>3 DEF RoundTripInv

LEMMA RoundTripStep == RoundTripInv /\ [RoundTripNext]_roundVars => RoundTripInv'
<1> SUFFICES ASSUME RoundTripInv, [RoundTripNext]_roundVars PROVE RoundTripInv'
  OBVIOUS
<1>1. Encoding /\ IndInv /\ AgreesWithRFC /\ Handed
  BY DEF RoundTripInv
<1>2. CASE EncoderStep
  <2>1. turn = "encode" /\ turn' = "encode" /\ UNCHANGED vars
    BY <1>2 DEF EncoderStep
  <2>2. Encoding'
    BY <1>1, <1>2, SameSteps, EncoderSteps DEF EncoderStep
  <2>3. IndInv' /\ AgreesWithRFC'
    BY <1>1, <2>1, StepInv, StepAgrees
  <2>4. Handed'
    BY <1>1, <2>1 DEF Handed, vars
  <2> QED
    BY <2>2, <2>3, <2>4 DEF RoundTripInv
<1>3. CASE DecoderStep \/ UNCHANGED roundVars
  <2>1. UNCHANGED <<encoderVars, turn>> /\ [Next]_vars
    BY <1>3 DEF DecoderStep, roundVars
  <2>2. Encoding'
    BY <1>1, <2>1, EncoderStutters
  <2>3. IndInv' /\ AgreesWithRFC'
    BY <1>1, <2>1, StepInv, StepAgrees
  <2>4. input' = input /\ (turn = "encode" => pc' = pc)
    BY <1>3, InputKept DEF DecoderStep, roundVars, vars
  <2>5. output' = output /\ ePC' = ePC /\ label' = label /\ turn' = turn
    BY <2>1 DEF encoderVars
  <2>6. /\ Encoder!CountInBounds(output)' <=> Encoder!CountInBounds(output)
        /\ Encoder!Contents(output)' = Encoder!Contents(output)
    BY <2>5
  <2>7. Handed'
    BY <1>1, <2>4, <2>5, <2>6 DEF Handed
  <2> QED
    BY <2>2, <2>3, <2>7 DEF RoundTripInv
<1> QED
  BY <1>2, <1>3, HandOverStep DEF RoundTripNext

\* The invariants of the two calls hold beside each other, and what `encode`
\* leaves in the buffer is what `decode` is given (Punycode.swift:56-163).
THEOREM RoundTripInvariant == RoundTripSpec => []RoundTripInv
<1>1. RoundTripInit => RoundTripInv
  BY RoundTripInitInv
<1>2. RoundTripInv /\ [RoundTripNext]_roundVars => RoundTripInv'
  BY RoundTripStep
<1> QED
  BY <1>1, <1>2, PTL DEF RoundTripSpec

\* The decoder agrees with RFC 3492 on what the encoder wrote too
\* (Punycode.swift:171-317).
THEOREM RoundTripDecodesLikeTheRFC == RoundTripSpec => []DecodesAsRFC
<1>1. RoundTripInv => DecodesAsRFC
  BY AgreeingDecodes DEF RoundTripInv
<1> QED
  BY <1>1, RoundTripInvariant, PTL

\* Whatever label `encode` returns from, if its deltas fit the word and the
\* bytes can be read: `decode` makes that label of them, whatever was
\* decoded before it (Punycode.swift:56-163 and 171-317).
THEOREM LabelsComeBack == RoundTripSpec => []RoundTrip
<1>1. RoundTripInv => RoundTrip
  <2> SUFFICES ASSUME RoundTripInv, label # <<>>, Encoder!ShortEnough, turn = "decode", pc \in Final
               PROVE  pc = "decoded" /\ Decoded = label
    BY DEF RoundTrip
  <2>1. /\ Proved!IndInv /\ Proved!Follows /\ ePC = "done" /\ Proved!ShortEnough
        /\ Proved!CountInBounds(output) /\ input = Proved!Contents(output)
    BY SameValues DEF RoundTripInv, Encoding, Handed
  <2>2. RFCDecode(input) = RFCOutcome("decoded", label)
    <3>1. Proved!PrefixDecodes
      BY <2>1, Proved!FollowingDecodes, EncoderAssumptions
    <3>2. Proved!RFCDecode(input) = Proved!RFCOutcome("decoded", label)
      BY <2>1, <3>1
      DEF Proved!PrefixDecodes
    <3> QED
      BY <3>2, SameReference
      DEF RFCOutcome, Proved!RFCOutcome
  <2>3. Delimiters # {1}
    BY <2>1, Proved!DoneIsASCII, EncoderAssumptions
    DEF Delimiters
  <2>4. DecodesAsRFC
    BY AgreeingDecodes DEF RoundTripInv
  <2> QED
    BY <2>2, <2>3, <2>4 DEF DecodesAsRFC, RFCOutcome
<1> QED
  BY <1>1, RoundTripInvariant, PTL

\* The two instances of the RFC's encoder are one.
LEMMA SameEncoding == \A s : Encoder!RFCEncode(s) = Proved!RFCEncode(s)
<1>0. \A S : Encoder!Cardinality(S) = Proved!Cardinality(S)
  BY DEF Encoder!Cardinality, Proved!Cardinality
<1>1. /\ \A s : Encoder!ASCIIPlaces(s) = Proved!ASCIIPlaces(s)
      /\ \A s, j : Encoder!RFCEarlier(s, j) = Proved!RFCEarlier(s, j)
  BY DEF Encoder!ASCIIPlaces, Proved!ASCIIPlaces, Encoder!RFCEarlier, Proved!RFCEarlier,
         Encoder!IsASCII, Proved!IsASCII
<1>2. \A s, h : Encoder!RFCPlace(s, h) = Proved!RFCPlace(s, h)
  BY <1>0, <1>1 DEF Encoder!RFCPlace, Proved!RFCPlace, Encoder!IsASCII, Proved!IsASCII
<1>3. \A s, h : Encoder!RFCAt(s, h) = Proved!RFCAt(s, h)
  BY <1>0, <1>1, <1>2 DEF Encoder!RFCAt, Proved!RFCAt
<1>4. \A s : Encoder!RFCBasics(s) = Proved!RFCBasics(s)
  BY <1>0, <1>1 DEF Encoder!RFCBasics, Proved!RFCBasics
<1>5. \A s, h : Encoder!RFCBehind(s, h) = Proved!RFCBehind(s, h)
  BY <1>2, <1>3, <1>4 DEF Encoder!RFCBehind, Proved!RFCBehind
<1>6. \A s, h : Encoder!RFCDelta(s, h) = Proved!RFCDelta(s, h)
  BY <1>2, <1>3, <1>5 DEF Encoder!RFCDelta, Proved!RFCDelta
<1>7. \A s, h : Encoder!RFCBias(s, h) = Proved!RFCBias(s, h)
  BY <1>4, <1>6
  DEF Encoder!RFCBias, Proved!RFCBias, Encoder!RFCAdapt, Proved!RFCAdapt, Encoder!RFCReduce,
      Proved!RFCReduce
<1>8. \A b : Encoder!RFCDigits(b) = Proved!RFCDigits(b)
  BY DEF Encoder!RFCDigits, Proved!RFCDigits, Encoder!RFCThreshold, Proved!RFCThreshold,
         Encoder!ByteOfDigit, Proved!ByteOfDigit, Encoder!Letters, Proved!Letters
<1>9. \A s, P : Encoder!Kept(s, P) = Proved!Kept(s, P)
  BY DEF Encoder!Kept, Proved!Kept
<1>10. \A s : Encoder!RFCWritten(s) = Proved!RFCWritten(s)
  BY <1>1, <1>4, <1>6, <1>7, <1>8, <1>9 DEF Encoder!RFCWritten, Proved!RFCWritten
<1> QED
  BY <1>10 DEF Encoder!RFCEncode, Proved!RFCEncode

\* In the round trip too `encode` writes what RFC 3492 writes, wherever it
\* fits the buffer handed to it (Punycode.swift:56-163).
THEOREM RoundTripEncodesLikeTheRFC == RoundTripSpec => []EncodesAsRFC
<1>1. RoundTripInv => EncodesAsRFC
  <2> SUFFICES ASSUME RoundTripInv PROVE Encoder!EncodesAsRFC
    BY DEF EncodesAsRFC
  <2>1. Proved!EncodesAsRFC
    BY Proved!WritingIsEncoding, EncoderAssumptions DEF RoundTripInv, Encoding
  <2>2. \A bytes : Encoder!OutputFits(bytes) <=> Proved!OutputFits(bytes)
    BY DEF Encoder!OutputFits, Proved!OutputFits, Encoder!IsInline, Proved!IsInline
  <2> QED
    BY <2>1, <2>2, SameValues, SameEncoding
    DEF Encoder!EncodesAsRFC, Proved!EncodesAsRFC, Encoder!Final, Proved!Final
<1> QED
  BY <1>1, RoundTripInvariant, PTL

=============================================================================
