-------------------------- MODULE Splicing_proofs --------------------------
(* What a splice contains, for the proofs about buffers and index arrays. *)
EXTENDS Splicing, SequenceTheorems, TLAPS

\* What a splice is made of.
LEMMA SpliceFacts ==
    ASSUME NEW S, NEW s \in Seq(S), NEW t \in Seq(S), NEW i \in 0 .. Len(s)
    PROVE  /\ Splice(s, i, t) \in Seq(S)
           /\ Len(Splice(s, i, t)) = Len(s) + Len(t)
           /\ \A j \in 1 .. Len(s) + Len(t) :
                Splice(s, i, t)[j] = IF j <= i THEN s[j]
                                     ELSE IF j <= i + Len(t) THEN t[j - i]
                                     ELSE s[j - Len(t)]
<1> DEFINE head == SubSeq(s, 1, i)
           tail == SubSeq(s, i + 1, Len(s))
<1>1. /\ Len(s) \in Nat /\ Len(t) \in Nat /\ i \in Int
      /\ \A k \in 1 .. Len(s) : s[k] \in S
  BY LenProperties, ElementOfSeq
<1>2. /\ head \in Seq(S) /\ Len(head) = i
      /\ \A j \in 1 .. i : head[j] = s[j]
  <2>1. \A k \in 1 .. i : s[k] \in S
    BY <1>1
  <2> QED
    BY <1>1, <2>1, SubSeqProperties
<1>3. /\ tail \in Seq(S) /\ Len(tail) = Len(s) - i
      /\ \A j \in 1 .. Len(s) - i : tail[j] = s[i + j]
  <2>1. \A k \in i + 1 .. Len(s) : s[k] \in S
    BY <1>1
  <2>2. i + 1 \in Int /\ Len(s) \in Int
    BY <1>1
  <2>3. /\ tail \in Seq(S)
        /\ Len(tail) = IF i + 1 <= Len(s) THEN Len(s) - (i + 1) + 1 ELSE 0
        /\ \A j \in 1 .. Len(s) - (i + 1) + 1 : tail[j] = s[i + 1 + j - 1]
    BY <2>1, <2>2, SubSeqProperties
  <2> QED
    BY <1>1, <2>3
<1> HIDE DEF head, tail
<1>4. /\ head \o t \in Seq(S) /\ Len(head \o t) = i + Len(t)
      /\ \A j \in 1 .. i + Len(t) :
            (head \o t)[j] = IF j <= i THEN head[j] ELSE t[j - i]
  BY <1>2, ConcatProperties
<1> DEFINE front == head \o t
<1>5. /\ front \o tail \in Seq(S) /\ Len(front \o tail) = Len(s) + Len(t)
      /\ \A j \in 1 .. Len(s) + Len(t) :
            (front \o tail)[j] = IF j <= i + Len(t) THEN front[j]
                                 ELSE tail[j - (i + Len(t))]
  <2> HIDE DEF front
  <2>1. front \in Seq(S) /\ Len(front) = i + Len(t)
    BY <1>4 DEF front
  <2>2. /\ front \o tail \in Seq(S) /\ Len(front \o tail) = Len(front) + Len(tail)
        /\ \A j \in 1 .. Len(front) + Len(tail) :
            (front \o tail)[j] = IF j <= Len(front) THEN front[j]
                                 ELSE tail[j - Len(front)]
    BY <1>3, <2>1, ConcatProperties
  <2> QED
    BY <1>1, <1>3, <2>1, <2>2
<1>6. Splice(s, i, t) = front \o tail
  BY DEF Splice, head, tail
<1>7. \A j \in 1 .. Len(s) + Len(t) :
        (front \o tail)[j] = IF j <= i THEN s[j]
                             ELSE IF j <= i + Len(t) THEN t[j - i]
                             ELSE s[j - Len(t)]
  <2> SUFFICES ASSUME NEW j \in 1 .. Len(s) + Len(t)
               PROVE  (front \o tail)[j] = IF j <= i THEN s[j]
                                           ELSE IF j <= i + Len(t) THEN t[j - i]
                                           ELSE s[j - Len(t)]
    OBVIOUS
  <2>1. CASE j <= i + Len(t)
    <3>1. j \in 1 .. i + Len(t) /\ (j <= i => j \in 1 .. i)
      BY <1>1, <2>1
    <3>2. front[j] = IF j <= i THEN s[j] ELSE t[j - i]
      BY <1>2, <1>4, <3>1
    <3> HIDE DEF front
    <3>3. (front \o tail)[j] = front[j]
      BY <1>5, <2>1
    <3> QED
      BY <2>1, <3>2, <3>3
  <2>2. CASE j > i + Len(t)
    <3>1. j - (i + Len(t)) \in 1 .. Len(s) - i /\ i + (j - (i + Len(t))) = j - Len(t)
      BY <1>1, <2>2
    <3> HIDE DEF front
    <3>2. (front \o tail)[j] = tail[j - (i + Len(t))]
      BY <1>1, <1>5, <2>2
    <3>3. (front \o tail)[j] = s[j - Len(t)]
      BY <1>3, <3>1, <3>2
    <3> QED
      BY <1>1, <2>2, <3>3
  <2> HIDE DEF front
  <2>3. j <= i + Len(t) \/ j > i + Len(t)
    BY <1>1
  <2> QED
    BY <2>1, <2>2, <2>3
<1> HIDE DEF front
<1> QED
  BY <1>5, <1>6, <1>7

\* Appending to a splice, and splicing at the end.
LEMMA SpliceAppend ==
    ASSUME NEW S, NEW u \in Seq(S), NEW at \in 0 .. Len(u), NEW c \in S, NEW d \in S
    PROVE  /\ Splice(u, Len(u), <<c>>) = Append(u, c)
           /\ Append(Splice(u, at, <<c>>), d) = Splice(Append(u, d), at, <<c>>)
<1> DEFINE t == <<c>>
           v == Append(u, d)
           a == Append(Splice(u, at, t), d)
           b == Splice(v, at, t)
           e == Splice(u, Len(u), t)
           f == Append(u, c)
<1>1. Len(u) \in Nat /\ t \in Seq(S) /\ Len(t) = 1 /\ t[1] = c
  BY LenProperties
<1> HIDE DEF t
<1>2. v \in Seq(S) /\ Len(v) = Len(u) + 1 /\ v[Len(u) + 1] = d /\ \A j \in 1 .. Len(u) : v[j] = u[j]
  BY AppendProperties
<1>3. f \in Seq(S) /\ Len(f) = Len(u) + 1 /\ f[Len(u) + 1] = c /\ \A j \in 1 .. Len(u) : f[j] = u[j]
  BY AppendProperties
<1>s. ASSUME NEW z \in Seq(S), NEW i \in 0 .. Len(z)
      PROVE  /\ Splice(z, i, t) \in Seq(S) /\ Len(Splice(z, i, t)) = Len(z) + 1
             /\ \A j \in 1 .. Len(z) + 1 :
                    Splice(z, i, t)[j] = IF j <= i THEN z[j]
                                         ELSE IF j <= i + 1 THEN t[j - i] ELSE z[j - 1]
  <2>1. /\ Splice(z, i, t) \in Seq(S)
        /\ Len(Splice(z, i, t)) = Len(z) + Len(t)
        /\ \A j \in 1 .. Len(z) + Len(t) :
                Splice(z, i, t)[j] = IF j <= i THEN z[j]
                                     ELSE IF j <= i + Len(t) THEN t[j - i]
                                     ELSE z[j - Len(t)]
    BY <1>1, SpliceFacts
  <2> QED
    BY <1>1, <2>1
<1>4. /\ Splice(u, at, t) \in Seq(S) /\ Len(Splice(u, at, t)) = Len(u) + 1
      /\ \A j \in 1 .. Len(u) + 1 :
            Splice(u, at, t)[j] = IF j <= at THEN u[j]
                                  ELSE IF j <= at + 1 THEN t[j - at] ELSE u[j - 1]
  BY <1>s
<1>5. /\ a \in Seq(S) /\ Len(a) = Len(u) + 2 /\ a[Len(u) + 2] = d
      /\ \A j \in 1 .. Len(u) + 1 : a[j] = Splice(u, at, t)[j]
  <2> DEFINE w == Splice(u, at, t)
  <2>1. w \in Seq(S) /\ Len(w) = Len(u) + 1
    BY <1>4
  <2> HIDE DEF w
  <2>2. /\ Append(w, d) \in Seq(S) /\ Len(Append(w, d)) = Len(w) + 1 /\ Append(w, d)[Len(w) + 1] = d
        /\ \A j \in 1 .. Len(w) : Append(w, d)[j] = w[j]
    BY <2>1, AppendProperties
  <2>3. Len(w) + 1 = Len(u) + 2
    BY <1>1, <2>1
  <2> QED
    BY <2>1, <2>2, <2>3 DEF w
<1> HIDE DEF v
<1>6. at \in 0 .. Len(v)
  BY <1>1, <1>2
<1>7. /\ b \in Seq(S) /\ Len(b) = Len(u) + 2
      /\ \A j \in 1 .. Len(u) + 2 :
            b[j] = IF j <= at THEN v[j] ELSE IF j <= at + 1 THEN t[j - at] ELSE v[j - 1]
  <2>1. Len(v) + 1 = Len(u) + 2
    BY <1>1, <1>2
  <2>2. /\ b \in Seq(S) /\ Len(b) = Len(v) + 1
        /\ \A j \in 1 .. Len(v) + 1 :
              b[j] = IF j <= at THEN v[j] ELSE IF j <= at + 1 THEN t[j - at] ELSE v[j - 1]
    BY <1>2, <1>6, <1>s
  <2> HIDE DEF b
  <2> QED
    BY <2>1, <2>2
<1> HIDE DEF a, b
<1>8. a = b
  <2>1. ASSUME NEW j \in 1 .. Len(u) + 2 PROVE a[j] = b[j]
    <3>1. CASE j = Len(u) + 2
      <4>1. ~(j <= at) /\ ~(j <= at + 1) /\ j - 1 = Len(u) + 1
        BY <1>1, <3>1
      <4> QED
        BY <1>2, <1>5, <1>7, <3>1, <4>1
    <3>2. CASE j # Len(u) + 2
      <4>1. j \in 1 .. Len(u) + 1 /\ (j <= at => j \in 1 .. Len(u))
            /\ (~(j <= at + 1) => j - 1 \in 1 .. Len(u))
        BY <1>1, <3>2
      <4>2. a[j] = IF j <= at THEN u[j] ELSE IF j <= at + 1 THEN t[j - at] ELSE u[j - 1]
        BY <1>4, <1>5, <4>1
      <4> QED
        BY <1>2, <1>7, <4>1, <4>2
    <3> QED
      BY <3>1, <3>2
  <2> QED
    BY <1>5, <1>7, <2>1, SeqEqual
<1> HIDE DEF f
<1>9. /\ e \in Seq(S) /\ Len(e) = Len(u) + 1
      /\ \A j \in 1 .. Len(u) + 1 :
            e[j] = IF j <= Len(u) THEN u[j] ELSE IF j <= Len(u) + 1 THEN t[j - Len(u)] ELSE u[j - 1]
  <2>1. Len(u) \in 0 .. Len(u)
    BY <1>1
  <2> QED
    BY <2>1, <1>s
<1> HIDE DEF e
<1>10. e = f
  <2>1. ASSUME NEW j \in 1 .. Len(u) + 1 PROVE e[j] = f[j]
    <3>1. CASE j = Len(u) + 1
      <4>1. ~(j <= Len(u)) /\ j <= Len(u) + 1 /\ j - Len(u) = 1
        BY <1>1, <3>1
      <4> QED
        BY <1>1, <1>3, <1>9, <3>1, <4>1
    <3>2. CASE j # Len(u) + 1
      <4>1. j \in 1 .. Len(u) /\ j <= Len(u)
        BY <1>1, <3>2
      <4> QED
        BY <1>3, <1>9, <4>1
    <3> QED
      BY <3>1, <3>2
  <2> QED
    BY <1>3, <1>9, <2>1, SeqEqual
<1> QED
  BY <1>8, <1>10 DEF a, b, e, f, t, v

=============================================================================
