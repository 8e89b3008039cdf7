------------------------- MODULE Conversions_proofs -------------------------
(***************************************************************************)
(* Theorems about MainProcessing and about Conversions, which extends it,  *)
(* for every inline capacity and threshold, every mapping table, normal    *)
(* form, outcome of decoding, configuration and domain name; those about   *)
(* what ToASCII returns, for every encoding whose output is ASCII.  The    *)
(* last two are about the way back: what is accepted comes back, and the   *)
(* shortcuts agree with the long way, if each label by itself does.        *)
(*                                                                         *)
(* Where the code folds over a text, the recursive functions of the model  *)
(* are first shown to exist, by taking the least length at which they      *)
(* would not.  The first half, up to the theorems about the converted      *)
(* text, is about mainProcessing alone; the second is about texts as       *)
(* scalars, the loop over the labels, and what is returned.                *)
(***************************************************************************)
EXTENDS Conversions, TinyBuffers_proofs, WellFoundedInduction

-----------------------------------------------------------------------------
(* Least and greatest numbers of a set. *)

\* Induction: what fails nowhere first fails nowhere.
LEMMA LeastFailure ==
    ASSUME NEW S \in SUBSET Nat, S # {}
    PROVE  \E x \in S : \A y \in S : x <= y
<1> DEFINE R == OpToRel(<, Nat)
<1>1. IsWellFoundedOn(R, Nat)
  BY NatLessThanWellFounded
<1> HIDE DEF R
<1>2. PICK x \in S : \A y \in S : ~(<<y, x>> \in R)
  BY <1>1, WFMin
<1>3. \A y \in S : x <= y
  <2> SUFFICES ASSUME NEW y \in S PROVE x <= y
    OBVIOUS
  <2>1. x \in Nat /\ y \in Nat /\ ~(<<y, x>> \in R)
    BY <1>2
  <2>2. ~(y < x)
    BY <2>1 DEF R, OpToRel
  <2> QED
    BY <2>1, <2>2
<1> QED
  BY <1>2, <1>3

LEMMA MinFacts ==
    ASSUME NEW S \in SUBSET Nat, S # {}
    PROVE  Min(S) \in S /\ \A y \in S : Min(S) <= y
  BY LeastFailure DEF Min

LEMMA MaxFacts ==
    ASSUME NEW N \in Nat, NEW S \in SUBSET (0 .. N), S # {}
    PROVE  Max(S) \in S /\ \A y \in S : y <= Max(S)
<1> DEFINE T == {k \in 0 .. N : N - k \in S}
<1>1. T \in SUBSET Nat /\ T # {}
  <2>1. PICK x \in S : TRUE
    OBVIOUS
  <2>2. x \in 0 .. N /\ N - x \in 0 .. N /\ N - (N - x) = x
    BY <2>1
  <2>3. N - x \in T
    BY <2>2
  <2>4. T \in SUBSET Nat
    OBVIOUS
  <2> HIDE DEF T
  <2> QED
    BY <2>3, <2>4
<1>2. PICK k \in T : \A i \in T : k <= i
  BY <1>1, LeastFailure
<1>3. \A y \in S : N - y \in T /\ y \in 0 .. N
  <2> SUFFICES ASSUME NEW y \in S PROVE N - y \in T /\ y \in 0 .. N
    OBVIOUS
  <2>1. y \in 0 .. N /\ N - y \in 0 .. N /\ N - (N - y) = y
    OBVIOUS
  <2> QED
    BY <2>1
<1>4. N - k \in S /\ k \in 0 .. N
  BY <1>2
<1>5. \A y \in S : N - k >= y
  <2> SUFFICES ASSUME NEW y \in S PROVE N - k >= y
    OBVIOUS
  <2>1. k <= N - y /\ y \in 0 .. N
    BY <1>2, <1>3
  <2> QED
    BY <1>4, <2>1
<1>6. \E x \in S : \A y \in S : x >= y
  BY <1>4, <1>5
<1>7. Max(S) \in S /\ \A y \in S : Max(S) >= y
  BY <1>6 DEF Max
<1> QED
  BY <1>7

-----------------------------------------------------------------------------
(* The two passes of the mapping. *)

\* A text of n pieces, by its growing prefixes.
Grows(text, n, piece) ==
    /\ text[0] = <<>>
    /\ \A j \in 1 .. n : text[j] = text[j - 1] \o piece[j]

\* The pieces of any number can be put together.
LEMMA TextExists ==
    ASSUME NEW N \in Nat, NEW piece \in [1 .. N -> Seq(Byte)]
    PROVE  \E text \in [0 .. N -> Seq(Byte)] : Grows(text, N, piece)
<1> DEFINE Exists(n) == \E text \in [0 .. n -> Seq(Byte)] : Grows(text, n, piece)
           Failures == {n \in 0 .. N : ~Exists(n)}
<1>1. Exists(0)
  <2>1. [j \in 0 .. 0 |-> <<>>] \in [0 .. 0 -> Seq(Byte)]
    BY EmptySeq
  <2>2. Grows([j \in 0 .. 0 |-> <<>>], 0, piece)
    BY DEF Grows
  <2> QED
    BY <2>1, <2>2
<1>2. ASSUME NEW n \in 0 .. N, n # 0, Exists(n - 1) PROVE Exists(n)
  <2>1. PICK text \in [0 .. n - 1 -> Seq(Byte)] : Grows(text, n - 1, piece)
    BY <1>2
  <2> DEFINE longer == [j \in 0 .. n |-> IF j = n THEN text[n - 1] \o piece[n] ELSE text[j]]
  <2>2. n - 1 \in 0 .. n - 1 /\ n \in 1 .. N
    BY <1>2
  <2>3. text[n - 1] \in Seq(Byte) /\ piece[n] \in Seq(Byte)
    BY <2>1, <2>2
  <2>4. text[n - 1] \o piece[n] \in Seq(Byte)
    BY <2>3, ConcatProperties
  <2>5. longer \in [0 .. n -> Seq(Byte)]
    <3>1. \A j \in 0 .. n : j # n => j \in 0 .. n - 1
      OBVIOUS
    <3> QED
      BY <2>1, <2>4, <3>1
  <2>6. longer[0] = <<>>
    BY <1>2, <2>1 DEF Grows
  <2>7. \A j \in 1 .. n : longer[j] = longer[j - 1] \o piece[j]
    <3> SUFFICES ASSUME NEW j \in 1 .. n PROVE longer[j] = longer[j - 1] \o piece[j]
      OBVIOUS
    <3>1. j - 1 \in 0 .. n /\ j - 1 # n /\ j \in 0 .. n
      OBVIOUS
    <3>2. longer[j - 1] = text[j - 1]
      BY <3>1
    <3>3. CASE j = n
      BY <3>1, <3>2, <3>3
    <3>4. CASE j # n
      <4>1. j \in 1 .. n - 1
        BY <3>4
      <4> QED
        BY <2>1, <3>1, <3>2, <3>4, <4>1 DEF Grows
    <3> QED
      BY <3>3, <3>4
  <2>8. Grows(longer, n, piece)
    <3> HIDE DEF longer
    <3> QED
      BY <2>6, <2>7 DEF Grows
  <2> HIDE DEF longer
  <2> QED
    BY <2>5, <2>8
<1> HIDE DEF Exists
<1>3. Failures = {}
  <2> SUFFICES ASSUME Failures # {} PROVE FALSE
    OBVIOUS
  <2>0. Failures \in SUBSET Nat
    OBVIOUS
  <2>1. PICK n \in Failures : \A y \in Failures : n <= y
    <3> HIDE DEF Failures
    <3> QED
      BY <2>0, LeastFailure
  <2>2. n \in 0 .. N /\ ~Exists(n)
    BY <2>1
  <2>3. n # 0
    BY <1>1, <2>2
  <2>4. n - 1 \in 0 .. N /\ ~(n <= n - 1)
    BY <2>2, <2>3
  <2>5. Exists(n - 1)
    BY <2>1, <2>4
  <2> QED
    BY <1>2, <2>2, <2>3, <2>5
<1>4. Exists(N)
  BY <1>3
<1> QED
  BY <1>4 DEF Exists

\* However it is put together, it is a text, and adding up the lengths of
\* the pieces gives its length.
LEMMA LengthsAddUp ==
    ASSUME NEW N \in Nat, NEW piece \in [1 .. N -> Seq(Byte)],
           NEW text, Grows(text, N, piece),
           NEW sum, sum[0] = 0, \A j \in 1 .. N : sum[j] = sum[j - 1] + Len(piece[j])
    PROVE  text[N] \in Seq(Byte) /\ sum[N] = Len(text[N])
<1> DEFINE Right(n) == text[n] \in Seq(Byte) /\ sum[n] = Len(text[n])
           Failures == {n \in 0 .. N : ~Right(n)}
<1>1. Right(0)
  BY EmptySeq DEF Grows
<1>2. ASSUME NEW n \in 0 .. N, n # 0, Right(n - 1) PROVE Right(n)
  <2>1. n \in 1 .. N
    BY <1>2
  <2>2. /\ text[n] = text[n - 1] \o piece[n] /\ piece[n] \in Seq(Byte)
        /\ sum[n] = sum[n - 1] + Len(piece[n])
    BY <2>1 DEF Grows
  <2>3. /\ text[n - 1] \o piece[n] \in Seq(Byte)
        /\ Len(text[n - 1] \o piece[n]) = Len(text[n - 1]) + Len(piece[n])
    BY <1>2, <2>2, ConcatProperties
  <2> QED
    BY <1>2, <2>2, <2>3
<1> HIDE DEF Right
<1>3. Failures = {}
  <2> SUFFICES ASSUME Failures # {} PROVE FALSE
    OBVIOUS
  <2>0. Failures \in SUBSET Nat
    OBVIOUS
  <2>1. PICK n \in Failures : \A y \in Failures : n <= y
    <3> HIDE DEF Failures
    <3> QED
      BY <2>0, LeastFailure
  <2>2. n \in 0 .. N /\ ~Right(n)
    BY <2>1
  <2>3. n # 0
    BY <1>1, <2>2
  <2>4. n - 1 \in 0 .. N /\ ~(n <= n - 1)
    BY <2>2, <2>3
  <2>5. Right(n - 1)
    BY <2>1, <2>4
  <2> QED
    BY <1>2, <2>2, <2>3, <2>5
<1>4. Right(N)
  BY <1>3
<1> QED
  BY <1>4 DEF Right

\* What a scalar is mapped to has the size the first pass reckons with.
LEMMA MappedFacts ==
    ASSUME NEW c \in UnicodeScalar
    PROVE  MappedBytes(c) \in Seq(Byte) /\ MappedSize(c) = Len(MappedBytes(c))
<1> DEFINE entry == cswift_idna_mapping_lookup(c)
<1>1. /\ entry.type \in 0 .. 4 /\ entry.mapped_utf8_bytes \in Seq(Byte)
      /\ entry.mapped_byte_count = Len(entry.mapped_utf8_bytes)
  BY MappingTableAssumption, LookupTableAssumption, ScalarBytesAssumption
     DEF cswift_idna_mapping_lookup
<1>2. MappedScalars(entry) \in Seq(Byte)
  <2> DEFINE s == entry.mapped_utf8_bytes
  <2>1. s \in Seq(Byte) /\ Len(s) \in Nat /\ \A j \in 1 .. Len(s) : s[j] \in Byte
    BY <1>1, LenProperties, ElementOfSeq
  <2> HIDE DEF s
  <2>2. SubSeq(s, 1, Len(s)) \in Seq(Byte)
    BY <2>1, SubSeqProperties
  <2> QED
    BY <1>1, <2>2 DEF MappedScalars, s
<1> HIDE DEF entry
<1>3. For(c).kind = "mapped" => For(c).bytes \in Seq(Byte)
  BY <1>1, <1>2 DEF For, entry, IDNA_RESULT_VALID, IDNA_RESULT_MAPPED,
     IDNA_RESULT_DEVIATION, IDNA_RESULT_DISALLOWED, IDNA_RESULT_IGNORED
<1>4. UTF8(c) \in Seq(Byte)
  <2>1. c \in Byte /\ Continuation \in Byte
    BY ScalarBytesAssumption
  <2>2. <<c>> \in Seq(Byte) /\ <<c, Continuation>> \in Seq(Byte)
        /\ <<c, Continuation, Continuation>> \in Seq(Byte)
    BY <2>1
  <2> QED
    BY <2>2 DEF UTF8
<1>5. <<>> \in Seq(Byte) /\ Len(<<>>) = 0
  BY EmptySeq
<1> QED
  BY <1>3, <1>4, <1>5 DEF MappedBytes, MappedSize

\* The text grows by what each scalar is mapped to.
LEMMA MapTextGrows ==
    ASSUME NEW d \in Seq(UnicodeScalar)
    PROVE  \E text : /\ MapText(d) = text[Len(d)]
                     /\ Grows(text, Len(d), [j \in 1 .. Len(d) |-> MappedBytes(d[j])])
<1> DEFINE N == Len(d)
           piece == [j \in 1 .. N |-> MappedBytes(d[j])]
           TextOf(f) == f = [j \in 0 .. Len(d) |->
                                IF j = 0 THEN <<>> ELSE f[j - 1] \o MappedBytes(d[j])]
           text == CHOOSE f : TextOf(f)
<1>1. N \in Nat /\ \A j \in 1 .. N : d[j] \in UnicodeScalar
  BY LenProperties, ElementOfSeq
<1>2. \A j \in 1 .. N : MappedBytes(d[j]) \in Seq(Byte)
  BY <1>1, MappedFacts
<1>3. piece \in [1 .. N -> Seq(Byte)]
  BY <1>2
<1>4. \A j \in 1 .. N : piece[j] = MappedBytes(d[j])
  OBVIOUS
<1>5. MapText(d) = text[N]
  BY DEF MapText
<1>6. PICK g \in [0 .. N -> Seq(Byte)] : Grows(g, N, piece)
  <2> HIDE DEF piece, N
  <2> QED
    BY <1>1, <1>3, TextExists
<1>7. TextOf(g)
  <2>1. g = [j \in 0 .. N |-> g[j]]
    BY <1>6
  <2>2. \A j \in 0 .. N : g[j] = IF j = 0 THEN <<>> ELSE g[j - 1] \o MappedBytes(d[j])
    <3> SUFFICES ASSUME NEW j \in 0 .. N
                 PROVE  g[j] = IF j = 0 THEN <<>> ELSE g[j - 1] \o MappedBytes(d[j])
      OBVIOUS
    <3>1. j # 0 => j \in 1 .. N
      BY <1>1
    <3> HIDE DEF piece
    <3> QED
      BY <1>4, <1>6, <3>1 DEF Grows
  <2> QED
    BY <2>1, <2>2
<1>8. TextOf(text)
  <2> HIDE DEF TextOf
  <2> QED
    BY <1>7
<1>9. Grows(text, N, piece)
  <2> HIDE DEF text
  <2>1. 0 \in 0 .. N /\ \A j \in 1 .. N : j \in 0 .. N /\ j # 0
    BY <1>1
  <2>2. text[0] = <<>> /\ \A j \in 1 .. N : text[j] = text[j - 1] \o MappedBytes(d[j])
    BY <1>8, <2>1
  <2> HIDE DEF piece, TextOf
  <2> QED
    BY <1>4, <2>2 DEF Grows
<1> HIDE DEF text
<1> QED
  BY <1>5, <1>9

\* The first pass of the mapping asks for exactly the room that the second
\* one fills.
LEMMA TwoPassesAgree ==
    ASSUME NEW d \in Domains
    PROVE  MapText(d) \in Seq(Byte) /\ RequiredCapacity(d) = Len(MapText(d))
<1> DEFINE N == Len(d)
           piece == [j \in 1 .. N |-> MappedBytes(d[j])]
           SumOf(f) == f = [j \in 0 .. Len(d) |->
                                IF j = 0 THEN 0 ELSE f[j - 1] + MappedSize(d[j])]
           sum == CHOOSE f : SumOf(f)
<1>1. N \in Nat /\ \A j \in 1 .. N : d[j] \in UnicodeScalar
  BY DomainsAssumption, LenProperties, ElementOfSeq
<1>2. \A j \in 1 .. N : MappedBytes(d[j]) \in Seq(Byte)
                          /\ MappedSize(d[j]) = Len(MappedBytes(d[j]))
  BY <1>1, MappedFacts
<1>3. piece \in [1 .. N -> Seq(Byte)]
  BY <1>2
<1>4. \A j \in 1 .. N : piece[j] = MappedBytes(d[j])
  OBVIOUS
<1>5. RequiredCapacity(d) = sum[N]
  BY DEF RequiredCapacity
<1>6. PICK g \in [0 .. N -> Seq(Byte)] : Grows(g, N, piece)
  <2> HIDE DEF piece, N
  <2> QED
    BY <1>1, <1>3, TextExists
<1>9. PICK text : MapText(d) = text[N] /\ Grows(text, N, piece)
  BY DomainsAssumption, MapTextGrows
<1> DEFINE lengths == [j \in 0 .. N |-> Len(g[j])]
<1>10. SumOf(lengths)
  <2>1. \A j \in 1 .. N : Len(g[j]) = Len(g[j - 1]) + MappedSize(d[j])
    <3> SUFFICES ASSUME NEW j \in 1 .. N
                 PROVE  Len(g[j]) = Len(g[j - 1]) + MappedSize(d[j])
      OBVIOUS
    <3>1. j - 1 \in 0 .. N
      BY <1>1
    <3>2. g[j - 1] \in Seq(Byte) /\ g[j] = g[j - 1] \o piece[j]
      <4> HIDE DEF piece
      <4> QED
        BY <1>6, <3>1 DEF Grows
    <3>3. Len(g[j - 1] \o MappedBytes(d[j])) = Len(g[j - 1]) + Len(MappedBytes(d[j]))
      BY <1>2, <3>2, ConcatProperties
    <3> QED
      BY <1>2, <1>4, <3>2, <3>3
  <2>2. Len(g[0]) = 0
    BY <1>6, EmptySeq DEF Grows
  <2>3. \A j \in 0 .. N : lengths[j] = Len(g[j])
    OBVIOUS
  <2>4. \A j \in 0 .. N : lengths[j] = IF j = 0 THEN 0 ELSE lengths[j - 1] + MappedSize(d[j])
    <3> SUFFICES ASSUME NEW j \in 0 .. N
                 PROVE  lengths[j] = IF j = 0 THEN 0 ELSE lengths[j - 1] + MappedSize(d[j])
      OBVIOUS
    <3>1. j # 0 => j \in 1 .. N /\ j - 1 \in 0 .. N
      BY <1>1
    <3> HIDE DEF lengths
    <3> QED
      BY <2>1, <2>2, <2>3, <3>1
  <2>5. lengths = [j \in 0 .. N |-> lengths[j]]
    OBVIOUS
  <2> HIDE DEF lengths
  <2> QED
    BY <2>4, <2>5
<1>11. SumOf(sum)
  <2> HIDE DEF SumOf, lengths
  <2> QED
    BY <1>10
<1>12. sum[0] = 0 /\ \A j \in 1 .. N : sum[j] = sum[j - 1] + Len(piece[j])
  <2> HIDE DEF sum
  <2>1. 0 \in 0 .. N /\ \A j \in 1 .. N : j \in 0 .. N /\ j # 0
    BY <1>1
  <2>2. sum[0] = 0 /\ \A j \in 1 .. N : sum[j] = sum[j - 1] + MappedSize(d[j])
    BY <1>11, <2>1
  <2> HIDE DEF SumOf
  <2> QED
    BY <1>2, <1>4, <2>2
<1> HIDE DEF N, piece, sum, SumOf
<1>13. text[N] \in Seq(Byte) /\ sum[N] = Len(text[N])
  BY <1>1, <1>3, <1>9, <1>12, LengthsAddUp
<1> QED
  BY <1>5, <1>9, <1>13

-----------------------------------------------------------------------------
(* Labels. *)

LEMMA LabelFacts ==
    ASSUME NEW s \in Seq(Byte), NEW from \in LabelStarts(s)
    PROVE  /\ from \in 0 .. Len(s)
           /\ LabelEnd(s, from) \in from .. Len(s)
           /\ LabelAt(s, from) \in Seq(Byte)
           /\ Len(LabelAt(s, from)) \in 0 .. Len(s)
<1>1. Len(s) \in Nat /\ \A j \in 1 .. Len(s) : s[j] \in Byte
  BY LenProperties, ElementOfSeq
<1>2. from \in 0 .. Len(s)
  BY <1>1 DEF LabelStarts, Dots
<1>3. LabelEnd(s, from) \in from .. Len(s)
  <2>1. CASE Dots(s, from) = {}
    BY <1>1, <1>2, <2>1 DEF LabelEnd
  <2>2. CASE Dots(s, from) # {}
    <3>1. Dots(s, from) \subseteq from + 1 .. Len(s)
      BY DEF Dots
    <3>2. Dots(s, from) \in SUBSET Nat
      BY <1>1, <1>2, <3>1
    <3>3. Min(Dots(s, from)) \in Dots(s, from)
      BY <2>2, <3>2, MinFacts
    <3> QED
      BY <1>1, <1>2, <2>2, <3>1, <3>3 DEF LabelEnd
  <2> QED
    BY <2>1, <2>2
<1>4. \A j \in from + 1 .. LabelEnd(s, from) : s[j] \in Byte
  BY <1>1, <1>2, <1>3
<1>5. from + 1 \in Int /\ LabelEnd(s, from) \in Int
  BY <1>1, <1>2, <1>3
<1>6. /\ SubSeq(s, from + 1, LabelEnd(s, from)) \in Seq(Byte)
      /\ Len(SubSeq(s, from + 1, LabelEnd(s, from)))
            = IF from + 1 <= LabelEnd(s, from) THEN LabelEnd(s, from) - (from + 1) + 1 ELSE 0
  BY <1>4, <1>5, SubSeqProperties
<1> QED
  BY <1>1, <1>2, <1>3, <1>6 DEF LabelAt

\* Where the next label starts.
LEMMA NextLabel ==
    ASSUME NEW s \in Seq(Byte), NEW from \in LabelStarts(s), Dots(s, from) # {}
    PROVE  LET next == LabelEnd(s, from) + 1
           IN  /\ next \in LabelStarts(s)
               /\ {f \in LabelStarts(s) : f < next} = {f \in LabelStarts(s) : f <= from}
<1> DEFINE next == LabelEnd(s, from) + 1
<1>1. Len(s) \in Nat /\ from \in 0 .. Len(s)
  BY LenProperties, LabelFacts
<1>2. Dots(s, from) \in SUBSET Nat
  BY <1>1 DEF Dots
<1>3. Min(Dots(s, from)) \in Dots(s, from) /\ \A y \in Dots(s, from) : Min(Dots(s, from)) <= y
  BY <1>2, MinFacts
<1>4. next = Min(Dots(s, from))
  BY <1>2, <1>3 DEF LabelEnd
<1> HIDE DEF next
<1>5. /\ next \in from + 1 .. Len(s) /\ s[next] = Dot
      /\ \A j \in from + 1 .. Len(s) : s[j] = Dot => next <= j
  BY <1>3, <1>4 DEF Dots
<1>6. next \in LabelStarts(s)
  BY <1>1, <1>5 DEF LabelStarts, Dots
<1>7. ASSUME NEW f \in LabelStarts(s) PROVE f < next <=> f <= from
  <2>1. f \in 0 .. Len(s) /\ (f # 0 => s[f] = Dot)
    BY <1>1 DEF LabelStarts, Dots
  <2>2. f > from => next <= f
    BY <1>1, <1>5, <2>1
  <2> QED
    BY <1>1, <1>5, <2>1, <2>2
<1> QED
  BY <1>6, <1>7 DEF next

LEMMA LastLabel ==
    ASSUME NEW s \in Seq(Byte), NEW from \in LabelStarts(s), Dots(s, from) = {}
    PROVE  {f \in LabelStarts(s) : f <= from} = LabelStarts(s)
<1>1. Len(s) \in Nat /\ from \in 0 .. Len(s)
  BY LenProperties, LabelFacts
<1>2. ASSUME NEW f \in LabelStarts(s) PROVE f <= from
  <2>1. f \in 0 .. Len(s) /\ (f # 0 => s[f] = Dot)
    BY <1>1 DEF LabelStarts, Dots
  <2>2. ~(f \in from + 1 .. Len(s))
    BY <1>1, <2>1 DEF Dots
  <2> QED
    BY <1>1, <2>1, <2>2
<1> QED
  BY <1>2

LEMMA MaxLabelFacts ==
    ASSUME NEW s \in Seq(Byte)
    PROVE  /\ MaxLabelLength(s) \in Nat
           /\ \A from \in LabelStarts(s) : Len(LabelAt(s, from)) <= MaxLabelLength(s)
<1> DEFINE S == {Len(LabelAt(s, from)) : from \in LabelStarts(s)}
<1>1. Len(s) \in Nat
  BY LenProperties
<1>2. S \in SUBSET (0 .. Len(s))
  BY LabelFacts
<1>3. S # {} /\ \A from \in LabelStarts(s) : Len(LabelAt(s, from)) \in S
  BY DEF LabelStarts
<1>4. MaxLabelLength(s) = Max(S)
  BY DEF MaxLabelLength
<1> HIDE DEF S
<1>5. Max(S) \in S /\ \A y \in S : y <= Max(S)
  BY <1>1, <1>2, <1>3, MaxFacts
<1>6. Max(S) \in Nat
  <2>1. Max(S) \in 0 .. Len(s)
    BY <1>2, <1>5
  <2> QED
    BY <1>1, <2>1
<1> QED
  BY <1>3, <1>4, <1>5, <1>6

LEMMA ConcatTail ==
    ASSUME NEW s \in Seq(Byte), NEW t \in Seq(Byte)
    PROVE  SubSeq(s \o t, Len(s) + 1, Len(s \o t)) = t
<1>1. Len(s) \in Nat /\ Len(t) \in Nat /\ Len(s \o t) = Len(s) + Len(t)
  BY LenProperties, ConcatProperties
<1>2. CASE Len(t) = 0
  <2>1. Len(s) + 1 \in Int /\ Len(s \o t) \in Int /\ Len(s \o t) < Len(s) + 1
    BY <1>1, <1>2
  <2>2. t = <<>>
    BY <1>2, EmptySeq
  <2> QED
    BY <2>1, <2>2, SubSeqEmpty
<1>3. CASE Len(t) # 0
  <2>1. /\ Len(s) + 1 \in Len(s) + 1 .. Len(s) + Len(t)
        /\ Len(s) + Len(t) \in Len(s) + 1 .. Len(s) + Len(t)
    BY <1>1, <1>3
  <2>2. SubSeq(s \o t, Len(s) + 1, Len(s) + Len(t))
            = SubSeq(t, Len(s) + 1 - Len(s), Len(s) + Len(t) - Len(s))
    BY <2>1, SubSeqOfConcat2
  <2>3. Len(s) + 1 - Len(s) = 1 /\ Len(s) + Len(t) - Len(s) = Len(t)
    BY <1>1
  <2> QED
    BY <1>1, <2>2, <2>3, SubSeqFull
<1> QED
  BY <1>2, <1>3

LEMMA ConcatFront ==
    ASSUME NEW s \in Seq(Byte), NEW t \in Seq(Byte)
    PROVE  SubSeq(s \o t, 1, Len(s)) = s
<1> DEFINE v == s \o t
           m == Len(s)
           p == SubSeq(v, 1, m)
<1>1. m \in Nat /\ Len(t) \in Nat /\ v \in Seq(Byte) /\ Len(v) = m + Len(t)
      /\ \A j \in 1 .. m : v[j] = s[j]
  BY LenProperties, ConcatProperties
<1>2. \A j \in 1 .. m : s[j] \in Byte
  BY ElementOfSeq
<1> HIDE DEF v, m
<1>3. /\ p \in Seq(Byte) /\ Len(p) = (IF 1 <= m THEN m - 1 + 1 ELSE 0)
      /\ \A j \in 1 .. m - 1 + 1 : p[j] = v[1 + j - 1]
  <2>1. \A j \in 1 .. m : v[j] \in Byte
    BY <1>1, <1>2
  <2>2. 1 \in Int /\ m \in Int
    BY <1>1
  <2> QED
    BY <2>1, <2>2, SubSeqProperties
<1> HIDE DEF p
<1>4. Len(p) = m /\ \A j \in 1 .. m : p[j] = s[j]
  <2>1. m - 1 + 1 = m /\ \A j \in 1 .. m : 1 + j - 1 = j
    BY <1>1
  <2> QED
    BY <1>1, <1>3, <2>1
<1>5. p = s
  BY <1>3, <1>4, SeqEqual DEF m
<1> QED
  BY <1>5 DEF p, v, m

-----------------------------------------------------------------------------
(***************************************************************************)
(* The inductive invariant.  Every label's room, and every label's verdict *)
(* in place of the errors recorded so far, hold because the starts that    *)
(* are passed are exactly the starts of labels, in order.                  *)
(***************************************************************************)

Judged(starts) ==
    UNION {{[at |-> from, kind |-> kind] : kind \in Verdict(LabelAt(Text, from), config)} :
            from \in starts}

Before(from) == {f \in LabelStarts(Text) : f < from}
UpTo(from) == {f \in LabelStarts(Text) : f <= from}

Storage ==
    /\ pc \in {"map", "normalise", "label", "dot"} \cup Final
    /\ config \in Configurations /\ domain \in Domains
    /\ GoodBuffer(newBytes) /\ LooseBuffer(newerBytes)
    /\ indexCapacity \in Nat

Beginning == pc \in {"map", "normalise", "stopped"} => startIndex = 0 /\ errors = {}

Labels ==
    pc \in {"label", "dot", "done", "undefined"} =>
        /\ indexCapacity = MaxLabelLength(Text)
        /\ startIndex \in LabelStarts(Text)
        /\ errors = Judged(Before(startIndex)) \/ errors = Judged(UpTo(startIndex))
        /\ pc = "label" => errors = Judged(Before(startIndex))
        /\ pc \in {"dot", "done"} => errors = Judged(UpTo(startIndex))
        /\ pc = "dot" => ~IsLastLabel
        /\ pc = "done" => IsLastLabel

IndInv == Storage /\ Beginning /\ Labels

\* What is recorded is about the labels it was recorded for.
LEMMA JudgedAt ==
    ASSUME NEW starts, NEW e \in Judged(starts)
    PROVE  e.at \in starts
  BY DEF Judged

LEMMA InitInv == Init => IndInv
<1> SUFFICES ASSUME Init PROVE IndInv
  OBVIOUS
<1>1. GoodBuffer(EmptyInline) /\ LooseBuffer(EmptyInline)
  BY EmptyReads, GoodIsLoose
<1> QED
  BY <1>1 DEF Init, IndInv, Storage, Beginning, Labels, Final

LEMMA MapReads ==
    ASSUME IndInv, Map
    PROVE  GoodBuffer(newBytes') /\ Contents(newBytes') = MapText(domain)
<1>1. MapText(domain) \in Seq(Byte) /\ RequiredCapacity(domain) = Len(MapText(domain))
  BY TwoPassesAgree DEF IndInv, Storage
<1> DEFINE text == MapText(domain)
<1>2. newBytes' = Edit(WithRequiredCapacity(Len(text)), text)
  BY <1>1 DEF Map
<1>3. text \in Seq(Byte) /\ Len(text) \in Nat
  BY <1>1, LenProperties
<1> HIDE DEF text
<1>4. GoodBuffer(newBytes') /\ Contents(newBytes') = text
  <2>1. CASE Len(text) > InlineCapacity
    <3>1. newBytes' = Heap(<<>> \o text, Len(text))
      BY <1>2, <2>1 DEF Edit, WithRequiredCapacity, Heap, IsInline
    <3>2. <<>> \o text = text
      BY <1>3, ConcatEmptySeq
    <3>3. Len(text) <= Len(text)
      BY <1>3
    <3> QED
      BY <1>3, <3>1, <3>2, <3>3, HeapReads
  <2>2. CASE ~(Len(text) > InlineCapacity)
    <3>1. newBytes' = Inline(EditAppend(EmptyInline.cells, text)) /\ IsInline(EmptyInline)
      BY <1>2, <2>2 DEF Edit, WithRequiredCapacity, EmptyInline, Inline, IsInline
    <3>2. GoodBuffer(EmptyInline) /\ Count(EmptyInline) = 0
      BY EmptyReads, ContentsType, EmptySeq
    <3>3. Count(EmptyInline) + Len(text) <= InlineCapacity
      BY <1>3, <2>2, <3>2, InlineCapacityAssumption
    <3>4. Contents(EmptyInline) \o text = text
      BY <1>3, EmptyReads, ConcatEmptySeq
    <3> QED
      BY <1>3, <3>1, <3>2, <3>3, <3>4, EditAppendReads
  <2> QED
    BY <2>1, <2>2
<1> QED
  BY <1>4 DEF text

LEMMA MapStep == ASSUME IndInv, Map PROVE IndInv'
  BY MapReads DEF Map, IndInv, Storage, Beginning, Labels, Final

LEMMA NormaliseStep == ASSUME IndInv, Normalise PROVE IndInv'
<1>1. GoodBuffer(newBytes')
  BY EnsureNFCReads DEF Normalise, IndInv, Storage
<1>2. Contents(newBytes') \in Seq(Byte) /\ Count(newBytes') \in Nat
  BY <1>1, ContentsType
<1>3. LooseBuffer(newerBytes')
  <2>1. CASE Count(newBytes') > Threshold
    <3>1. newerBytes' = Heap(<<>>, Count(newBytes'))
      BY <2>1 DEF Normalise, WithPreferredCapacity
    <3>2. <<>> \in Seq(Byte) /\ Len(<<>>) <= Count(newBytes')
      BY <1>2, EmptySeq
    <3> QED
      BY <1>2, <3>1, <3>2, HeapReads, GoodIsLoose
  <2>2. CASE ~(Count(newBytes') > Threshold)
    BY <2>2, EmptyReads, GoodIsLoose DEF Normalise, WithPreferredCapacity
  <2> QED
    BY <2>1, <2>2
<1>4. indexCapacity' = MaxLabelLength(Text') /\ indexCapacity' \in Nat
  BY <1>2, MaxLabelFacts DEF Normalise, Text
<1>5. pc' = "label" /\ startIndex' = 0 /\ errors' = {}
  BY DEF Normalise, IndInv, Beginning
<1>6. 0 \in LabelStarts(Text') /\ Before(startIndex)' = {}
  <2>1. Text' \in Seq(Byte)
    BY <1>2 DEF Text
  <2>2. \A f \in LabelStarts(Text') : ~(f < 0)
    BY <2>1, LabelFacts
  <2> QED
    BY <1>5, <2>2 DEF Before, LabelStarts
<1>7. Judged(Before(startIndex))' = {}
  BY <1>6 DEF Judged
<1> QED
  BY <1>1, <1>3, <1>4, <1>5, <1>6, <1>7
  DEF Normalise, IndInv, Storage, Beginning, Labels, Final

\* The turn of the loop for one label, up to its dot.
LEMMA EndLabelStep ==
    ASSUME IndInv, pc = "label",
           NEW output, LooseBuffer(output), NEW converted \in BOOLEAN,
           NEW kinds, kinds = Verdict(Label, config),
           EndLabel(output, kinds, converted)
    PROVE  IndInv'
<1>1. /\ GoodBuffer(newBytes) /\ startIndex \in LabelStarts(Text)
      /\ errors = Judged(Before(startIndex))
      /\ indexCapacity = MaxLabelLength(Text)
  BY DEF IndInv, Storage, Labels
<1>2. Text \in Seq(Byte) /\ Text' = Text /\ config' = config
  BY <1>1, ContentsType DEF EndLabel, Text
<1>3. /\ errors' = Judged(UpTo(startIndex))
  <2>1. UpTo(startIndex) = Before(startIndex) \cup {startIndex}
    <3>1. startIndex \in Nat /\ \A f \in LabelStarts(Text) : f \in Nat
      BY <1>1, <1>2, LabelFacts, LenProperties
    <3>2. \A f \in LabelStarts(Text) : f <= startIndex <=> f < startIndex \/ f = startIndex
      BY <3>1
    <3> QED
      BY <1>1, <3>2 DEF UpTo, Before
  <2>2. errors' = errors \cup
            {[at |-> startIndex, kind |-> kind] :
                kind \in Verdict(LabelAt(Text, startIndex), config)}
    BY DEF EndLabel, Label
  <2>3. \A S : Judged(S \cup {startIndex}) = Judged(S) \cup
            {[at |-> startIndex, kind |-> kind] :
                kind \in Verdict(LabelAt(Text, startIndex), config)}
    BY DEF Judged
  <2> QED
    BY <1>1, <2>1, <2>2, <2>3
<1>4. CASE IsLastLabel
  <2>1. pc' = "done" /\ startIndex' = startIndex
    BY <1>4 DEF EndLabel
  <2>2. UpTo(startIndex)' = UpTo(startIndex) /\ IsLastLabel'
    BY <1>2, <1>4, <2>1 DEF UpTo, IsLastLabel
  <2>3. Judged(UpTo(startIndex))' = errors'
    BY <1>2, <1>3, <2>2 DEF Judged
  <2> QED
    BY <1>1, <1>2, <2>1, <2>2, <2>3
    DEF IndInv, Storage, Beginning, Labels, Final, EndLabel
<1>5. CASE ~IsLastLabel /\ converted
  <2>1. pc' = "dot" /\ startIndex' = startIndex
    BY <1>5 DEF EndLabel
  <2>2. UpTo(startIndex)' = UpTo(startIndex) /\ ~IsLastLabel'
    BY <1>2, <1>5, <2>1 DEF UpTo, IsLastLabel
  <2>3. Judged(UpTo(startIndex))' = errors'
    BY <1>2, <1>3, <2>2 DEF Judged
  <2> QED
    BY <1>1, <1>2, <2>1, <2>2, <2>3
    DEF IndInv, Storage, Beginning, Labels, Final, EndLabel
<1>6. CASE ~IsLastLabel /\ ~converted
  <2>1. pc' = "label" /\ startIndex' = LabelEnd(Text, startIndex) + 1
    BY <1>6 DEF EndLabel
  <2>2. startIndex' \in LabelStarts(Text) /\ Before(startIndex)' = UpTo(startIndex)
    BY <1>1, <1>2, <1>6, <2>1, NextLabel DEF IsLastLabel, Before, UpTo
  <2>3. Judged(Before(startIndex))' = errors'
    BY <1>2, <1>3, <2>2 DEF Judged
  <2> QED
    BY <1>1, <1>2, <2>1, <2>2, <2>3
    DEF IndInv, Storage, Beginning, Labels, Final, EndLabel
<1> QED
  BY <1>4, <1>5, <1>6

LEMMA LabelType ==
    ASSUME IndInv, pc = "label"
    PROVE  /\ Label \in Seq(Byte) /\ LooseBuffer(newerBytes)
           /\ LooseBuffer(AppendCopying(newerBytes, Label))
  BY ContentsType, LabelFacts, LooseAppend DEF IndInv, Storage, Labels, Label, Text

LEMMA KeepLabelStep == ASSUME IndInv, KeepLabel PROVE IndInv'
<1>1. verifyValidLabel(Label, config) = Verdict(Label, config)
  BY DEF KeepLabel, Verdict
<1>2. LooseBuffer(AppendCopying(newerBytes, Label)) /\ TRUE \in BOOLEAN
  BY LabelType DEF KeepLabel
<1> QED
  BY <1>1, <1>2, EndLabelStep DEF KeepLabel

LEMMA RefuseNonASCIIStep == ASSUME IndInv, RefuseNonASCII PROVE IndInv'
<1>1. {"xnButNonASCII"} = Verdict(Label, config)
  BY DEF RefuseNonASCII, Refused, Verdict
<1>2. LooseBuffer(newerBytes) /\ FALSE \in BOOLEAN
  BY LabelType DEF RefuseNonASCII
<1> QED
  BY <1>1, <1>2, EndLabelStep DEF RefuseNonASCII

\* What decode leaves in the output: the earlier bytes, then the table's.
LEMMA AppendedReads ==
    ASSUME IndInv, pc = "label", CallsDecode
    PROVE  /\ LooseBuffer(Appended)
           /\ Outcome.bytes \in Seq(Byte)
           /\ Max({Len(DropMarker(Label)), 4}) \in Nat
           /\ Contents(Appended) = Contents(newerBytes) \o Outcome.bytes
<1> DEFINE needed == Max({Len(DropMarker(Label)), 4})
           reserved == PreferablyReserveCapacity(newerBytes, needed)
<1>1. Label \in Seq(Byte) /\ LooseBuffer(newerBytes)
  BY LabelType
<1>2. Contents(newerBytes) \in Seq(Byte) /\ Count(newerBytes) \in Nat
  BY <1>1, LooseFacts
<1>3. Outcome.bytes \in Seq(Byte)
  BY DecodingAssumption DEF CallsDecode, Outcome
<1>4. needed \in Nat
  <2>1. Len(Label) \in Nat /\ \A j \in 1 .. Len(Label) : Label[j] \in Byte
    BY <1>1, LenProperties, ElementOfSeq
  <2>2. DropMarker(Label) \in Seq(Byte)
    BY <2>1, SubSeqProperties DEF DropMarker
  <2>3. Len(DropMarker(Label)) \in Nat
    BY <2>2, LenProperties
  <2> DEFINE l == Len(DropMarker(Label))
  <2> HIDE DEF l
  <2>4. l \in Nat
    BY <2>3 DEF l
  <2>5. \E x \in {l, 4} : \A y \in {l, 4} : x >= y
    BY <2>4
  <2>6. Max({l, 4}) \in {l, 4}
    BY <2>5 DEF Max
  <2> QED
    BY <1>2, <2>4, <2>6 DEF l
<1>5. LooseBuffer(reserved) /\ Contents(reserved) = Contents(newerBytes)
  <2> HIDE DEF needed
  <2> QED
    BY <1>1, <1>4, LooseReserve
<1>6. /\ LooseBuffer(AppendCopying(reserved, Outcome.bytes))
      /\ Contents(AppendCopying(reserved, Outcome.bytes))
            = Contents(newerBytes) \o Outcome.bytes
  <2> HIDE DEF reserved
  <2> QED
    BY <1>3, <1>5, LooseAppend
<1>7. Outcome.bytes = <<>> => Contents(newerBytes) \o Outcome.bytes = Contents(newerBytes)
  BY <1>2, ConcatEmptySeq
<1>8. Appended = IF Outcome.bytes = <<>> /\ Hyphen \notin ToSet(DropMarker(Label))
                 THEN reserved ELSE AppendCopying(reserved, Outcome.bytes)
  BY DEF Appended, Reserved
<1> HIDE DEF reserved
<1> QED
  BY <1>3, <1>4, <1>5, <1>6, <1>7, <1>8

LEMMA DecodeStep == ASSUME IndInv, Decode PROVE IndInv'
<1> DEFINE conversion == SubSeq(Contents(Appended), Count(newerBytes) + 1, Count(Appended))
<1>1. pc = "label" /\ CallsDecode /\ Outcome.kind = "decoded"
  BY DEF Decode
<1>2. /\ LooseBuffer(Appended) /\ Outcome.bytes \in Seq(Byte)
      /\ Contents(Appended) = Contents(newerBytes) \o Outcome.bytes
  BY <1>1, AppendedReads
<1>3. conversion = Outcome.bytes
  <2>1. /\ Contents(newerBytes) \in Seq(Byte) /\ Count(newerBytes) = Len(Contents(newerBytes))
        /\ Count(Appended) = Len(Contents(Appended))
    BY <1>1, <1>2, LabelType, LooseFacts
  <2> QED
    BY <1>2, <2>1, ConcatTail
<1>4. checkInvalidPunycode(conversion, config) \cup verifyValidLabel(conversion, config)
        = Verdict(Label, config)
  <2>1. Converted(Label) = Outcome.bytes /\ ~Undecodable(Label)
    BY <1>1 DEF Converted, Undecodable, CallsDecode, Outcome
  <2>2. HasMarkerPrefix(Label) /\ ~(~config.ignoreInvalidPunycode /\ ~AllASCII(Label))
    BY <1>1 DEF CallsDecode, Refused
  <2> HIDE DEF conversion
  <2> QED
    BY <1>3, <2>1, <2>2, Zenon DEF Verdict
<1>5. EndLabel(Appended,
               checkInvalidPunycode(conversion, config)
                    \cup verifyValidLabel(conversion, config), TRUE)
  BY DEF Decode
<1> HIDE DEF conversion
<1> QED
  BY <1>1, <1>2, <1>4, <1>5, EndLabelStep

LEMMA DecodeFailsStep == ASSUME IndInv, DecodeFails PROVE IndInv'
<1>1. pc = "label" /\ CallsDecode /\ Outcome.kind # "decoded"
  BY DEF DecodeFails
<1>2. HasMarkerPrefix(Label) /\ Undecodable(Label)
      /\ ~(~config.ignoreInvalidPunycode /\ ~AllASCII(Label))
  BY <1>1 DEF Undecodable, CallsDecode, Refused, Outcome
<1>3. LooseBuffer(LeftByFailure)
  <2>1. LooseBuffer(Appended)
    BY <1>1, AppendedReads
  <2> QED
    BY <2>1, LooseRemove DEF LeftByFailure
<1>4. CASE config.ignoreInvalidPunycode
  <2>1. EndLabel(AppendCopying(LeftByFailure, Label), verifyValidLabel(Label, config), TRUE)
    BY <1>4 DEF DecodeFails
  <2>2. LooseBuffer(AppendCopying(LeftByFailure, Label))
    BY <1>1, <1>3, LabelType, LooseAppend
  <2>3. verifyValidLabel(Label, config) = Verdict(Label, config)
    BY <1>2, <1>4, Zenon DEF Verdict
  <2> QED
    BY <1>1, <2>1, <2>2, <2>3, EndLabelStep
<1>5. CASE ~config.ignoreInvalidPunycode
  <2>1. EndLabel(LeftByFailure, {"decodeFailed"}, FALSE)
    BY <1>5 DEF DecodeFails
  <2>2. {"decodeFailed"} = Verdict(Label, config)
    BY <1>2, <1>5, Zenon DEF Verdict
  <2> QED
    BY <1>1, <1>3, <2>1, <2>2, EndLabelStep
<1> QED
  BY <1>4, <1>5

LEMMA AppendDotStep == ASSUME IndInv, AppendDot PROVE IndInv'
<1>1. /\ GoodBuffer(newBytes) /\ LooseBuffer(newerBytes) /\ startIndex \in LabelStarts(Text)
      /\ errors = Judged(UpTo(startIndex)) /\ ~IsLastLabel
      /\ indexCapacity = MaxLabelLength(Text)
  BY DEF AppendDot, IndInv, Storage, Labels
<1>2. Text \in Seq(Byte) /\ Text' = Text /\ config' = config
  BY <1>1, ContentsType DEF AppendDot, Text
<1>3. LooseBuffer(newerBytes')
  BY <1>1, LooseUnchecked, ScalarBytesAssumption DEF AppendDot
<1>4. startIndex' \in LabelStarts(Text) /\ Before(startIndex)' = UpTo(startIndex)
  BY <1>1, <1>2, NextLabel DEF AppendDot, IsLastLabel, Before, UpTo
<1>5. Judged(Before(startIndex))' = errors'
  BY <1>1, <1>2, <1>4 DEF Judged, AppendDot
<1> QED
  BY <1>1, <1>2, <1>3, <1>4, <1>5
  DEF IndInv, Storage, Beginning, Labels, Final, AppendDot

\* A step that leaves the texts and what has been recorded alone.
LEMMA QuietStep ==
    ASSUME IndInv, UNCHANGED <<config, domain, newBytes, newerBytes, indexCapacity,
                               startIndex, errors>>,
           \/ pc' = pc
           \/ pc = "normalise" /\ pc' = "stopped"
           \/ pc \in {"label", "dot"} /\ pc' = "undefined"
    PROVE  IndInv'
<1>1. Text' = Text
  BY DEF Text
<1>2. /\ IsLastLabel' = IsLastLabel
      /\ Judged(Before(startIndex))' = Judged(Before(startIndex))
      /\ Judged(UpTo(startIndex))' = Judged(UpTo(startIndex))
  BY <1>1 DEF IsLastLabel, Judged, Before, UpTo
<1>3. Storage'
  BY DEF IndInv, Storage, Final
<1>4. Beginning'
  BY DEF IndInv, Beginning
<1>5. Labels'
  <2>1. CASE pc' = pc
    BY <1>1, <1>2, <2>1 DEF IndInv, Labels
  <2>2. CASE pc = "normalise" /\ pc' = "stopped"
    BY <2>2 DEF Labels
  <2>3. CASE pc \in {"label", "dot"} /\ pc' = "undefined"
    BY <1>1, <1>2, <2>3 DEF IndInv, Labels
  <2> QED
    BY <2>1, <2>2, <2>3
<1> QED
  BY <1>3, <1>4, <1>5 DEF IndInv

LEMMA StepInv == IndInv /\ [Next]_vars => IndInv'
<1>1. ASSUME IndInv, NormaliseStops PROVE IndInv'
  BY <1>1, QuietStep DEF NormaliseStops
<1>2. ASSUME IndInv, DotPastTuple PROVE IndInv'
  BY <1>2, QuietStep DEF DotPastTuple
<1>3. ASSUME IndInv, DecodeUnwrapsNil PROVE IndInv'
  BY <1>3, QuietStep DEF DecodeUnwrapsNil
<1>4. ASSUME IndInv, UNCHANGED vars PROVE IndInv'
  BY <1>4, QuietStep DEF vars
<1> QED
  BY <1>1, <1>2, <1>3, <1>4, MapStep, NormaliseStep, KeepLabelStep, RefuseNonASCIIStep,
     DecodeStep, DecodeFailsStep, AppendDotStep
  DEF Next, Finished

\* The invariant holds: every step of mainProcessing keeps each of its parts.
THEOREM Invariant == Spec => []IndInv
  BY InitInv, StepInv, PTL DEF Spec

-----------------------------------------------------------------------------

\* The state keeps its types: whatever is decoded, appended or wiped, the
\* output stays in one of a buffer's representations, and every error is
\* about a label of the text.
THEOREM TypeCorrect == Spec => []TypeOK
<1>1. IndInv => TypeOK
  <2> SUFFICES ASSUME IndInv PROVE TypeOK
    OBVIOUS
  <2>1. newBytes \in Buffer /\ newerBytes \in Buffer /\ Text \in Seq(Byte)
    BY ContentsType DEF IndInv, Storage, GoodBuffer, LooseBuffer, Text
  <2>2. domain \in Seq(UnicodeScalar)
    BY DomainsAssumption DEF IndInv, Storage
  <2>3. startIndex \in Nat
    <3>1. Len(Text) \in Nat
      BY <2>1, LenProperties
    <3>2. startIndex = 0 \/ startIndex \in LabelStarts(Text)
      BY DEF IndInv, Storage, Beginning, Labels, Final
    <3> QED
      BY <2>1, <3>1, <3>2, LabelFacts
  <2>4. \A e \in errors : e.at \in LabelStarts(Text)
    <3>1. CASE errors = {}
      BY <3>1
    <3>2. CASE errors # {}
      <4>1. errors = Judged(Before(startIndex)) \/ errors = Judged(UpTo(startIndex))
        BY <3>2 DEF IndInv, Storage, Beginning, Labels, Final
      <4> QED
        BY <4>1, JudgedAt DEF Before, UpTo
    <3> QED
      BY <3>1, <3>2
  <2> QED
    BY <2>1, <2>2, <2>3, <2>4 DEF TypeOK, IndInv, Storage
<1> QED
  BY <1>1, Invariant, PTL

\* The first pass of `mapToIDNAMappings` asks for the room that the second
\* one fills without looking, whatever the tables and the domain name, and
\* what is normalised stays within it.
THEOREM MappedTextAlwaysFits == Spec => []MappedTextFits
<1>1. IndInv => MappedTextFits
  BY DEF IndInv, Storage, GoodBuffer, MappedTextFits
<1> QED
  BY <1>1, Invariant, PTL

\* `maxLabelLength` is room enough for every label `decode` is called on:
\* the array of indices that all of them share never has to grow.
THEOREM IndexArrayAlwaysHasRoom == Spec => []IndexArrayHasRoom
<1>1. IndInv => IndexArrayHasRoom
  <2> SUFFICES ASSUME IndInv, pc = "label", HasMarkerPrefix(Label)
               PROVE  Len(DropMarker(Label)) + 4 <= indexCapacity
    BY DEF IndexArrayHasRoom
  <2>1. Text \in Seq(Byte) /\ startIndex \in LabelStarts(Text)
        /\ indexCapacity = MaxLabelLength(Text)
    BY ContentsType DEF IndInv, Storage, Labels, Text
  <2>2. Label \in Seq(Byte) /\ Len(Label) <= indexCapacity /\ indexCapacity \in Nat
    BY <2>1, LabelFacts, MaxLabelFacts DEF Label
  <2>3. Len(Label) \in Nat /\ Len(Label) >= 4 /\ \A j \in 1 .. Len(Label) : Label[j] \in Byte
    BY <2>2, LenProperties, ElementOfSeq DEF HasMarkerPrefix
  <2>4. /\ 5 \in Int /\ Len(Label) \in Int
        /\ \A j \in 5 .. Len(Label) : Label[j] \in Byte
    BY <2>3
  <2>5. Len(DropMarker(Label)) = IF 5 <= Len(Label) THEN Len(Label) - 5 + 1 ELSE 0
    BY <2>4, SubSeqProperties DEF DropMarker
  <2> QED
    BY <2>2, <2>3, <2>5
<1> QED
  BY <1>1, Invariant, PTL

\* When `mainProcessing` is done, every label has been judged, and on
\* its own bytes alone: whatever the labels before it recorded, left in the
\* shared output or wiped from it, and dots that missed an inline buffer's
\* last byte included.
THEOREM EveryLabelIsJudged == Spec => []EveryLabelJudged
<1>1. IndInv => EveryLabelJudged
  <2> SUFFICES ASSUME IndInv, pc = "done"
               PROVE  errors = Judged(LabelStarts(Text))
    BY DEF EveryLabelJudged, Judged
  <2>1. /\ Text \in Seq(Byte) /\ startIndex \in LabelStarts(Text)
        /\ errors = Judged(UpTo(startIndex)) /\ IsLastLabel
    BY ContentsType DEF IndInv, Storage, Labels, Text
  <2> QED
    BY <2>1, LastLabel DEF UpTo, IsLastLabel
<1> QED
  BY <1>1, Invariant, PTL

-----------------------------------------------------------------------------
(* The text converted label by label. *)

\* What comes right before a place among finitely many.
LEMMA BeforeFacts ==
    ASSUME NEW N \in Nat, NEW S \in SUBSET (0 .. N), 0 \in S, NEW from \in S, from # 0
    PROVE  LET before == Max({f \in S : f < from})
           IN  /\ before \in S /\ before < from
               /\ \A f \in S : f < from => f <= before
<1> DEFINE T == {f \in S : f < from}
<1>1. T \in SUBSET (0 .. N) /\ 0 \in T
  <2>1. from \in 0 .. N /\ 0 < from
    OBVIOUS
  <2> QED
    BY <2>1
<1>2. Max(T) \in T /\ \A y \in T : y <= Max(T)
  <2> HIDE DEF T
  <2> QED
    BY <1>1, MaxFacts
<1> QED
  BY <1>2

\* Pieces can be joined, whatever they are and however many.
LEMMA JoinedIsRecursive ==
    ASSUME NEW N \in Nat, NEW S \in SUBSET (0 .. N), 0 \in S,
           NEW piece, DOMAIN piece = S
    PROVE  /\ JoinedUpTo(piece, 0) = piece[0]
           /\ \A f \in S : f # 0 =>
                JoinedUpTo(piece, f)
                    = JoinedUpTo(piece, Max({g \in S : g < f})) \o <<Dot>> \o piece[f]
<1> DEFINE before(k) == Max({g \in S : g < k})
           label(k) == piece[k]
           Rec(f, D) == f = [k \in D |-> IF k = 0 THEN label(0)
                                         ELSE f[before(k)] \o <<Dot>> \o label(k)]
           Part(n) == {k \in S : k <= n}
           Exists(n) == \E f : Rec(f, Part(n))
           Failures == {n \in 0 .. N : ~Exists(n)}
           text == CHOOSE f : Rec(f, S)
<1>1. /\ N \in Nat /\ 0 \in S /\ \A k \in S : k \in 0 .. N
      /\ \A k \in S : k # 0 => before(k) \in S /\ before(k) < k
  BY BeforeFacts
<1>2. \A from : JoinedUpTo(piece, from) = text[from]
  BY DEF JoinedUpTo
<1> HIDE DEF before, label
<1>3. Exists(0)
  <2>1. \A k \in S : k <= 0 <=> k = 0
    BY <1>1
  <2>3. Part(0) = {0}
    BY <1>1, <2>1
  <2>2. Rec([k \in {0} |-> label(0)], {0})
    OBVIOUS
  <2> QED
    BY <2>2, <2>3
<1>4. ASSUME NEW n \in 0 .. N, n # 0, Exists(n - 1) PROVE Exists(n)
  <2>1. PICK f : Rec(f, Part(n - 1))
    BY <1>4
  <2>2. CASE n \notin S
    <3>0. \A k \in S : k <= n <=> k <= n - 1
      BY <1>1, <1>4, <2>2
    <3>1. Part(n) = Part(n - 1)
      BY <3>0
    <3> QED
      BY <2>1, <3>1
  <2>3. CASE n \in S
    <3> DEFINE longer == [k \in Part(n) |->
                            IF k = n THEN f[before(n)] \o <<Dot>> \o label(n) ELSE f[k]]
    <3>1. \A k \in Part(n) : k # n => k \in Part(n - 1)
      BY <1>1
    <3>2. \A k \in Part(n) : k # 0 => before(k) \in Part(n) /\ before(k) # n
      <4> SUFFICES ASSUME NEW k \in Part(n), k # 0
                   PROVE  before(k) \in Part(n) /\ before(k) # n
        OBVIOUS
      <4>1. before(k) \in S /\ before(k) < k /\ k <= n
        BY <1>1
      <4>2. before(k) \in 0 .. N /\ k \in 0 .. N
        BY <1>1, <4>1
      <4>3. before(k) <= n /\ before(k) # n
        BY <1>1, <4>1, <4>2
      <4> QED
        BY <4>1, <4>3
    <3>3. \A k \in Part(n) : k # 0 => longer[before(k)] = f[before(k)]
      BY <3>2
    <3>4. \A k \in Part(n) : longer[k] = IF k = 0 THEN label(0)
                                         ELSE longer[before(k)] \o <<Dot>> \o label(k)
      <4> SUFFICES ASSUME NEW k \in Part(n)
                   PROVE  longer[k] = IF k = 0 THEN label(0)
                                      ELSE longer[before(k)] \o <<Dot>> \o label(k)
        OBVIOUS
      <4>1. CASE k = n
        BY <1>4, <3>3, <4>1
      <4>2. CASE k # n
        <5>1. longer[k] = f[k] /\ k \in Part(n - 1)
          BY <3>1, <4>2
        <5>2. f[k] = IF k = 0 THEN label(0) ELSE f[before(k)] \o <<Dot>> \o label(k)
          BY <2>1, <5>1
        <5> HIDE DEF longer
        <5> QED
          BY <3>3, <5>1, <5>2
      <4> QED
        BY <4>1, <4>2
    <3>5. longer = [k \in Part(n) |-> longer[k]]
      OBVIOUS
    <3> HIDE DEF longer
    <3>6. Rec(longer, Part(n))
      BY <3>4, <3>5
    <3> QED
      BY <3>6
  <2> QED
    BY <2>2, <2>3
<1> HIDE DEF Exists
<1>5. Failures = {}
  <2> SUFFICES ASSUME Failures # {} PROVE FALSE
    OBVIOUS
  <2>0. Failures \in SUBSET Nat
    OBVIOUS
  <2>1. PICK n \in Failures : \A y \in Failures : n <= y
    <3> HIDE DEF Failures
    <3> QED
      BY <2>0, LeastFailure
  <2>2. n \in 0 .. N /\ ~Exists(n)
    BY <2>1
  <2>3. n # 0
    BY <1>3, <2>2
  <2>4. n - 1 \in 0 .. N /\ ~(n <= n - 1)
    BY <1>1, <2>2, <2>3
  <2>5. Exists(n - 1)
    BY <2>1, <2>4
  <2> QED
    BY <1>4, <2>2, <2>3, <2>5
<1>6. Exists(N) /\ Part(N) = S
  <2>1. N \in 0 .. N /\ \A k \in S : k <= N
    BY <1>1
  <2> QED
    BY <1>5, <2>1
<1>7. \E f : Rec(f, S)
  BY <1>6 DEF Exists
<1>8. Rec(text, S)
  <2> HIDE DEF Rec
  <2> QED
    BY <1>7
<1> HIDE DEF text
<1>9. text[0] = label(0) /\ \A f \in S : f # 0 =>
            text[f] = text[before(f)] \o <<Dot>> \o label(f)
  BY <1>1, <1>8
<1> QED
  BY <1>2, <1>9 DEF before, label

LabelBefore(s, from) == Max({f \in LabelStarts(s) : f < from})

LEMMA LabelBeforeFacts ==
    ASSUME NEW s \in Seq(Byte), NEW from \in LabelStarts(s), from # 0
    PROVE  /\ LabelBefore(s, from) \in LabelStarts(s) /\ LabelBefore(s, from) < from
           /\ \A f \in LabelStarts(s) : f < from => f <= LabelBefore(s, from)
<1> DEFINE S == LabelStarts(s)
<1>1. Len(s) \in Nat /\ S \in SUBSET (0 .. Len(s)) /\ 0 \in S
  BY LenProperties, LabelFacts DEF LabelStarts
<1> HIDE DEF S
<1>2. from \in S
  BY DEF S
<1> QED
  BY <1>1, <1>2, BeforeFacts DEF LabelBefore, S

LEMMA ConvertedIsRecursive ==
    ASSUME NEW s \in Seq(Byte)
    PROVE  /\ ConvertedUpTo(s, 0) = Converted(LabelAt(s, 0))
           /\ \A f \in LabelStarts(s) : f # 0 =>
                ConvertedUpTo(s, f)
                    = ConvertedUpTo(s, LabelBefore(s, f)) \o <<Dot>> \o Converted(LabelAt(s, f))
<1> DEFINE S == LabelStarts(s)
           piece == [f \in S |-> Converted(LabelAt(s, f))]
<1>1. Len(s) \in Nat /\ S \in SUBSET (0 .. Len(s)) /\ 0 \in S
  BY LenProperties, LabelFacts DEF LabelStarts
<1>2. DOMAIN piece = S /\ \A f \in S : piece[f] = Converted(LabelAt(s, f))
  OBVIOUS
<1>3. \A f : ConvertedUpTo(s, f) = JoinedUpTo(piece, f)
  BY DEF ConvertedUpTo
<1>4. \A f : LabelBefore(s, f) = Max({g \in S : g < f})
  BY DEF LabelBefore
<1> HIDE DEF S, piece
<1>5. /\ JoinedUpTo(piece, 0) = piece[0]
      /\ \A f \in S : f # 0 =>
            JoinedUpTo(piece, f)
                = JoinedUpTo(piece, Max({g \in S : g < f})) \o <<Dot>> \o piece[f]
  BY <1>1, <1>2, JoinedIsRecursive
<1> QED
  BY <1>1, <1>2, <1>3, <1>4, <1>5 DEF S

-----------------------------------------------------------------------------
(***************************************************************************)
(* The output.  While nothing is said against the conversion, what has     *)
(* been written is the converted text up to where the call is, in a buffer *)
(* that no dot has overfilled.                                             *)
(***************************************************************************)

Comparable ==
    /\ ~DotMeetsFullBuffer(Text)
    /\ IF config.ignoreInvalidPunycode
       THEN \A from \in LabelStarts(Text) : ~Undecodable(LabelAt(Text, from))
       ELSE errors = {}

WrittenBefore(from) ==
    IF from = 0 THEN <<>> ELSE ConvertedUpTo(Text, LabelBefore(Text, from)) \o <<Dot>>

OutputStorage ==
    pc \in {"label", "dot"} /\ Len(Text) > Threshold => ~IsInline(newerBytes)

OutputText ==
    pc \in {"label", "dot", "done"} /\ Comparable =>
        /\ GoodBuffer(newerBytes)
        /\ Contents(newerBytes) = IF pc = "label" THEN WrittenBefore(startIndex)
                                                  ELSE ConvertedUpTo(Text, startIndex)

Output == OutputStorage /\ OutputText

\* Heap storage is never left again.
LEMMA HeapStays ==
    ASSUME NEW b, ~IsInline(b)
    PROVE  /\ \A s : ~IsInline(AppendCopying(b, s))
           /\ \A n : ~IsInline(PreferablyReserveCapacity(b, n))
           /\ ~IsInline(RemoveAll(b, TRUE))
           /\ \A e : ~IsInline(AppendUnchecked(b, e))
  BY DEF IsInline, AppendCopying, AppendExact, PreferablyReserveCapacity, RemoveAll,
         AppendUnchecked, Heap

\* What the label adds to what was written before it.
LEMMA ConvertedNow ==
    ASSUME NEW s \in Seq(Byte), NEW from \in LabelStarts(s),
           Converted(LabelAt(s, from)) \in Seq(Byte), Text = s
    PROVE  WrittenBefore(from) \o Converted(LabelAt(s, from)) = ConvertedUpTo(s, from)
<1>1. CASE from = 0
  BY <1>1, ConvertedIsRecursive, ConcatEmptySeq DEF WrittenBefore
<1>2. CASE from # 0
  BY <1>2, ConvertedIsRecursive DEF WrittenBefore
<1> QED
  BY <1>1, <1>2

\* The dot carries what is written over to the next label.
LEMMA WrittenNext ==
    ASSUME NEW s \in Seq(Byte), NEW from \in LabelStarts(s), Dots(s, from) # {}, Text = s
    PROVE  LET next == LabelEnd(s, from) + 1
           IN  /\ WrittenBefore(next) = ConvertedUpTo(s, from) \o <<Dot>>
               /\ from # Max(LabelStarts(s))
<1> DEFINE next == LabelEnd(s, from) + 1
<1>1. /\ next \in LabelStarts(s)
      /\ {f \in LabelStarts(s) : f < next} = {f \in LabelStarts(s) : f <= from}
  BY NextLabel
<1> HIDE DEF next
<1>2. Len(s) \in Nat /\ \A f \in LabelStarts(s) : f \in 0 .. Len(s)
  BY LenProperties, LabelFacts
<1>3. from < next
  <2>1. from <= from
    BY <1>2
  <2> QED
    BY <1>1, <2>1
<1>4. LabelBefore(s, next) = from
  <2>1. next # 0
    BY <1>2, <1>3
  <2>2. /\ LabelBefore(s, next) \in LabelStarts(s) /\ LabelBefore(s, next) < next
        /\ from <= LabelBefore(s, next)
    BY <1>1, <1>3, <2>1, LabelBeforeFacts
  <2>3. LabelBefore(s, next) <= from
    BY <1>1, <2>2
  <2> QED
    BY <1>2, <2>2, <2>3
<1>5. WrittenBefore(next) = ConvertedUpTo(s, from) \o <<Dot>>
  BY <1>2, <1>3, <1>4 DEF WrittenBefore
<1>6. from # Max(LabelStarts(s))
  <2> DEFINE S == LabelStarts(s)
  <2>1. S \in SUBSET (0 .. Len(s)) /\ S # {} /\ next \in S
    BY <1>1, <1>2
  <2> HIDE DEF S
  <2>2. next <= Max(S) /\ Max(S) \in S
    BY <1>2, <2>1, MaxFacts
  <2> QED
    BY <1>2, <1>3, <2>1, <2>2 DEF S
<1> QED
  BY <1>5, <1>6 DEF next

LEMMA LastIsMax ==
    ASSUME NEW s \in Seq(Byte), NEW from \in LabelStarts(s), Dots(s, from) = {}
    PROVE  from = Max(LabelStarts(s))
<1> DEFINE S == LabelStarts(s)
<1>1. Len(s) \in Nat /\ \A f \in S : f \in 0 .. Len(s) /\ f <= from
  BY LenProperties, LabelFacts, LastLabel
<1>2. S \in SUBSET (0 .. Len(s)) /\ S # {} /\ from \in S
  BY <1>1
<1> HIDE DEF S
<1>3. from <= Max(S) /\ Max(S) \in S
  BY <1>1, <1>2, MaxFacts
<1>4. Max(S) <= from /\ Max(S) \in 0 .. Len(s) /\ from \in 0 .. Len(s)
  BY <1>1, <1>2, <1>3
<1> QED
  BY <1>1, <1>3, <1>4 DEF S

-----------------------------------------------------------------------------
(* Every step keeps it. *)

\* A turn that writes the converted label, or makes the result one that is
\* not compared.
LEMMA EndLabelOutput ==
    ASSUME IndInv, Output, pc = "label",
           NEW output, NEW kinds, NEW converted \in BOOLEAN,
           EndLabel(output, kinds, converted),
           ~IsInline(newerBytes) => ~IsInline(output),
           Comparable /\ (config.ignoreInvalidPunycode \/ kinds = {}) =>
                /\ converted
                /\ GoodBuffer(newerBytes) =>
                    /\ GoodBuffer(output)
                    /\ Converted(Label) \in Seq(Byte)
                    /\ Contents(output) = Contents(newerBytes) \o Converted(Label)
    PROVE  Output'
<1>1. /\ Text \in Seq(Byte) /\ startIndex \in LabelStarts(Text)
      /\ Text' = Text /\ config' = config /\ newerBytes' = output
  BY ContentsType DEF IndInv, Storage, Labels, EndLabel, Text
<1>2. OutputStorage'
  BY <1>1 DEF Output, OutputStorage
<1>3. ASSUME Comparable', pc' \in {"label", "dot", "done"}
      PROVE  /\ GoodBuffer(newerBytes')
             /\ Contents(newerBytes') = IF pc' = "label" THEN WrittenBefore(startIndex)'
                                        ELSE ConvertedUpTo(Text', startIndex')
  <2>1. Comparable /\ (config.ignoreInvalidPunycode \/ kinds = {})
    <3>1. CASE config.ignoreInvalidPunycode
      BY <1>1, <1>3, <3>1 DEF Comparable
    <3>2. CASE ~config.ignoreInvalidPunycode
      <4>1. errors' = {}
        BY <1>1, <1>3, <3>2 DEF Comparable
      <4>2. errors = {} /\ {[at |-> startIndex, kind |-> kind] : kind \in kinds} = {}
        BY <4>1 DEF EndLabel
      <4>3. kinds = {}
        BY <4>2
      <4> QED
        BY <1>1, <1>3, <3>2, <4>2, <4>3 DEF Comparable
    <3> QED
      BY <3>1, <3>2
  <2>2. GoodBuffer(newerBytes) /\ Contents(newerBytes) = WrittenBefore(startIndex)
    BY <2>1 DEF Output, OutputText
  <2>3. /\ converted /\ GoodBuffer(output) /\ Converted(Label) \in Seq(Byte)
        /\ Contents(output) = WrittenBefore(startIndex) \o Converted(Label)
    BY <2>1, <2>2
  <2>4. Contents(output) = ConvertedUpTo(Text, startIndex)
    BY <1>1, <2>3, ConvertedNow DEF Label
  <2>5. pc' \in {"dot", "done"} /\ startIndex' = startIndex
    BY <2>3 DEF EndLabel
  <2> QED
    BY <1>1, <2>3, <2>4, <2>5
<1> QED
  BY <1>2, <1>3 DEF Output, OutputText

LEMMA KeepLabelOutput == ASSUME IndInv, Output, KeepLabel PROVE Output'
<1>1. Label \in Seq(Byte) /\ Converted(Label) = Label
  BY LabelType DEF KeepLabel, Converted
<1>2. GoodBuffer(newerBytes) =>
        /\ GoodBuffer(AppendCopying(newerBytes, Label))
        /\ Contents(AppendCopying(newerBytes, Label)) = Contents(newerBytes) \o Label
  <2>1. Len(Label) \in Nat /\ Len(Label) <= Len(Label)
    BY <1>1, LenProperties
  <2> QED
    BY <1>1, <2>1, AppendExactReads DEF AppendCopying
<1>3. /\ pc = "label" /\ TRUE \in BOOLEAN
      /\ EndLabel(AppendCopying(newerBytes, Label), verifyValidLabel(Label, config), TRUE)
  BY DEF KeepLabel
<1> QED
  BY <1>1, <1>2, <1>3, HeapStays, EndLabelOutput

LEMMA RefuseNonASCIIOutput == ASSUME IndInv, Output, RefuseNonASCII PROVE Output'
<1>1. /\ pc = "label" /\ FALSE \in BOOLEAN
      /\ EndLabel(newerBytes, {"xnButNonASCII"}, FALSE)
      /\ ~config.ignoreInvalidPunycode /\ {"xnButNonASCII"} # {}
  BY DEF RefuseNonASCII, Refused
<1> QED
  BY <1>1, EndLabelOutput

LEMMA AppendedIsGood ==
    ASSUME IndInv, pc = "label", CallsDecode
    PROVE  /\ GoodBuffer(newerBytes) => GoodBuffer(Appended)
           /\ ~IsInline(newerBytes) => ~IsInline(Appended)
<1> DEFINE needed == Max({Len(DropMarker(Label)), 4})
           reserved == PreferablyReserveCapacity(newerBytes, needed)
<1>1. needed \in Nat
  BY AppendedReads
<1>2. Outcome.bytes \in Seq(Byte)
  BY AppendedReads
<1>3. /\ GoodBuffer(newerBytes) => GoodBuffer(reserved)
      /\ ~IsInline(newerBytes) => ~IsInline(reserved)
  <2> HIDE DEF needed
  <2> QED
    BY <1>1, ReserveReads, HeapStays
<1>4. Appended = IF Outcome.bytes = <<>> /\ Hyphen \notin ToSet(DropMarker(Label))
                 THEN reserved ELSE AppendCopying(reserved, Outcome.bytes)
  BY DEF Appended, Reserved
<1>5. Len(Outcome.bytes) \in Nat /\ Len(Outcome.bytes) <= Len(Outcome.bytes)
  BY <1>2, LenProperties
<1> HIDE DEF reserved
<1>6. GoodBuffer(newerBytes) => GoodBuffer(AppendCopying(reserved, Outcome.bytes))
  BY <1>2, <1>3, <1>5, AppendExactReads DEF AppendCopying
<1> QED
  BY <1>3, <1>4, <1>6, HeapStays

LEMMA DecodeOutput == ASSUME IndInv, Output, Decode PROVE Output'
<1>1. pc = "label" /\ CallsDecode /\ TRUE \in BOOLEAN
  BY DEF Decode
<1>2. Converted(Label) = Outcome.bytes
  BY DEF Decode, Converted, Undecodable, CallsDecode, Outcome
<1>3. /\ GoodBuffer(newerBytes) => GoodBuffer(Appended)
      /\ ~IsInline(newerBytes) => ~IsInline(Appended)
      /\ Converted(Label) \in Seq(Byte)
      /\ Contents(Appended) = Contents(newerBytes) \o Converted(Label)
  BY <1>1, <1>2, AppendedReads, AppendedIsGood
<1>4. PICK kinds : EndLabel(Appended, kinds, TRUE)
  BY DEF Decode
<1> QED
  BY <1>1, <1>3, <1>4, EndLabelOutput

LEMMA DecodeFailsOutput == ASSUME IndInv, Output, DecodeFails PROVE Output'
<1>1. pc = "label" /\ CallsDecode /\ Undecodable(Label)
  BY DEF DecodeFails, Undecodable, CallsDecode, Outcome
<1>2. ~IsInline(newerBytes) => ~IsInline(LeftByFailure)
  BY <1>1, AppendedIsGood, HeapStays DEF LeftByFailure
<1>3. CASE config.ignoreInvalidPunycode
  <2>1. EndLabel(AppendCopying(LeftByFailure, Label), verifyValidLabel(Label, config), TRUE)
    BY <1>3 DEF DecodeFails
  <2>2. ~Comparable
    BY <1>1, <1>3 DEF Comparable, IndInv, Labels, Label
  <2>3. ~IsInline(newerBytes) => ~IsInline(AppendCopying(LeftByFailure, Label))
    BY <1>2, HeapStays
  <2>4. TRUE \in BOOLEAN
    OBVIOUS
  <2> QED
    BY <1>1, <2>1, <2>2, <2>3, <2>4, EndLabelOutput
<1>4. CASE ~config.ignoreInvalidPunycode
  <2>1. EndLabel(LeftByFailure, {"decodeFailed"}, FALSE)
    BY <1>4 DEF DecodeFails
  <2>2. ~(config.ignoreInvalidPunycode \/ {"decodeFailed"} = {}) /\ FALSE \in BOOLEAN
    BY <1>4
  <2> QED
    BY <1>1, <1>2, <2>1, <2>2, EndLabelOutput
<1> QED
  BY <1>3, <1>4

LEMMA AppendDotOutput == ASSUME IndInv, Output, AppendDot PROVE Output'
<1>1. /\ Text \in Seq(Byte) /\ startIndex \in LabelStarts(Text) /\ Dots(Text, startIndex) # {}
      /\ Text' = Text /\ config' = config /\ errors' = errors /\ pc = "dot" /\ pc' = "label"
      /\ newerBytes' = AppendUnchecked(newerBytes, Dot)
      /\ startIndex' = LabelEnd(Text, startIndex) + 1
  BY ContentsType DEF IndInv, Storage, Labels, IsLastLabel, AppendDot, Text
<1>2. OutputStorage'
  BY <1>1, HeapStays DEF Output, OutputStorage
<1>3. ASSUME Comparable'
      PROVE  /\ GoodBuffer(newerBytes')
             /\ Contents(newerBytes') = WrittenBefore(startIndex)'
  <2>1. Comparable
    BY <1>1, <1>3 DEF Comparable
  <2>2. GoodBuffer(newerBytes) /\ Contents(newerBytes) = ConvertedUpTo(Text, startIndex)
    BY <1>1, <2>1 DEF Output, OutputText
  <2>3. /\ WrittenBefore(startIndex)' = ConvertedUpTo(Text, startIndex) \o <<Dot>>
        /\ startIndex # Max(LabelStarts(Text))
    <3>1. WrittenBefore(startIndex)' = WrittenBefore(LabelEnd(Text, startIndex) + 1)
      BY <1>1 DEF WrittenBefore
    <3> QED
      BY <1>1, <3>1, WrittenNext
  <2>4. HasRoomForOne(newerBytes)
    <3> SUFFICES ASSUME IsInline(newerBytes), ~(newerBytes.cells[CountCell] < InlineCapacity)
                 PROVE  FALSE
      BY DEF HasRoomForOne
    <3>1. Len(ConvertedUpTo(Text, startIndex)) = InlineCapacity
      BY <2>2, InlineFacts, InlineCapacityAssumption
    <3>2. Len(Text) <= Threshold
      <4>1. ~(Len(Text) > Threshold)
        BY <1>1 DEF Output, OutputStorage
      <4> QED
        BY <1>1, <4>1, LenProperties, ThresholdAssumption
    <3> QED
      BY <1>1, <2>1, <2>3, <3>1, <3>2 DEF Comparable, DotMeetsFullBuffer
  <2>5. <<Dot>> \in Seq(Byte) /\ Len(<<Dot>>) = 1 /\ <<Dot>>[1] = Dot
    BY ScalarBytesAssumption
  <2> QED
    BY <1>1, <2>2, <2>3, <2>4, <2>5, AppendUncheckedReads
<1> QED
  BY <1>1, <1>2, <1>3 DEF Output, OutputText

LEMMA NormaliseOutput == ASSUME IndInv, Normalise PROVE Output'
<1>1. GoodBuffer(newBytes')
  BY EnsureNFCReads DEF Normalise, IndInv, Storage
<1>2. Count(newBytes') = Len(Text') /\ Count(newBytes') \in Nat
  BY <1>1, ContentsType DEF Text
<1>3. /\ pc' = "label" /\ startIndex' = 0
      /\ newerBytes' = WithPreferredCapacity(Count(newBytes'))
  BY DEF Normalise, IndInv, Beginning
<1>4. CASE Count(newBytes') > Threshold
  <2>1. newerBytes' = Heap(<<>>, Count(newBytes'))
    BY <1>3, <1>4 DEF WithPreferredCapacity
  <2>2. <<>> \in Seq(Byte) /\ Len(<<>>) <= Count(newBytes')
    BY <1>2, EmptySeq
  <2>3. GoodBuffer(newerBytes') /\ Contents(newerBytes') = <<>> /\ ~IsInline(newerBytes')
    BY <1>2, <2>1, <2>2, HeapReads DEF Heap, IsInline
  <2> QED
    BY <1>3, <2>3 DEF Output, OutputStorage, OutputText, WrittenBefore
<1>5. CASE ~(Count(newBytes') > Threshold)
  <2>1. GoodBuffer(newerBytes') /\ Contents(newerBytes') = <<>>
    BY <1>3, <1>5, EmptyReads DEF WithPreferredCapacity
  <2> QED
    BY <1>2, <1>3, <1>5, <2>1 DEF Output, OutputStorage, OutputText, WrittenBefore
<1> QED
  BY <1>4, <1>5

LEMMA OutputStep == IndInv /\ Output /\ [Next]_vars => Output'
<1>1. ASSUME Output, UNCHANGED vars PROVE Output'
  BY <1>1 DEF vars, Output, OutputStorage, OutputText, Comparable, WrittenBefore, Text
<1>2. ASSUME Map PROVE Output'
  BY <1>2 DEF Map, Output, OutputStorage, OutputText
<1>3. ASSUME NormaliseStops PROVE Output'
  BY <1>3 DEF NormaliseStops, Output, OutputStorage, OutputText
<1>4. ASSUME DotPastTuple PROVE Output'
  BY <1>4 DEF DotPastTuple, Output, OutputStorage, OutputText
<1>5. ASSUME DecodeUnwrapsNil PROVE Output'
  BY <1>5 DEF DecodeUnwrapsNil, Output, OutputStorage, OutputText
<1> QED
  BY <1>1, <1>2, <1>3, <1>4, <1>5, NormaliseOutput, KeepLabelOutput, RefuseNonASCIIOutput,
     DecodeOutput, DecodeFailsOutput, AppendDotOutput
  DEF Next, Finished

\* So does what it says of the output.
THEOREM OutputInvariant == Spec => [](IndInv /\ Output)
<1>1. Init => Output
  BY DEF Init, Output, OutputStorage, OutputText
<1> QED
  BY <1>1, InitInv, StepInv, OutputStep, PTL DEF Spec

LEMMA OutputAtEnd ==
    ASSUME IndInv, Output, pc = "done", Comparable
    PROVE  Contents(newerBytes) = ConvertedText(Text)
<1>1. /\ Text \in Seq(Byte) /\ startIndex \in LabelStarts(Text)
      /\ Dots(Text, startIndex) = {}
  BY ContentsType DEF IndInv, Storage, Labels, IsLastLabel, Text
<1>2. startIndex = Max(LabelStarts(Text))
  BY <1>1, LastIsMax
<1> QED
  BY <1>2 DEF Output, OutputText, ConvertedText

\* Under the strict setting `mainProcessing` returns without errors only the
\* text with each of its labels converted, for every arrangement of labels;
\* names in which a dot is due when the inline buffer is just full are the
\* exception.
THEOREM StrictOutputAlwaysConverted == Spec => []StrictOutputIsConverted
<1>1. IndInv /\ Output => StrictOutputIsConverted
  BY OutputAtEnd DEF StrictOutputIsConverted, Comparable
<1> QED
  BY <1>1, OutputInvariant, PTL

\* The same when invalid Punycode is ignored, of texts all of whose labels
\* can be decoded.
THEOREM LaxOutputAlwaysConverted == Spec => []LaxOutputIsConverted
<1>1. IndInv /\ Output => LaxOutputIsConverted
  BY OutputAtEnd DEF LaxOutputIsConverted, Comparable
<1> QED
  BY <1>1, OutputInvariant, PTL

-----------------------------------------------------------------------------
(* Induction and recursion up to a number, from LeastFailure. *)

LEMMA InductionUpTo ==
    ASSUME NEW N \in Nat, NEW S, 0 \in S, \A j \in 1 .. N : j - 1 \in S => j \in S
    PROVE  \A j \in 0 .. N : j \in S
<1> DEFINE Failures == {j \in 0 .. N : j \notin S}
<1> SUFFICES ASSUME Failures # {} PROVE FALSE
  OBVIOUS
<1>1. Failures \in SUBSET Nat
  OBVIOUS
<1>2. PICK n \in Failures : \A y \in Failures : n <= y
  <2> HIDE DEF Failures
  <2> QED
    BY <1>1, LeastFailure
<1>3. n \in 1 .. N /\ n \notin S
  BY <1>2
<1>4. n - 1 \in 0 .. N /\ ~(n <= n - 1)
  BY <1>3
<1>5. n - 1 \in S
  BY <1>2, <1>4
<1> QED
  BY <1>3, <1>5

\* What n steps make of base, one after the other.
Iterates(f, n, S, base, step) ==
    /\ f \in [0 .. n -> S]
    /\ f[0] = base /\ \A j \in 1 .. n : f[j] = step[f[j - 1], j]

LEMMA IterationExists ==
    ASSUME NEW N \in Nat, NEW S, NEW base \in S, NEW step \in [S \X (1 .. N) -> S]
    PROVE  \E f : Iterates(f, N, S, base, step)
<1> DEFINE Exists(n) == \E f : Iterates(f, n, S, base, step)
           T == {n \in 0 .. N : Exists(n)}
<1>1. 0 \in T
  <2>1. Iterates([j \in 0 .. 0 |-> base], 0, S, base, step)
    BY DEF Iterates
  <2> QED
    BY <2>1
<1>2. ASSUME NEW n \in 1 .. N, n - 1 \in T PROVE n \in T
  <2>0. PICK f : Iterates(f, n - 1, S, base, step)
    BY <1>2
  <2>1. /\ f \in [0 .. n - 1 -> S]
        /\ f[0] = base /\ \A j \in 1 .. n - 1 : f[j] = step[f[j - 1], j]
    BY <2>0 DEF Iterates
  <2> DEFINE longer == [j \in 0 .. n |-> IF j = n THEN step[f[n - 1], n] ELSE f[j]]
  <2>2. n - 1 \in 0 .. n - 1 /\ n \in 0 .. N
    OBVIOUS
  <2>3. step[f[n - 1], n] \in S
    BY <2>1, <2>2
  <2>4. longer \in [0 .. n -> S]
    <3>1. \A j \in 0 .. n : j # n => j \in 0 .. n - 1
      OBVIOUS
    <3> QED
      BY <2>1, <2>3, <3>1
  <2>5. longer[0] = base
    <3>1. 0 \in 0 .. n /\ 0 # n
      OBVIOUS
    <3> QED
      BY <2>1, <3>1
  <2>6. \A j \in 1 .. n : longer[j] = step[longer[j - 1], j]
    <3> SUFFICES ASSUME NEW j \in 1 .. n PROVE longer[j] = step[longer[j - 1], j]
      OBVIOUS
    <3>1. j - 1 \in 0 .. n /\ j - 1 # n /\ j \in 0 .. n
      OBVIOUS
    <3>2. longer[j - 1] = f[j - 1]
      BY <3>1
    <3>3. CASE j = n
      BY <3>1, <3>2, <3>3
    <3>4. CASE j # n
      <4>1. j \in 1 .. n - 1
        BY <3>4
      <4> QED
        BY <2>1, <3>1, <3>2, <3>4, <4>1
    <3> QED
      BY <3>3, <3>4
  <2> HIDE DEF longer
  <2>7. Iterates(longer, n, S, base, step)
    BY <2>4, <2>5, <2>6 DEF Iterates
  <2> QED
    BY <2>2, <2>7
<1> HIDE DEF Exists
<1>3. \A n \in 0 .. N : n \in T
  <2> HIDE DEF T
  <2> QED
    BY <1>1, <1>2, InductionUpTo
<1>4. Exists(N)
  BY <1>3
<1> QED
  BY <1>4 DEF Exists

-----------------------------------------------------------------------------
(* The scalars of a text. *)

\* A scalar's bytes end here.
Ending(s, j) == j = Len(s) \/ s[j + 1] # Continuation

\* ends are the endings among the first n bytes, in their order.
EndsUpTo(s, n, ends) ==
    /\ ends \in Seq(Nat)
    /\ \A k \in 1 .. Len(ends) : ends[k] \in 1 .. n /\ Ending(s, ends[k])
    /\ \A i, k \in 1 .. Len(ends) : i < k => ends[i] < ends[k]
    /\ \A j \in 1 .. n : Ending(s, j) => \E k \in 1 .. Len(ends) : ends[k] = j

LEMMA AppendsEnding ==
    ASSUME NEW s, NEW n \in Nat \ {0}, NEW ends, EndsUpTo(s, n - 1, ends)
    PROVE  EndsUpTo(s, n, IF Ending(s, n) THEN Append(ends, n) ELSE ends)
<1>1. Len(ends) \in Nat /\ ends \in Seq(Nat)
  BY DEF EndsUpTo
<1>2. CASE ~Ending(s, n)
  <2>1. \A j \in 1 .. n : Ending(s, j) => j \in 1 .. n - 1
    BY <1>2
  <2>2. \A k \in 1 .. Len(ends) : ends[k] \in 1 .. n
    BY DEF EndsUpTo
  <2> QED
    BY <1>1, <1>2, <2>1, <2>2 DEF EndsUpTo
<1>3. CASE Ending(s, n)
  <2> DEFINE longer == Append(ends, n)
  <2>1. /\ longer \in Seq(Nat) /\ Len(longer) = Len(ends) + 1
        /\ longer[Len(ends) + 1] = n
        /\ \A k \in 1 .. Len(ends) : longer[k] = ends[k]
    BY <1>1, AppendProperties
  <2> HIDE DEF longer
  <2>2. \A k \in 1 .. Len(longer) : k = Len(ends) + 1 \/ k \in 1 .. Len(ends)
    BY <1>1, <2>1
  <2>3. \A k \in 1 .. Len(longer) : longer[k] \in 1 .. n /\ Ending(s, longer[k])
    <3> SUFFICES ASSUME NEW k \in 1 .. Len(longer)
                 PROVE  longer[k] \in 1 .. n /\ Ending(s, longer[k])
      OBVIOUS
    <3>1. CASE k = Len(ends) + 1
      BY <1>3, <2>1, <3>1
    <3>2. CASE k \in 1 .. Len(ends)
      <4>1. ends[k] \in 1 .. n - 1 /\ Ending(s, ends[k])
        BY <3>2 DEF EndsUpTo
      <4> QED
        BY <2>1, <3>2, <4>1
    <3> QED
      BY <2>2, <3>1, <3>2
  <2>4. \A i, k \in 1 .. Len(longer) : i < k => longer[i] < longer[k]
    <3> SUFFICES ASSUME NEW i \in 1 .. Len(longer), NEW k \in 1 .. Len(longer), i < k
                 PROVE  longer[i] < longer[k]
      OBVIOUS
    <3>1. i \in 1 .. Len(ends)
      BY <1>1, <2>1
    <3>2. longer[i] = ends[i] /\ ends[i] \in 1 .. n - 1
      BY <2>1, <3>1 DEF EndsUpTo
    <3>3. CASE k = Len(ends) + 1
      BY <2>1, <3>2, <3>3
    <3>4. CASE k \in 1 .. Len(ends)
      BY <2>1, <3>1, <3>2, <3>4 DEF EndsUpTo
    <3> QED
      BY <2>2, <3>3, <3>4
  <2>5. \A j \in 1 .. n : Ending(s, j) => \E k \in 1 .. Len(longer) : longer[k] = j
    <3> SUFFICES ASSUME NEW j \in 1 .. n, Ending(s, j)
                 PROVE  \E k \in 1 .. Len(longer) : longer[k] = j
      OBVIOUS
    <3>1. CASE j = n
      <4>1. Len(ends) + 1 \in 1 .. Len(longer)
        BY <1>1, <2>1
      <4> QED
        BY <2>1, <3>1, <4>1
    <3>2. CASE j # n
      <4>1. j \in 1 .. n - 1
        BY <3>2
      <4>2. PICK k \in 1 .. Len(ends) : ends[k] = j
        BY <4>1 DEF EndsUpTo
      <4>3. k \in 1 .. Len(longer)
        BY <1>1, <2>1
      <4> QED
        BY <2>1, <4>2, <4>3
    <3> QED
      BY <3>1, <3>2
  <2>6. EndsUpTo(s, n, longer)
    BY <2>1, <2>3, <2>4, <2>5 DEF EndsUpTo
  <2> QED
    BY <1>3, <2>6 DEF longer
<1> QED
  BY <1>2, <1>3

LEMMA EndsFacts ==
    ASSUME NEW s \in Seq(Byte)
    PROVE  EndsUpTo(s, Len(s), ScalarEnds(s))
<1> DEFINE N == Len(s)
           Rec(f) == f = [j \in 0 .. N |->
                            IF j = 0 THEN <<>>
                            ELSE IF j = N \/ s[j + 1] # Continuation THEN Append(f[j - 1], j)
                            ELSE f[j - 1]]
           grow == [p \in Seq(Nat) \X (1 .. N) |->
                        IF Ending(s, p[2]) THEN Append(p[1], p[2]) ELSE p[1]]
           ends == CHOOSE f : Rec(f)
<1>1. N \in Nat /\ <<>> \in Seq(Nat)
  BY LenProperties, EmptySeq
<1>2. grow \in [Seq(Nat) \X (1 .. N) -> Seq(Nat)]
  <2> SUFFICES ASSUME NEW e \in Seq(Nat), NEW j \in 1 .. N
               PROVE  (IF Ending(s, j) THEN Append(e, j) ELSE e) \in Seq(Nat)
    OBVIOUS
  <2>1. j \in Nat
    BY <1>1
  <2> QED
    BY <2>1, AppendProperties
<1>3. ScalarEnds(s) = ends[N]
  BY DEF ScalarEnds
<1>4. \E f : Rec(f)
  <2> DEFINE M == N
             T == Seq(Nat)
             none == <<>>
  <2>1. \A e \in T : \A j \in 1 .. N :
            grow[e, j] = IF j = N \/ s[j + 1] # Continuation THEN Append(e, j) ELSE e
    BY DEF Ending
  <2>2. grow \in [T \X (1 .. M) -> T] /\ none \in T /\ M \in Nat
    BY <1>1, <1>2
  <2> HIDE DEF grow, M, T, none
  <2>3. PICK f : Iterates(f, M, T, none, grow)
    BY <2>2, IterationExists
  <2>4. /\ f \in [0 .. M -> T]
        /\ f[0] = none /\ \A j \in 1 .. M : f[j] = grow[f[j - 1], j]
    BY <2>3 DEF Iterates
  <2> HIDE DEF N
  <2>5. ASSUME NEW j \in 0 .. N, j # 0
        PROVE  f[j] = IF j = N \/ s[j + 1] # Continuation THEN Append(f[j - 1], j)
                      ELSE f[j - 1]
    <3>1. j \in 1 .. N /\ j - 1 \in 0 .. N
      BY <1>1, <2>5
    <3> QED
      BY <2>1, <2>4, <3>1 DEF M
  <2>6. f = [j \in 0 .. N |-> f[j]] /\ f[0] = <<>>
    BY <2>4 DEF M, none
  <2>7. Rec(f)
    BY <2>5, <2>6
  <2> HIDE DEF Rec
  <2> QED
    BY <2>7
<1>5. Rec(ends)
  <2> HIDE DEF Rec
  <2> QED
    BY <1>4
<1> HIDE DEF ends, grow
<1> DEFINE Good == {n \in 0 .. N : EndsUpTo(s, n, ends[n])}
<1>6. 0 \in Good
  <2>1. ends[0] = <<>> /\ 0 \in 0 .. N
    BY <1>1, <1>5
  <2>2. EndsUpTo(s, 0, <<>>)
    BY <1>1 DEF EndsUpTo
  <2> QED
    BY <2>1, <2>2
<1>7. ASSUME NEW n \in 1 .. N, n - 1 \in Good PROVE n \in Good
  <2>1. n \in 0 .. N /\ n # 0 /\ n \in Nat \ {0}
    BY <1>1
  <2>2. ends[n] = IF n = N \/ s[n + 1] # Continuation THEN Append(ends[n - 1], n)
                  ELSE ends[n - 1]
    BY <1>5, <2>1
  <2>3. ends[n] = IF Ending(s, n) THEN Append(ends[n - 1], n) ELSE ends[n - 1]
    BY <2>2 DEF Ending
  <2>4. EndsUpTo(s, n - 1, ends[n - 1])
    BY <1>7
  <2>5. EndsUpTo(s, n, IF Ending(s, n) THEN Append(ends[n - 1], n) ELSE ends[n - 1])
    BY <2>1, <2>4, AppendsEnding
  <2> QED
    BY <2>1, <2>3, <2>5
<1>8. \A n \in 0 .. N : n \in Good
  <2> HIDE DEF Good
  <2> QED
    BY <1>1, <1>6, <1>7, InductionUpTo
<1>9. N \in 0 .. N
  BY <1>1
<1> QED
  BY <1>3, <1>8, <1>9

\* Only one sequence is that of the endings.
LEMMA EndsAgree ==
    ASSUME NEW s, NEW n \in Nat, NEW e, NEW f, EndsUpTo(s, n, e), EndsUpTo(s, n, f)
    PROVE  \A k \in 1 .. Len(e) : k \in 1 .. Len(f) /\ f[k] = e[k]
<1> DEFINE Failures == {k \in 1 .. Len(e) : ~(k \in 1 .. Len(f) /\ f[k] = e[k])}
<1> SUFFICES ASSUME Failures # {} PROVE FALSE
  OBVIOUS
<1>1. /\ Len(e) \in Nat /\ Len(f) \in Nat
      /\ \A k \in 1 .. Len(e) : e[k] \in 1 .. n /\ Ending(s, e[k])
      /\ \A k \in 1 .. Len(f) : f[k] \in 1 .. n /\ Ending(s, f[k])
      /\ \A i, k \in 1 .. Len(e) : i < k => e[i] < e[k]
      /\ \A i, k \in 1 .. Len(f) : i < k => f[i] < f[k]
  BY DEF EndsUpTo
<1>2. Failures \in SUBSET Nat
  OBVIOUS
<1>3. PICK k \in Failures : \A y \in Failures : k <= y
  <2> HIDE DEF Failures
  <2> QED
    BY <1>2, LeastFailure
<1>4. k \in 1 .. Len(e) /\ ~(k \in 1 .. Len(f) /\ f[k] = e[k])
  BY <1>3
<1>5. \A i \in 1 .. Len(e) : i < k => i \in 1 .. Len(f) /\ f[i] = e[i]
  <2> SUFFICES ASSUME NEW i \in 1 .. Len(e), i < k, i \in Failures PROVE FALSE
    OBVIOUS
  <2>1. k <= i
    BY <1>3
  <2> QED
    BY <1>1, <1>4, <2>1
<1> HIDE DEF Failures
<1>6. PICK m \in 1 .. Len(f) : f[m] = e[k]
  BY <1>1, <1>4 DEF EndsUpTo
<1>7. ~(m < k)
  <2> SUFFICES ASSUME m < k PROVE FALSE
    OBVIOUS
  <2>1. m \in 1 .. Len(e)
    BY <1>1, <1>4
  <2>2. f[m] = e[m] /\ e[m] < e[k]
    BY <1>1, <1>4, <1>5, <2>1
  <2> QED
    BY <1>1, <1>4, <1>6, <2>1, <2>2
<1>8. m # k
  BY <1>4, <1>6
<1>9. k < m /\ k \in 1 .. Len(f)
  BY <1>1, <1>4, <1>7, <1>8
<1>10. PICK p \in 1 .. Len(e) : e[p] = f[k]
  BY <1>1, <1>9 DEF EndsUpTo
<1>11. f[k] < e[k]
  BY <1>1, <1>6, <1>9
<1>12. p < k
  <2> SUFFICES ASSUME ~(p < k) PROVE FALSE
    OBVIOUS
  <2>1. p = k \/ k < p
    BY <1>1, <1>4
  <2>2. k < p => e[k] < e[p]
    BY <1>1, <1>4
  <2>3. e[k] \in Nat /\ e[p] \in Nat
    BY <1>1, <1>4
  <2> QED
    BY <1>10, <1>11, <2>1, <2>2, <2>3
<1>13. p \in 1 .. Len(f) /\ f[p] = e[p]
  BY <1>5, <1>12
<1>14. f[p] < f[k]
  BY <1>1, <1>9, <1>12, <1>13
<1> QED
  BY <1>1, <1>9, <1>10, <1>13, <1>14

LEMMA EndsUnique ==
    ASSUME NEW s, NEW n \in Nat, NEW e, NEW f, EndsUpTo(s, n, e), EndsUpTo(s, n, f)
    PROVE  e = f
<1>1. e \in Seq(Nat) /\ f \in Seq(Nat) /\ Len(e) \in Nat /\ Len(f) \in Nat
  BY DEF EndsUpTo
<1>2. \A k \in 1 .. Len(e) : k \in 1 .. Len(f) /\ f[k] = e[k]
  BY EndsAgree
<1>3. \A k \in 1 .. Len(f) : k \in 1 .. Len(e)
  BY EndsAgree
<1>4. Len(e) <= Len(f)
  <2>1. Len(e) # 0 => Len(e) \in 1 .. Len(e)
    BY <1>1
  <2> QED
    BY <1>1, <1>2, <2>1
<1>5. Len(f) <= Len(e)
  <2>1. Len(f) # 0 => Len(f) \in 1 .. Len(f)
    BY <1>1
  <2> QED
    BY <1>1, <1>3, <2>1
<1>6. Len(e) = Len(f)
  BY <1>1, <1>4, <1>5
<1> QED
  BY <1>1, <1>2, <1>6, SeqEqual

\* A place where no scalar is cut.
Boundary(s, j) == j \in 0 .. Len(s) /\ (j # 0 => Ending(s, j))

LEMMA EndsAreBoundaries ==
    ASSUME NEW s \in Seq(Byte)
    PROVE  /\ ScalarEnds(s) \in Seq(Nat) /\ Len(ScalarEnds(s)) \in Nat
           /\ \A k \in 0 .. Len(ScalarEnds(s)) :
                EndOf(ScalarEnds(s), k) \in Nat /\ Boundary(s, EndOf(ScalarEnds(s), k))
           /\ \A i, k \in 0 .. Len(ScalarEnds(s)) :
                i < k => EndOf(ScalarEnds(s), i) < EndOf(ScalarEnds(s), k)
           /\ \A j : Boundary(s, j) =>
                \E k \in 0 .. Len(ScalarEnds(s)) : EndOf(ScalarEnds(s), k) = j
<1> DEFINE E == ScalarEnds(s)
<1>1. EndsUpTo(s, Len(s), E) /\ Len(s) \in Nat
  BY EndsFacts, LenProperties
<1> HIDE DEF E
<1>2. E \in Seq(Nat) /\ Len(E) \in Nat
  BY <1>1 DEF EndsUpTo
<1>3. \A k \in 0 .. Len(E) : EndOf(E, k) \in Nat /\ Boundary(s, EndOf(E, k))
  <2> SUFFICES ASSUME NEW k \in 0 .. Len(E)
               PROVE  EndOf(E, k) \in Nat /\ Boundary(s, EndOf(E, k))
    OBVIOUS
  <2>1. CASE k = 0
    BY <1>1, <2>1 DEF EndOf, Boundary
  <2>2. CASE k # 0
    <3>1. k \in 1 .. Len(E)
      BY <1>2, <2>2
    <3>2. E[k] \in 1 .. Len(s) /\ Ending(s, E[k])
      BY <1>1, <3>1 DEF EndsUpTo
    <3> QED
      BY <1>1, <2>2, <3>2 DEF EndOf, Boundary
  <2> QED
    BY <2>1, <2>2
<1>4. \A i, k \in 0 .. Len(E) : i < k => EndOf(E, i) < EndOf(E, k)
  <2> SUFFICES ASSUME NEW i \in 0 .. Len(E), NEW k \in 0 .. Len(E), i < k
               PROVE  EndOf(E, i) < EndOf(E, k)
    OBVIOUS
  <2>1. k \in 1 .. Len(E)
    BY <1>2
  <2>2. EndOf(E, k) = E[k] /\ E[k] \in 1 .. Len(s)
    BY <1>1, <2>1 DEF EndOf, EndsUpTo
  <2>3. CASE i = 0
    BY <1>1, <2>2, <2>3 DEF EndOf
  <2>4. CASE i # 0
    <3>1. i \in 1 .. Len(E) /\ EndOf(E, i) = E[i]
      BY <1>2, <2>4 DEF EndOf
    <3> QED
      BY <1>1, <2>1, <2>2, <3>1 DEF EndsUpTo
  <2> QED
    BY <2>3, <2>4
<1>5. ASSUME NEW j, Boundary(s, j) PROVE \E k \in 0 .. Len(E) : EndOf(E, k) = j
  <2>1. CASE j = 0
    BY <1>2, <2>1 DEF EndOf
  <2>2. CASE j # 0
    <3>1. j \in 1 .. Len(s) /\ Ending(s, j)
      BY <1>1, <1>5, <2>2 DEF Boundary
    <3>2. PICK k \in 1 .. Len(E) : E[k] = j
      BY <1>1, <3>1 DEF EndsUpTo
    <3>3. k \in 0 .. Len(E) /\ EndOf(E, k) = j
      BY <1>2, <3>2 DEF EndOf
    <3> QED
      BY <3>3
  <2> QED
    BY <2>1, <2>2
<1> QED
  BY <1>2, <1>3, <1>4, <1>5 DEF E

LEMMA ScalarsFacts ==
    ASSUME NEW s \in Seq(Byte)
    PROVE  /\ ScalarsOf(s) \in Seq(Byte) /\ Len(ScalarsOf(s)) = Len(ScalarEnds(s))
           /\ \A k \in 1 .. Len(ScalarEnds(s)) :
                ScalarsOf(s)[k] = s[EndOf(ScalarEnds(s), k - 1) + 1]
<1> DEFINE E == ScalarEnds(s)
           scalars == [k \in 1 .. Len(E) |-> s[EndOf(E, k - 1) + 1]]
<1>1. /\ E \in Seq(Nat) /\ Len(E) \in Nat /\ Len(s) \in Nat
      /\ \A k \in 0 .. Len(E) : EndOf(E, k) \in Nat /\ Boundary(s, EndOf(E, k))
      /\ \A i, k \in 0 .. Len(E) : i < k => EndOf(E, i) < EndOf(E, k)
  BY EndsAreBoundaries, LenProperties
<1>2. ScalarsOf(s) = [k \in DOMAIN E |-> s[IF k = 1 THEN 1 ELSE E[k - 1] + 1]]
  BY DEF ScalarsOf
<1> HIDE DEF E
<1>3. DOMAIN E = 1 .. Len(E)
  BY <1>1
<1>4. \A k \in 1 .. Len(E) : s[IF k = 1 THEN 1 ELSE E[k - 1] + 1] = s[EndOf(E, k - 1) + 1]
  <2> SUFFICES ASSUME NEW k \in 1 .. Len(E)
               PROVE  (IF k = 1 THEN 1 ELSE E[k - 1] + 1) = EndOf(E, k - 1) + 1
    OBVIOUS
  <2>1. k = 1 <=> k - 1 = 0
    BY <1>1
  <2> QED
    BY <2>1 DEF EndOf
<1>5. ScalarsOf(s) = scalars
  BY <1>2, <1>3, <1>4
<1>6. \A k \in 1 .. Len(E) : s[EndOf(E, k - 1) + 1] \in Byte
  <2> SUFFICES ASSUME NEW k \in 1 .. Len(E) PROVE s[EndOf(E, k - 1) + 1] \in Byte
    OBVIOUS
  <2>1. k \in 0 .. Len(E) /\ k - 1 \in 0 .. Len(E) /\ k - 1 < k
    BY <1>1
  <2>2. EndOf(E, k - 1) < EndOf(E, k) /\ EndOf(E, k) \in 0 .. Len(s) /\ EndOf(E, k - 1) \in Nat
    BY <1>1, <2>1 DEF Boundary
  <2>3. EndOf(E, k - 1) + 1 \in 1 .. Len(s)
    BY <1>1, <2>2
  <2> QED
    BY <2>3, ElementOfSeq
<1>7. scalars \in [1 .. Len(E) -> Byte]
  BY <1>6
<1>8. scalars \in Seq(Byte) /\ Len(scalars) = Len(E)
  <2> DEFINE m == Len(E)
  <2>1. scalars \in [1 .. m -> Byte] /\ m \in Nat
    BY <1>1, <1>7
  <2> HIDE DEF scalars, m
  <2>2. scalars \in Seq(Byte)
    BY <2>1, SeqDef
  <2>3. Len(scalars) = m
    BY <2>1, <2>2, LenProperties
  <2> QED
    BY <2>2, <2>3 DEF m
<1>9. \A k \in 1 .. Len(E) : scalars[k] = s[EndOf(E, k - 1) + 1]
  OBVIOUS
<1> HIDE DEF scalars
<1> QED
  BY <1>5, <1>8, <1>9 DEF E

\* The scalars of a part that cuts none.
LEMMA ScalarsOfPart ==
    ASSUME NEW s \in Seq(Byte),
           NEW i \in 0 .. Len(ScalarEnds(s)), NEW l \in i + 1 .. Len(ScalarEnds(s))
    PROVE  ScalarsOf(SubSeq(s, EndOf(ScalarEnds(s), i) + 1, EndOf(ScalarEnds(s), l)))
                = SubSeq(ScalarsOf(s), i + 1, l)
<1> DEFINE E == ScalarEnds(s)
           a == EndOf(E, i)
           b == EndOf(E, l)
           t == SubSeq(s, a + 1, b)
           part == [k \in 1 .. l - i |-> EndOf(E, i + k) - a]
<1>1. /\ E \in Seq(Nat) /\ Len(E) \in Nat /\ Len(s) \in Nat
      /\ \A k \in 0 .. Len(E) : EndOf(E, k) \in Nat /\ Boundary(s, EndOf(E, k))
      /\ \A j, k \in 0 .. Len(E) : j < k => EndOf(E, j) < EndOf(E, k)
      /\ \A j : Boundary(s, j) => \E k \in 0 .. Len(E) : EndOf(E, k) = j
  BY EndsAreBoundaries, LenProperties
<1>2. i \in 0 .. Len(E) /\ l \in i + 1 .. Len(E)
  OBVIOUS
<1> HIDE DEF E
<1>3. l \in 0 .. Len(E) /\ i < l /\ i \in Nat /\ l \in Nat
  BY <1>1, <1>2
<1>4. a \in Nat /\ b \in Nat /\ a < b /\ b <= Len(s) /\ Ending(s, b)
  BY <1>1, <1>2, <1>3 DEF Boundary
<1> HIDE DEF a, b
<1>5. /\ t \in Seq(Byte) /\ Len(t) = b - a
      /\ \A j \in 1 .. b - a : t[j] = s[a + j]
  <2>1. \A j \in a + 1 .. b : s[j] \in Byte
    <3>1. \A j \in a + 1 .. b : j \in 1 .. Len(s)
      BY <1>1, <1>4
    <3> QED
      BY <3>1, ElementOfSeq
  <2>2. a + 1 \in Int /\ b \in Int /\ a + 1 <= b /\ b - (a + 1) + 1 = b - a
    BY <1>4
  <2>3. /\ SubSeq(s, a + 1, b) \in Seq(Byte)
        /\ Len(SubSeq(s, a + 1, b)) = b - (a + 1) + 1
        /\ \A j \in 1 .. b - (a + 1) + 1 : SubSeq(s, a + 1, b)[j] = s[(a + 1) + j - 1]
    BY <2>1, <2>2, SubSeqProperties
  <2>4. \A j \in 1 .. b - a : (a + 1) + j - 1 = a + j
    BY <1>4
  <2> QED
    BY <2>2, <2>3, <2>4
<1> HIDE DEF t
<1>6. \A j \in 1 .. b - a : Ending(t, j) <=> Ending(s, a + j)
  <2> SUFFICES ASSUME NEW j \in 1 .. b - a PROVE Ending(t, j) <=> Ending(s, a + j)
    OBVIOUS
  <2>1. CASE j = b - a
    <3>1. a + j = b
      BY <1>4, <2>1
    <3> QED
      BY <1>4, <1>5, <2>1, <3>1 DEF Ending
  <2>2. CASE j # b - a
    <3>1. j + 1 \in 1 .. b - a /\ a + (j + 1) = a + j + 1 /\ a + j # Len(s)
      BY <1>1, <1>4, <2>2
    <3>2. t[j + 1] = s[a + j + 1]
      BY <1>5, <3>1
    <3> QED
      BY <1>5, <2>2, <3>1, <3>2 DEF Ending
  <2> QED
    BY <2>1, <2>2
<1>7. \A k \in 1 .. l - i : i + k \in 0 .. Len(E) /\ part[k] = EndOf(E, i + k) - a
  BY <1>1, <1>2, <1>3
<1>8. part \in Seq(Nat) /\ Len(part) = l - i
  <2>1. l - i \in Nat
    BY <1>3
  <2>2. \A k \in 1 .. l - i : part[k] \in Nat
    <3> SUFFICES ASSUME NEW k \in 1 .. l - i PROVE part[k] \in Nat
      OBVIOUS
    <3>1. i < i + k
      BY <1>3
    <3>2. a < EndOf(E, i + k) /\ EndOf(E, i + k) \in Nat
      BY <1>1, <1>2, <1>7, <3>1 DEF a
    <3> QED
      BY <1>4, <1>7, <3>2
  <2>3. part \in [1 .. l - i -> Nat]
    <3>1. part = [k \in 1 .. l - i |-> part[k]]
      OBVIOUS
    <3> HIDE DEF part
    <3> QED
      BY <2>2, <3>1
  <2> HIDE DEF part
  <2> QED
    BY <2>1, <2>3, SeqDef, LenProperties
<1> HIDE DEF part
<1>9. EndsUpTo(t, b - a, part)
  <2>1. \A k \in 1 .. Len(part) : part[k] \in 1 .. b - a /\ Ending(t, part[k])
    <3> SUFFICES ASSUME NEW k \in 1 .. l - i
                 PROVE  part[k] \in 1 .. b - a /\ Ending(t, part[k])
      BY <1>8
    <3>1. i < i + k /\ (i + k = l \/ i + k < l)
      BY <1>3
    <3>2. a < EndOf(E, i + k) /\ EndOf(E, i + k) \in Nat /\ Boundary(s, EndOf(E, i + k))
      BY <1>1, <1>2, <1>7, <3>1 DEF a
    <3>3. EndOf(E, i + k) <= b
      <4>1. i + k < l => EndOf(E, i + k) < b
        BY <1>1, <1>3, <1>7 DEF b
      <4> QED
        BY <1>4, <3>1, <3>2, <4>1 DEF b
    <3>4. part[k] \in 1 .. b - a /\ a + part[k] = EndOf(E, i + k)
      <4> DEFINE c == EndOf(E, i + k)
      <4>1. part[k] = c - a
        BY <1>7
      <4>2. c \in Nat /\ a < c /\ c <= b
        BY <3>2, <3>3
      <4> HIDE DEF c
      <4>3. c - a \in 1 .. b - a /\ a + (c - a) = c
        BY <1>4, <4>2
      <4> QED
        BY <4>1, <4>3 DEF c
    <3>5. Ending(s, EndOf(E, i + k))
      BY <1>4, <3>2 DEF Boundary
    <3> QED
      BY <1>6, <3>4, <3>5
  <2>2. \A j, k \in 1 .. Len(part) : j < k => part[j] < part[k]
    <3> SUFFICES ASSUME NEW j \in 1 .. l - i, NEW k \in 1 .. l - i, j < k
                 PROVE  part[j] < part[k]
      BY <1>8
    <3>1. i + j < i + k
      BY <1>3
    <3>2. /\ EndOf(E, i + j) < EndOf(E, i + k)
          /\ EndOf(E, i + j) \in Nat /\ EndOf(E, i + k) \in Nat
      BY <1>1, <1>7, <3>1
    <3> QED
      BY <1>4, <1>7, <3>2
  <2>3. \A j \in 1 .. b - a : Ending(t, j) => \E k \in 1 .. Len(part) : part[k] = j
    <3> SUFFICES ASSUME NEW j \in 1 .. b - a, Ending(s, a + j)
                 PROVE  \E k \in 1 .. l - i : part[k] = j
      BY <1>6, <1>8
    <3>1. Boundary(s, a + j)
      BY <1>1, <1>4 DEF Boundary
    <3>2. PICK m \in 0 .. Len(E) : EndOf(E, m) = a + j
      BY <1>1, <3>1
    <3>3. i < m
      <4>1. m < i => EndOf(E, m) < a
        BY <1>1, <1>2 DEF a
      <4>2. m = i => EndOf(E, m) = a
        BY DEF a
      <4> QED
        BY <1>1, <1>3, <1>4, <3>2, <4>1, <4>2
    <3>4. ~(l < m)
      <4>1. l < m => b < EndOf(E, m)
        BY <1>1, <1>3 DEF b
      <4> QED
        BY <1>4, <3>2, <4>1
    <3>5. m - i \in 1 .. l - i /\ i + (m - i) = m
      BY <1>1, <1>3, <3>3, <3>4
    <3>6. part[m - i] = j
      BY <1>4, <1>7, <3>2, <3>5
    <3> QED
      BY <3>5, <3>6
  <2> QED
    BY <1>8, <2>1, <2>2, <2>3 DEF EndsUpTo
<1>10. ScalarEnds(t) = part
  <2>1. EndsUpTo(t, b - a, ScalarEnds(t)) /\ b - a \in Nat
    BY <1>4, <1>5, EndsFacts
  <2> QED
    BY <1>9, <2>1, EndsUnique
<1>11. /\ ScalarsOf(t) \in Seq(Byte) /\ Len(ScalarsOf(t)) = l - i
       /\ \A k \in 1 .. l - i : ScalarsOf(t)[k] = t[EndOf(part, k - 1) + 1]
  BY <1>5, <1>8, <1>10, ScalarsFacts
<1>12. /\ ScalarsOf(s) \in Seq(Byte) /\ Len(ScalarsOf(s)) = Len(E)
       /\ \A k \in 1 .. Len(E) : ScalarsOf(s)[k] = s[EndOf(E, k - 1) + 1]
  BY ScalarsFacts DEF E
<1>13. /\ SubSeq(ScalarsOf(s), i + 1, l) \in Seq(Byte)
       /\ Len(SubSeq(ScalarsOf(s), i + 1, l)) = l - i
       /\ \A k \in 1 .. l - i : SubSeq(ScalarsOf(s), i + 1, l)[k] = ScalarsOf(s)[i + k]
  <2> DEFINE w == ScalarsOf(s)
  <2>1. \A j \in i + 1 .. l : w[j] \in Byte
    <3>1. \A j \in i + 1 .. l : j \in 1 .. Len(w)
      BY <1>1, <1>2, <1>3, <1>12
    <3> QED
      BY <1>12, <3>1, ElementOfSeq
  <2>2. i + 1 \in Int /\ l \in Int /\ i + 1 <= l /\ l - (i + 1) + 1 = l - i
    BY <1>3
  <2> HIDE DEF w
  <2>3. /\ SubSeq(w, i + 1, l) \in Seq(Byte)
        /\ Len(SubSeq(w, i + 1, l)) = l - (i + 1) + 1
        /\ \A j \in 1 .. l - (i + 1) + 1 : SubSeq(w, i + 1, l)[j] = w[(i + 1) + j - 1]
    BY <2>1, <2>2, SubSeqProperties
  <2>4. \A j \in 1 .. l - i : (i + 1) + j - 1 = i + j
    BY <1>3
  <2> QED
    BY <2>2, <2>3, <2>4 DEF w
<1>14. \A k \in 1 .. l - i : ScalarsOf(t)[k] = SubSeq(ScalarsOf(s), i + 1, l)[k]
  <2> SUFFICES ASSUME NEW k \in 1 .. l - i
               PROVE  t[EndOf(part, k - 1) + 1] = ScalarsOf(s)[i + k]
    BY <1>11, <1>13
  <2>1. i + k \in 1 .. Len(E) /\ (i + k) - 1 = i + (k - 1) /\ i + (k - 1) \in 0 .. Len(E)
    BY <1>1, <1>2, <1>3
  <2>2. ScalarsOf(s)[i + k] = s[EndOf(E, i + (k - 1)) + 1]
    BY <1>12, <2>1
  <2>3. EndOf(part, k - 1) = EndOf(E, i + (k - 1)) - a
    <3>1. CASE k = 1
      <4>1. k - 1 = 0 /\ i + (k - 1) = i
        BY <1>3, <3>1
      <4>2. EndOf(E, i) - a = 0 /\ EndOf(part, 0) = 0
        BY <1>4 DEF a, EndOf
      <4> QED
        BY <4>1, <4>2
    <3>2. CASE k # 1
      <4>1. k - 1 \in 1 .. l - i /\ k - 1 # 0
        BY <1>3, <3>2
      <4> QED
        BY <1>7, <4>1 DEF EndOf
    <3> QED
      BY <3>1, <3>2
  <2>4. i + (k - 1) < l /\ (i + (k - 1) = i \/ i < i + (k - 1))
    BY <1>3
  <2>5. /\ EndOf(E, i + (k - 1)) \in Nat /\ EndOf(E, i + (k - 1)) < b
        /\ a <= EndOf(E, i + (k - 1))
    <3>1. EndOf(E, i + (k - 1)) \in Nat /\ EndOf(E, i + (k - 1)) < EndOf(E, l)
      BY <1>1, <1>3, <2>1, <2>4
    <3>2. i < i + (k - 1) => EndOf(E, i) < EndOf(E, i + (k - 1))
      BY <1>1, <1>2, <2>1
    <3>3. a <= EndOf(E, i + (k - 1))
      BY <1>4, <2>4, <3>1, <3>2 DEF a
    <3> QED
      BY <3>1, <3>3 DEF b
  <2> DEFINE c == EndOf(E, i + (k - 1))
  <2>6. c - a + 1 \in 1 .. b - a /\ a + (c - a + 1) = c + 1
    <3> HIDE DEF c
    <3>1. c \in Nat /\ c < b /\ a <= c
      BY <2>5 DEF c
    <3> QED
      BY <1>4, <3>1
  <2> QED
    BY <1>5, <2>2, <2>3, <2>6
<1>15. ScalarsOf(t) = SubSeq(ScalarsOf(s), i + 1, l)
  BY <1>11, <1>13, <1>14, SeqEqual
<1> QED
  BY <1>15 DEF t, a, b, E

-----------------------------------------------------------------------------
(* Texts of whole scalars. *)

LEMMA WholeASCII ==
    ASSUME NEW s \in Seq(Byte), AllASCII(s)
    PROVE  WholeScalars(s)
<1>1. \A j \in 1 .. Len(s) : s[j] # Continuation
  <2>1. Continuation \in Nat /\ ASCIILimit \in Nat /\ \A j \in 1 .. Len(s) : s[j] \in Nat
    BY ByteAssumption, ScalarBytesAssumption, ASCIILimitAssumption, ElementOfSeq
  <2> QED
    BY <2>1, WholeScalarsAssumption DEF AllASCII
<1>2. DOMAIN s = 1 .. Len(s)
  BY LenProperties
<1> QED
  BY <1>1, <1>2 DEF WholeScalars

LEMMA WholeConcat ==
    ASSUME NEW s \in Seq(Byte), NEW t \in Seq(Byte), WholeScalars(s), WholeScalars(t)
    PROVE  WholeScalars(s \o t)
<1> DEFINE both == s \o t
           m == Len(s)
           n == Len(t)
<1>1. /\ m \in Nat /\ n \in Nat /\ DOMAIN s = 1 .. m /\ DOMAIN t = 1 .. n
  BY LenProperties
<1>2. DOMAIN both = 1 .. m + n
  BY ConcatProperties, LenProperties
<1>3. /\ \A j \in 1 .. m : both[j] = s[j]
      /\ \A j \in m + 1 .. m + n : both[j] = t[j - m] /\ j - m \in 1 .. n
  BY ConcatProperties, <1>1
<1> SUFFICES WholeScalars(both)
  OBVIOUS
<1> HIDE DEF both, m, n
<1> SUFFICES ASSUME NEW j \in 1 .. m + n, both[j] = Continuation
             PROVE  /\ j > 1 /\ both[j - 1] >= ASCIILimit
                    /\ j > 2 => ~(both[j - 1] = Continuation /\ both[j - 2] = Continuation)
  BY <1>2 DEF WholeScalars
<1>4. CASE j \in 1 .. m
  <2>1. j > 1 /\ s[j - 1] >= ASCIILimit
        /\ (j > 2 => ~(s[j - 1] = Continuation /\ s[j - 2] = Continuation))
    BY <1>1, <1>3, <1>4 DEF WholeScalars
  <2>2. j - 1 \in 1 .. m /\ (j > 2 => j - 2 \in 1 .. m)
    BY <1>1, <1>4, <2>1
  <2>3. both[j - 1] = s[j - 1] /\ (j > 2 => both[j - 2] = s[j - 2])
    BY <1>3, <2>2
  <2> QED
    BY <2>1, <2>3
<1>5. CASE j \in m + 1 .. m + n
  <2> DEFINE k == j - m
  <2>1. k \in 1 .. n /\ t[k] = Continuation
    BY <1>3, <1>5
  <2>2. k > 1 /\ t[k - 1] >= ASCIILimit
        /\ (k > 2 => ~(t[k - 1] = Continuation /\ t[k - 2] = Continuation))
    BY <1>1, <2>1 DEF WholeScalars
  <2>3. j - 1 \in m + 1 .. m + n /\ (j - 1) - m = k - 1
    BY <1>1, <1>5, <2>1, <2>2
  <2>4. both[j - 1] = t[k - 1]
    BY <1>3, <2>3
  <2>5. CASE k > 2
    <3>1. j - 2 \in m + 1 .. m + n /\ (j - 2) - m = k - 2
      BY <1>1, <1>5, <2>5
    <3>2. k - 2 \in 1 .. n /\ both[j - 2] = t[k - 2]
      BY <1>1, <1>3, <1>5, <2>5, <3>1
    <3> QED
      BY <1>1, <1>5, <2>2, <2>4, <2>5, <3>2
  <2>6. CASE k = 2
    <3>1. t[1] # Continuation /\ k - 1 = 1
      <4>1. 1 \in 1 .. n /\ k - 1 = 1
        BY <1>1, <2>1, <2>6
      <4> HIDE DEF k
      <4> QED
        BY <1>1, <4>1 DEF WholeScalars
    <3> QED
      BY <1>1, <1>5, <2>2, <2>4, <3>1
  <2> QED
    BY <1>1, <2>1, <2>2, <2>5, <2>6
<1>6. j \in 1 .. m \/ j \in m + 1 .. m + n
  BY <1>1
<1> QED
  BY <1>4, <1>5, <1>6

LEMMA WholePart ==
    ASSUME NEW s \in Seq(Byte), WholeScalars(s),
           NEW a \in 0 .. Len(s), Boundary(s, a), NEW b \in a .. Len(s)
    PROVE  WholeScalars(SubSeq(s, a + 1, b))
<1> DEFINE part == SubSeq(s, a + 1, b)
           n == b - a
<1>1. Len(s) \in Nat /\ n \in Nat /\ a \in Nat /\ DOMAIN s = 1 .. Len(s)
      /\ a + n = b /\ a + n <= Len(s)
  BY LenProperties
<1>2. /\ DOMAIN part = 1 .. n
      /\ \A j \in 1 .. n : part[j] = s[a + j]
  <2>1. \A j \in a + 1 .. b : s[j] \in Byte
    BY <1>1, ElementOfSeq
  <2>2. part \in Seq(Byte) /\ Len(part) = n
        /\ \A j \in 1 .. n : part[j] = s[(a + 1) + j - 1]
    BY <1>1, <2>1, SubSeqProperties
  <2>3. \A j \in 1 .. n : (a + 1) + j - 1 = a + j
    BY <1>1
  <2> QED
    BY <2>2, <2>3, LenProperties
<1> HIDE DEF part, n
<1> SUFFICES ASSUME NEW j \in 1 .. n, part[j] = Continuation
             PROVE  /\ j > 1 /\ part[j - 1] >= ASCIILimit
                    /\ j > 2 => ~(part[j - 1] = Continuation /\ part[j - 2] = Continuation)
  BY <1>2 DEF WholeScalars, part
<1>3. a + j \in 1 .. Len(s) /\ s[a + j] = Continuation
  BY <1>1, <1>2
<1>4. /\ a + j > 1 /\ s[(a + j) - 1] >= ASCIILimit
      /\ a + j > 2 => ~(s[(a + j) - 1] = Continuation /\ s[(a + j) - 2] = Continuation)
  BY <1>1, <1>3 DEF WholeScalars
<1>5. j > 1
  <2>1. ASSUME j = 1 PROVE FALSE
    <3>1. CASE a = 0
      BY <1>4, <2>1, <3>1
    <3>2. CASE a # 0
      <4>1. a # Len(s)
        <5> DEFINE m == Len(s)
        <5>1. m \in Nat /\ a + j \in 1 .. m /\ a \in Nat /\ j = 1
          BY <1>1, <1>3, <2>1
        <5> HIDE DEF m
        <5>2. a # m
          BY <5>1
        <5> QED
          BY <5>2 DEF m
      <4>2. s[a + 1] # Continuation
        BY <3>2, <4>1 DEF Boundary, Ending
      <4> QED
        BY <1>3, <2>1, <4>2
    <3> QED
      BY <3>1, <3>2
  <2> QED
    BY <2>1, <1>1
<1>6. j - 1 \in 1 .. n /\ a + (j - 1) = (a + j) - 1
  BY <1>1, <1>5
<1>7. part[j - 1] = s[(a + j) - 1]
  BY <1>2, <1>6
<1>8. j > 2 => j - 2 \in 1 .. n /\ a + (j - 2) = (a + j) - 2 /\ a + j > 2
  BY <1>1
<1>9. j > 2 => part[j - 2] = s[(a + j) - 2] /\ a + j > 2
  BY <1>2, <1>8
<1> QED
  BY <1>4, <1>5, <1>7, <1>9

\* A text ends with a scalar, and a scalar ends with an ASCII byte.
LEMMA ASCIIIsEnding ==
    ASSUME NEW s \in Seq(Byte), WholeScalars(s), NEW j \in 1 .. Len(s), s[j] < ASCIILimit
    PROVE  Boundary(s, j) /\ Boundary(s, j - 1)
<1>1. Len(s) \in Nat /\ DOMAIN s = 1 .. Len(s)
  BY LenProperties
<1>2. Continuation \in Nat /\ ASCIILimit \in Nat /\ \A i \in 1 .. Len(s) : s[i] \in Nat
  BY ByteAssumption, ScalarBytesAssumption, ASCIILimitAssumption, ElementOfSeq
<1>3. j # Len(s) => s[j + 1] # Continuation
  <2> SUFFICES ASSUME j # Len(s), s[j + 1] = Continuation PROVE FALSE
    OBVIOUS
  <2>1. j + 1 \in 1 .. Len(s) /\ (j + 1) - 1 = j
    <3> DEFINE m == Len(s)
    <3>1. m \in Nat /\ j \in 1 .. m /\ j # m
      BY <1>1
    <3> HIDE DEF m
    <3>2. j + 1 \in 1 .. m /\ (j + 1) - 1 = j
      BY <3>1
    <3> QED
      BY <3>2 DEF m
  <2>2. s[j] >= ASCIILimit
    BY <1>1, <2>1 DEF WholeScalars
  <2> QED
    BY <1>2, <2>2
<1>4. s[(j - 1) + 1] # Continuation
  BY <1>2, WholeScalarsAssumption
<1>5. j \in 0 .. Len(s) /\ j - 1 \in 0 .. Len(s)
  <2> DEFINE m == Len(s)
  <2>1. m \in Nat /\ j \in 1 .. m
    BY <1>1
  <2> HIDE DEF m
  <2>2. j \in 0 .. m /\ j - 1 \in 0 .. m
    BY <2>1
  <2> QED
    BY <2>2 DEF m
<1> QED
  BY <1>3, <1>4, <1>5 DEF Boundary, Ending

LEMMA WholeLabel ==
    ASSUME NEW s \in Seq(Byte), WholeScalars(s), NEW from \in LabelStarts(s)
    PROVE  WholeScalars(LabelAt(s, from))
<1>1. from \in 0 .. Len(s) /\ LabelEnd(s, from) \in from .. Len(s)
  BY LabelFacts
<1>2. Boundary(s, from)
  <2>1. CASE from = 0
    BY <1>1, <2>1 DEF Boundary
  <2>2. CASE from # 0
    <3>1. from \in 1 .. Len(s) /\ s[from] = Dot
      BY <2>2, LenProperties DEF LabelStarts, Dots
    <3> QED
      BY <3>1, ASCIIIsEnding, WholeScalarsAssumption
  <2> QED
    BY <2>1, <2>2
<1> QED
  BY <1>1, <1>2, WholePart DEF LabelAt

LEMMA WholeMapped ==
    ASSUME NEW c \in UnicodeScalar
    PROVE  WholeScalars(MappedBytes(c))
<1> DEFINE entry == cswift_idna_mapping_lookup(c)
<1>1. /\ entry.type \in 0 .. 4 /\ entry.mapped_utf8_bytes \in Seq(Byte)
      /\ entry.mapped_byte_count = Len(entry.mapped_utf8_bytes)
      /\ WholeScalars(entry.mapped_utf8_bytes)
  BY MappingTableAssumption, LookupTableAssumption, ScalarBytesAssumption, WholeScalarsAssumption
     DEF cswift_idna_mapping_lookup
<1>2. WholeScalars(MappedScalars(entry))
  <2> DEFINE s == entry.mapped_utf8_bytes
  <2>1. s \in Seq(Byte) /\ Len(s) \in Nat
    BY <1>1, LenProperties
  <2> HIDE DEF s
  <2>2. SubSeq(s, 1, Len(s)) = s
    BY <2>1, SubSeqFull
  <2> QED
    BY <1>1, <2>2 DEF MappedScalars, s
<1> HIDE DEF entry
<1>3. For(c).kind = "mapped" => WholeScalars(For(c).bytes)
  BY <1>1, <1>2 DEF For, entry, IDNA_RESULT_VALID, IDNA_RESULT_MAPPED,
     IDNA_RESULT_DEVIATION, IDNA_RESULT_DISALLOWED, IDNA_RESULT_IGNORED
<1>4. WholeScalars(<<>>)
  BY DEF WholeScalars
<1>5. WholeScalars(UTF8(c))
  <2>1. c # Continuation /\ c \in Nat /\ ASCIILimit \in Nat /\ Continuation \in Nat
        /\ Continuation >= ASCIILimit
    BY WholeScalarsAssumption, LookupTableAssumption, ASCIILimitAssumption,
       ScalarBytesAssumption, ByteAssumption
  <2>2. WholeScalars(<<c>>)
    BY <2>1 DEF WholeScalars
  <2>3. c >= ASCIILimit => WholeScalars(<<c, Continuation>>)
    BY <2>1 DEF WholeScalars
  <2>4. c >= ASCIILimit => WholeScalars(<<c, Continuation, Continuation>>)
    BY <2>1 DEF WholeScalars
  <2> QED
    BY <2>1, <2>2, <2>3, <2>4 DEF UTF8
<1> QED
  BY <1>3, <1>4, <1>5 DEF MappedBytes

\* A text mapped stays in a set that is closed, if all that is mapped does.
LEMMA MapTextStays ==
    ASSUME NEW d \in Seq(UnicodeScalar),
           NEW S \in SUBSET Seq(Byte), <<>> \in S, \A s, t \in S : s \o t \in S,
           \A j \in 1 .. Len(d) : MappedBytes(d[j]) \in S
    PROVE  MapText(d) \in S
<1> DEFINE N == Len(d)
           piece == [j \in 1 .. N |-> MappedBytes(d[j])]
<1>1. N \in Nat
  BY LenProperties
<1>2. \A j \in 1 .. N : piece[j] \in S
  OBVIOUS
<1>3. PICK text : MapText(d) = text[N] /\ Grows(text, N, piece)
  BY MapTextGrows
<1>7. Grows(text, N, piece)
  BY <1>3
<1> HIDE DEF N, piece
<1> DEFINE R == {j \in 0 .. N : text[j] \in S}
<1>4. 0 \in R
  <2>1. text[0] \in S /\ 0 \in 0 .. N
    BY <1>1, <1>7 DEF Grows
  <2> QED
    BY <2>1
<1>5. ASSUME NEW j \in 1 .. N, j - 1 \in R PROVE j \in R
  <2>1. text[j] = text[j - 1] \o piece[j]
    BY <1>7, Zenon DEF Grows
  <2>2. text[j - 1] \in S /\ piece[j] \in S
    BY <1>2, <1>5
  <2>3. text[j] \in S /\ j \in 0 .. N
    BY <1>1, <2>1, <2>2
  <2> QED
    BY <2>3
<1>6. N \in R
  <2> HIDE DEF R
  <2>1. \A j \in 0 .. N : j \in R
    BY <1>1, <1>4, <1>5, InductionUpTo
  <2> QED
    BY <1>1, <2>1
<1> QED
  BY <1>3, <1>6

LEMMA WholeMapText ==
    ASSUME NEW d \in Domains
    PROVE  WholeScalars(MapText(d))
<1> DEFINE S == {s \in Seq(Byte) : WholeScalars(s)}
<1>1. d \in Seq(UnicodeScalar) /\ \A j \in 1 .. Len(d) : d[j] \in UnicodeScalar
  BY DomainsAssumption, ElementOfSeq
<1>2. \A j \in 1 .. Len(d) : MappedBytes(d[j]) \in S
  BY <1>1, MappedFacts, WholeMapped
<1>3. <<>> \in S /\ \A s, t \in S : s \o t \in S
  <2>1. <<>> \in Seq(Byte) /\ WholeScalars(<<>>)
    BY DEF WholeScalars
  <2>2. \A s, t \in S : s \o t \in S
    BY WholeConcat, ConcatProperties
  <2> QED
    BY <2>1, <2>2
<1>4. S \in SUBSET Seq(Byte)
  OBVIOUS
<1> HIDE DEF S
<1>5. MapText(d) \in S
  BY <1>1, <1>2, <1>3, <1>4, MapTextStays
<1> QED
  BY <1>5 DEF S

LEMMA WholeNFC ==
    ASSUME NEW s \in Seq(Byte), WholeScalars(s)
    PROVE  WholeScalars(NFC(s))
  BY WholeScalarsAssumption DEF NFC

-----------------------------------------------------------------------------
(* What mainProcessing works on and what it leaves are whole scalars. *)

WholeText == WholeScalars(Text) /\ WholeScalars(Contents(newerBytes))

LEMMA InitWhole == Init => WholeText
  BY EmptyReads DEF Init, WholeText, Text, WholeScalars

LEMMA MapWhole == ASSUME IndInv, WholeText, Map PROVE WholeText'
<1>1. Text' = MapText(domain) /\ WholeScalars(MapText(domain))
  BY MapReads, WholeMapText DEF IndInv, Storage, Text
<1>2. newerBytes' = newerBytes
  BY DEF Map
<1> QED
  BY <1>1, <1>2 DEF WholeText

LEMMA NormaliseWhole == ASSUME IndInv, WholeText, Normalise PROVE WholeText'
<1>1. Contents(newBytes') = NFC(Text) /\ Text \in Seq(Byte)
  BY EnsureNFCReads, ContentsType DEF IndInv, Storage, Normalise, Text
<1>2. Contents(newerBytes') = <<>>
  <2>1. newerBytes' = WithPreferredCapacity(Count(newBytes'))
    BY DEF Normalise
  <2>2. \A n : Contents(WithPreferredCapacity(n)) = <<>>
    BY EmptyReads DEF WithPreferredCapacity, Contents, Heap, IsInline
  <2> QED
    BY <2>1, <2>2
<1>3. WholeScalars(NFC(Text)) /\ WholeScalars(<<>>)
  BY <1>1, WholeNFC DEF WholeText, WholeScalars
<1> QED
  BY <1>1, <1>2, <1>3 DEF WholeText, Text

LEMMA EndLabelWhole ==
    ASSUME WholeText, NEW output, NEW kinds, NEW converted,
           EndLabel(output, kinds, converted), WholeScalars(Contents(output))
    PROVE  WholeText'
  BY DEF EndLabel, WholeText, Text

\* The label and the output are whole, one behind the other too.
LEMMA LabelIsWhole ==
    ASSUME IndInv, WholeText, pc = "label"
    PROVE  /\ WholeScalars(Label)
           /\ \A b : LooseBuffer(b) /\ WholeScalars(Contents(b))
                => WholeScalars(Contents(AppendCopying(b, Label)))
<1>1. Label \in Seq(Byte)
  BY LabelType
<1>2. WholeScalars(Label)
  BY WholeLabel, ContentsType DEF IndInv, Storage, Labels, Label, Text, WholeText
<1> QED
  BY <1>1, <1>2, LooseAppend, LooseFacts, WholeConcat

LEMMA AppendedIsWhole ==
    ASSUME IndInv, WholeText, pc = "label", CallsDecode
    PROVE  WholeScalars(Contents(Appended))
<1>1. /\ Outcome.bytes \in Seq(Byte) /\ WholeScalars(Outcome.bytes)
      /\ Contents(Appended) = Contents(newerBytes) \o Outcome.bytes
  BY AppendedReads, WholeScalarsAssumption DEF CallsDecode, Outcome
<1>2. Contents(newerBytes) \in Seq(Byte) /\ WholeScalars(Contents(newerBytes))
  BY LooseFacts DEF IndInv, Storage, WholeText
<1> QED
  BY <1>1, <1>2, WholeConcat

LEMMA StepWhole == ASSUME IndInv, WholeText, [Next]_vars PROVE WholeText'
<1>1. CASE KeepLabel
  <2>1. WholeScalars(Contents(AppendCopying(newerBytes, Label)))
    BY <1>1, LabelIsWhole DEF KeepLabel, IndInv, Storage, WholeText
  <2> QED
    BY <1>1, <2>1, EndLabelWhole DEF KeepLabel
<1>2. CASE RefuseNonASCII
  BY <1>2, EndLabelWhole DEF RefuseNonASCII, WholeText
<1>3. CASE Decode
  BY <1>3, AppendedIsWhole, EndLabelWhole DEF Decode
<1>4. CASE DecodeFails
  <2>1. /\ LooseBuffer(Appended) /\ WholeScalars(Contents(Appended))
    BY <1>4, AppendedReads, AppendedIsWhole DEF DecodeFails
  <2>2. LooseBuffer(LeftByFailure) /\ WholeScalars(Contents(LeftByFailure))
    <3>1. LooseBuffer(RemoveAll(Appended, TRUE))
          /\ WholeScalars(Contents(RemoveAll(Appended, TRUE)))
      <4>1. WholeScalars(<<>>)
        BY DEF WholeScalars
      <4> QED
        BY <2>1, <4>1, LooseRemove
    <3> QED
      BY <2>1, <3>1 DEF LeftByFailure
  <2>3. WholeScalars(Contents(AppendCopying(LeftByFailure, Label)))
    BY <1>4, <2>2, LabelIsWhole DEF DecodeFails
  <2>4. \/ EndLabel(AppendCopying(LeftByFailure, Label), verifyValidLabel(Label, config), TRUE)
        \/ EndLabel(LeftByFailure, {"decodeFailed"}, FALSE)
    BY <1>4 DEF DecodeFails
  <2> QED
    BY <2>2, <2>3, <2>4, EndLabelWhole
<1>5. CASE AppendDot
  <2> DEFINE e == IF HasRoomForOne(newerBytes) THEN Dot ELSE InlineCapacity + 1
  <2>1. LooseBuffer(newerBytes) /\ ~WritesPastTuple(newerBytes) /\ Dot \in Byte
    BY <1>5, ScalarBytesAssumption DEF AppendDot, IndInv, Storage
  <2>2. Contents(newerBytes') = Contents(newerBytes) \o <<e>>
    BY <1>5, <2>1, LooseUnchecked DEF AppendDot
  <2>3. e \in Byte /\ e < ASCIILimit
    BY <2>1, WholeScalarsAssumption, ByteAssumption, InlineCapacityAssumption
  <2> HIDE DEF e
  <2>4. <<e>> \in Seq(Byte) /\ AllASCII(<<e>>)
    BY <2>3 DEF AllASCII
  <2>5. WholeScalars(Contents(newerBytes) \o <<e>>)
    BY <2>1, <2>4, LooseFacts, WholeASCII, WholeConcat DEF WholeText
  <2>6. Text' = Text
    BY <1>5 DEF AppendDot, Text
  <2> QED
    BY <2>2, <2>5, <2>6 DEF WholeText
<1>6. CASE UNCHANGED <<newBytes, newerBytes>>
  BY <1>6 DEF WholeText, Text
<1>7. QED
  BY <1>1, <1>2, <1>3, <1>4, <1>5, <1>6, MapWhole, NormaliseWhole
  DEF Next, NormaliseStops, DotPastTuple, DecodeUnwrapsNil, Finished, vars

-----------------------------------------------------------------------------
(* Texts in UTF-8. *)

\* The bytes of one scalar: itself, and as many continuations as its range
\* has.
LEMMA UTF8Facts ==
    ASSUME NEW c \in UnicodeScalar
    PROVE  /\ UTF8(c) \in Seq(Byte) /\ Len(UTF8(c)) \in 1 .. 3
           /\ c # Continuation /\ UTF8(c)[1] = c
           /\ \A l \in 2 .. Len(UTF8(c)) : UTF8(c)[l] = Continuation
           /\ c < ASCIILimit => Len(UTF8(c)) = 1
<1>1. c \in Byte /\ Continuation \in Byte /\ c # Continuation
  BY ScalarBytesAssumption, WholeScalarsAssumption
<1>2. c \in Nat /\ ASCIILimit \in Nat
  BY <1>1, ByteAssumption, ASCIILimitAssumption
<1>3. CASE c < ASCIILimit
  <2>1. UTF8(c) = <<c>>
    BY <1>2, <1>3 DEF UTF8
  <2> QED
    BY <1>1, <2>1
<1>4. CASE c >= ASCIILimit /\ c < 2048
  <2>1. UTF8(c) = <<c, Continuation>> /\ ~(c < ASCIILimit)
    BY <1>2, <1>4 DEF UTF8
  <2> QED
    BY <1>1, <2>1
<1>5. CASE ~(c < ASCIILimit) /\ ~(c >= ASCIILimit /\ c < 2048)
  <2>1. UTF8(c) = <<c, Continuation, Continuation>>
    BY <1>2, <1>5 DEF UTF8
  <2> QED
    BY <1>1, <1>5, <2>1
<1> QED
  BY <1>3, <1>4, <1>5

\* A scalar's bytes from one place to the next.
ScalarAt(s, j) ==
    LET next == j + Len(UTF8(s[j]))
    IN  /\ s[j] \in UnicodeScalar
        /\ next <= Len(s) + 1
        /\ \A l \in j + 1 .. next - 1 : s[l] = Continuation
        /\ next <= Len(s) => s[next] # Continuation

\* InUTF8, place by place.
LEMMA InUTF8Means ==
    ASSUME NEW s \in Seq(Byte)
    PROVE  InUTF8(s) <=> /\ s # <<>> => s[1] # Continuation
                         /\ \A j \in 1 .. Len(s) : s[j] # Continuation => ScalarAt(s, j)
<1>1. DOMAIN s = 1 .. Len(s)
  BY LenProperties
<1> QED
  BY <1>1 DEF InUTF8, ScalarAt

\* A scalar by itself is in UTF-8.
LEMMA ScalarInUTF8 ==
    ASSUME NEW c \in UnicodeScalar
    PROVE  InUTF8(UTF8(c))
<1> DEFINE s == UTF8(c)
           w == Len(UTF8(c))
<1>1. /\ s \in Seq(Byte) /\ Len(s) = w /\ w \in 1 .. 3 /\ c # Continuation /\ s[1] = c
      /\ \A l \in 2 .. w : s[l] = Continuation
  BY UTF8Facts
<1>2. \A j \in 1 .. w : s[j] # Continuation => j = 1
  BY <1>1
<1>3. ScalarAt(s, 1)
  <2>1. s[1] = c /\ c \in UnicodeScalar /\ Len(UTF8(s[1])) = w
    BY <1>1
  <2> HIDE DEF s, w
  <2> QED
    BY <1>1, <2>1 DEF ScalarAt
<1> HIDE DEF s
<1>4. InUTF8(s)
  BY <1>1, <1>2, <1>3, InUTF8Means
<1> QED
  BY <1>4 DEF s

\* Texts in UTF-8, one behind the other.
LEMMA UTF8Concat ==
    ASSUME NEW s \in Seq(Byte), NEW t \in Seq(Byte), InUTF8(s), InUTF8(t)
    PROVE  InUTF8(s \o t)
<1> DEFINE both == s \o t
           m == Len(s)
           n == Len(t)
<1>1. m \in Nat /\ n \in Nat /\ both \in Seq(Byte) /\ Len(both) = m + n
  BY LenProperties, ConcatProperties
<1>2. /\ \A j \in 1 .. m : both[j] = s[j]
      /\ \A j \in 1 .. n : both[m + j] = t[j]
  <2>1. /\ \A j \in 1 .. m : both[j] = s[j]
        /\ \A j \in m + 1 .. m + n : both[j] = t[j - m]
    BY ConcatProperties, <1>1
  <2> HIDE DEF both, m, n
  <2>2. \A j \in 1 .. n : m + j \in m + 1 .. m + n /\ (m + j) - m = j
    BY <1>1
  <2> QED
    BY <2>1, <2>2
<1>3. /\ s # <<>> => s[1] # Continuation
      /\ \A j \in 1 .. m : s[j] # Continuation => ScalarAt(s, j)
      /\ t # <<>> => t[1] # Continuation
      /\ \A j \in 1 .. n : t[j] # Continuation => ScalarAt(t, j)
  BY InUTF8Means
<1>4. (s = <<>> <=> m = 0) /\ (t = <<>> <=> n = 0) /\ (both = <<>> <=> m + n = 0)
  <2>1. \A u \in Seq(Byte) : u = <<>> <=> Len(u) = 0
    BY EmptySeq
  <2> QED
    BY <1>1, <2>1
<1>5. \A c \in UnicodeScalar : Len(UTF8(c)) \in 1 .. 3
  BY UTF8Facts
<1> HIDE DEF both, m, n
<1>6. n > 0 => both[m + 1] # Continuation
  <2>1. n > 0 => t[1] # Continuation /\ 1 \in 1 .. n
    BY <1>1, <1>3, <1>4
  <2> QED
    BY <1>2, <2>1
<1>7. both # <<>> => both[1] # Continuation
  <2>1. CASE m = 0
    <3>1. m + 1 = 1 /\ (both # <<>> => n > 0)
      BY <1>1, <1>4, <2>1
    <3> QED
      BY <1>6, <3>1
  <2>2. CASE m # 0
    <3>1. 1 \in 1 .. m
      BY <1>1, <2>2
    <3> QED
      BY <1>2, <1>3, <1>4, <2>2, <3>1
  <2> QED
    BY <2>1, <2>2
<1>8. ASSUME NEW j \in 1 .. m, both[j] # Continuation PROVE ScalarAt(both, j)
  <2> DEFINE w == Len(UTF8(s[j]))
  <2>1. ScalarAt(s, j) /\ both[j] = s[j]
    BY <1>2, <1>3, <1>8
  <2>2. /\ s[j] \in UnicodeScalar /\ w \in 1 .. 3 /\ j + w <= m + 1
        /\ \A l \in j + 1 .. j + w - 1 : s[l] = Continuation
        /\ j + w <= m => s[j + w] # Continuation
    BY <1>5, <2>1 DEF ScalarAt, m
  <2> HIDE DEF w
  <2>3. \A l \in j + 1 .. j + w - 1 : l \in 1 .. m
    BY <1>1, <2>2
  <2>4. \A l \in j + 1 .. j + w - 1 : both[l] = Continuation
    BY <1>2, <2>2, <2>3
  <2>5. j + w <= m + n => both[j + w] # Continuation
    <3>1. CASE j + w <= m
      <4>1. j + w \in 1 .. m
        BY <1>1, <2>2, <3>1
      <4> QED
        BY <1>2, <2>2, <3>1, <4>1
    <3>2. CASE ~(j + w <= m)
      <4>1. j + w = m + 1 /\ (j + w <= m + n => n > 0)
        BY <1>1, <2>2, <3>2
      <4> QED
        BY <1>6, <4>1
    <3> QED
      BY <3>1, <3>2
  <2>6. j + w <= (m + n) + 1
    BY <1>1, <2>2
  <2>7. Len(UTF8(both[j])) = w
    BY <2>1 DEF w
  <2> QED
    BY <1>1, <2>1, <2>2, <2>4, <2>5, <2>6, <2>7 DEF ScalarAt
<1>9. ASSUME NEW i \in 1 .. n, both[m + i] # Continuation PROVE ScalarAt(both, m + i)
  <2> DEFINE w == Len(UTF8(t[i]))
  <2>1. ScalarAt(t, i) /\ both[m + i] = t[i]
    BY <1>2, <1>3, <1>9
  <2>2. /\ t[i] \in UnicodeScalar /\ w \in 1 .. 3 /\ i + w <= n + 1
        /\ \A l \in i + 1 .. i + w - 1 : t[l] = Continuation
        /\ i + w <= n => t[i + w] # Continuation
    BY <1>5, <2>1 DEF ScalarAt, n
  <2> HIDE DEF w
  <2>3. \A l \in (m + i) + 1 .. (m + i) + w - 1 :
            l - m \in i + 1 .. i + w - 1 /\ l - m \in 1 .. n /\ m + (l - m) = l
    BY <1>1, <2>2
  <2>4. \A l \in (m + i) + 1 .. (m + i) + w - 1 : both[l] = Continuation
    BY <1>2, <2>2, <2>3
  <2>5. (m + i) + w <= m + n => both[(m + i) + w] # Continuation
    <3>1. (m + i) + w <= m + n => i + w \in 1 .. n /\ i + w <= n /\ m + (i + w) = (m + i) + w
      BY <1>1, <2>2
    <3> QED
      BY <1>2, <2>2, <3>1
  <2>6. (m + i) + w <= (m + n) + 1
    BY <1>1, <2>2
  <2>7. Len(UTF8(both[m + i])) = w
    BY <2>1 DEF w
  <2> QED
    BY <1>1, <2>1, <2>2, <2>4, <2>5, <2>6, <2>7 DEF ScalarAt
<1>10. \A j \in 1 .. m + n : both[j] # Continuation => ScalarAt(both, j)
  <2> SUFFICES ASSUME NEW j \in 1 .. m + n, both[j] # Continuation PROVE ScalarAt(both, j)
    OBVIOUS
  <2>1. j \in 1 .. m \/ (j - m \in 1 .. n /\ m + (j - m) = j)
    BY <1>1
  <2> QED
    BY <1>8, <1>9, <2>1
<1>11. InUTF8(both)
  BY <1>1, <1>7, <1>10, InUTF8Means
<1> QED
  BY <1>11 DEF both

\* What lies between two scalars' ends.
LEMMA UTF8Part ==
    ASSUME NEW s \in Seq(Byte), InUTF8(s),
           NEW a \in 0 .. Len(s), Boundary(s, a), NEW b \in a .. Len(s), Boundary(s, b)
    PROVE  InUTF8(SubSeq(s, a + 1, b))
<1> DEFINE part == SubSeq(s, a + 1, b)
           n == b - a
           N == Len(s)
<1>1. N \in Nat /\ n \in Nat /\ a \in Nat /\ a + n = b /\ a + n <= N
  BY LenProperties
<1>2. part \in Seq(Byte) /\ Len(part) = n /\ \A j \in 1 .. n : part[j] = s[a + j]
  <2>1. \A j \in a + 1 .. b : s[j] \in Byte
    BY <1>1, ElementOfSeq
  <2>2. part \in Seq(Byte) /\ Len(part) = n
        /\ \A j \in 1 .. n : part[j] = s[(a + 1) + j - 1]
    BY <1>1, <2>1, SubSeqProperties
  <2>3. \A j \in 1 .. n : (a + 1) + j - 1 = a + j
    BY <1>1
  <2> QED
    BY <2>2, <2>3
<1>3. /\ s # <<>> => s[1] # Continuation
      /\ \A j \in 1 .. N : s[j] # Continuation => ScalarAt(s, j)
  BY InUTF8Means
<1>4. \A c \in UnicodeScalar : Len(UTF8(c)) \in 1 .. 3
  BY UTF8Facts
<1>5. s = <<>> => N = 0
  OBVIOUS
<1>6. /\ a # 0 => a = N \/ s[a + 1] # Continuation
      /\ b # 0 => b = N \/ s[b + 1] # Continuation
  BY DEF Boundary, Ending
<1> HIDE DEF part, n, N
<1>7. part # <<>> => part[1] # Continuation
  <2>1. part # <<>> => n # 0
    BY <1>2, EmptySeq
  <2>2. n # 0 => 1 \in 1 .. n /\ a # N /\ N # 0
    BY <1>1
  <2>3. n # 0 => s[a + 1] # Continuation
    BY <1>1, <1>3, <1>5, <1>6, <2>2
  <2> QED
    BY <1>2, <2>1, <2>2, <2>3
<1>8. ASSUME NEW j \in 1 .. n, part[j] # Continuation PROVE ScalarAt(part, j)
  <2> DEFINE w == Len(UTF8(s[a + j]))
  <2>1. a + j \in 1 .. N /\ part[j] = s[a + j]
    BY <1>1, <1>2
  <2>2. ScalarAt(s, a + j)
    BY <1>3, <1>8, <2>1
  <2>3. /\ s[a + j] \in UnicodeScalar /\ w \in 1 .. 3 /\ (a + j) + w <= N + 1
        /\ \A l \in (a + j) + 1 .. (a + j) + w - 1 : s[l] = Continuation
        /\ (a + j) + w <= N => s[(a + j) + w] # Continuation
    BY <1>4, <2>2 DEF ScalarAt, N
  <2>8. Len(UTF8(part[j])) = w
    BY <2>1
  <2> HIDE DEF w
  <2>4. j + w <= n + 1
    <3> SUFFICES ASSUME ~(j + w <= n + 1) PROVE FALSE
      OBVIOUS
    <3>1. b + 1 \in (a + j) + 1 .. (a + j) + w - 1 /\ b # 0 /\ b # N
      BY <1>1, <2>1, <2>3
    <3> QED
      BY <1>6, <2>3, <3>1
  <2>5. \A l \in j + 1 .. j + w - 1 : part[l] = Continuation
    <3>1. \A l \in j + 1 .. j + w - 1 :
            l \in 1 .. n /\ a + l \in (a + j) + 1 .. (a + j) + w - 1
      BY <1>1, <2>3, <2>4
    <3> QED
      BY <1>2, <2>3, <3>1
  <2>6. j + w <= n => part[j + w] # Continuation
    <3>1. j + w <= n => /\ j + w \in 1 .. n /\ a + (j + w) = (a + j) + w
                        /\ (a + j) + w <= N
      BY <1>1, <2>3
    <3> QED
      BY <1>2, <2>3, <3>1
  <2> QED
    BY <1>2, <2>1, <2>3, <2>4, <2>5, <2>6, <2>8 DEF ScalarAt
<1>9. InUTF8(part)
  BY <1>2, <1>7, <1>8, InUTF8Means
<1> QED
  BY <1>9 DEF part

-----------------------------------------------------------------------------
(* Texts put together from labels come apart into these. *)

NoDot(s) == \A j \in 1 .. Len(s) : s[j] # Dot

\* Where labels start.
LEMMA StartsBefore ==
    ASSUME NEW s \in Seq(Byte)
    PROVE  /\ Len(s) \in Nat /\ LabelStarts(s) \in SUBSET (0 .. Len(s)) /\ 0 \in LabelStarts(s)
           /\ \A f : f \in LabelStarts(s) <=> f = 0 \/ (f \in 1 .. Len(s) /\ s[f] = Dot)
  BY LenProperties, LabelFacts DEF LabelStarts, Dots

\* Where a label ends: before the next dot, if there is one.
LEMMA EndFacts ==
    ASSUME NEW s \in Seq(Byte), NEW from \in 0 .. Len(s), NEW e \in from .. Len(s),
           \A j \in from + 1 .. e : s[j] # Dot,
           e = Len(s) \/ s[e + 1] = Dot
    PROVE  LabelEnd(s, from) = e
<1> DEFINE N == Len(s)
           D == Dots(s, from)
<1>1. N \in Nat /\ from \in 0 .. N /\ e \in from .. N /\ D \in SUBSET Nat
  BY LenProperties DEF Dots
<1>2. \A j : j \in D <=> j \in from + 1 .. N /\ s[j] = Dot
  BY DEF Dots
<1>3. LabelEnd(s, from) = IF D = {} THEN N ELSE Min(D) - 1
  BY DEF LabelEnd
<1>4. (e = N \/ s[e + 1] = Dot) /\ \A j \in from + 1 .. e : s[j] # Dot
  OBVIOUS
<1>8. D # {} => Min(D) \in D /\ \A y \in D : Min(D) <= y
  <2> HIDE DEF D
  <2> QED
    BY <1>1, MinFacts
<1> DEFINE least == Min(D)
<1>5. (D # {} => least \in D /\ least \in Nat /\ \A y \in D : least <= y)
  <2> HIDE DEF D
  <2> QED
    BY <1>1, <1>8
<1>9. LabelEnd(s, from) = IF D = {} THEN N ELSE least - 1
  BY <1>3
<1> HIDE DEF N, D, least
<1>6. CASE e = N
  <2>1. \A j : j \notin D
    BY <1>1, <1>2, <1>4, <1>6
  <2>2. D = {}
    BY <2>1
  <2> QED
    BY <1>9, <1>6, <2>2
<1>7. CASE e # N
  <2>1. e + 1 \in D
    BY <1>1, <1>2, <1>4, <1>7
  <2>2. \A j \in D : e + 1 <= j
    BY <1>1, <1>2, <1>4
  <2>3. D # {}
    BY <2>1
  <2>4. least \in D /\ least \in Nat /\ least <= e + 1 /\ e + 1 <= least
    BY <1>5, <2>1, <2>2, <2>3
  <2>5. least = e + 1
    BY <1>1, <2>4
  <2> QED
    <3>1. LabelEnd(s, from) = least - 1
      BY <1>9, <2>3, Zenon
    <3>2. e \in Int /\ (e + 1) - 1 = e
      BY <1>1
    <3> QED
      BY <2>5, <3>1, <3>2
<1> QED
  BY <1>6, <1>7

\* The other way round.
LEMMA EndMeans ==
    ASSUME NEW s \in Seq(Byte), NEW from \in LabelStarts(s)
    PROVE  /\ LabelEnd(s, from) \in from .. Len(s)
           /\ \A j \in from + 1 .. LabelEnd(s, from) : s[j] # Dot
           /\ LabelEnd(s, from) = Len(s) \/ s[LabelEnd(s, from) + 1] = Dot
<1> DEFINE N == Len(s)
           D == Dots(s, from)
           e == LabelEnd(s, from)
<1>1. N \in Nat /\ from \in 0 .. N /\ e \in from .. N /\ D \in SUBSET Nat
  BY LenProperties, LabelFacts DEF Dots
<1>2. \A j : j \in D <=> j \in from + 1 .. N /\ s[j] = Dot
  BY DEF Dots
<1>3. e = IF D = {} THEN N ELSE Min(D) - 1
  BY DEF LabelEnd
<1>8. D # {} => Min(D) \in D /\ \A y \in D : Min(D) <= y
  <2> HIDE DEF D
  <2> QED
    BY <1>1, MinFacts
<1> DEFINE least == Min(D)
<1>5. (D # {} => least \in D /\ least \in Nat /\ \A y \in D : least <= y)
  <2> HIDE DEF D
  <2> QED
    BY <1>1, <1>8
<1>9. e = IF D = {} THEN N ELSE least - 1
  BY <1>3
<1> HIDE DEF N, D, e, least
<1>6. \A j \in from + 1 .. e : s[j] # Dot
  <2> SUFFICES ASSUME NEW j \in from + 1 .. e, s[j] = Dot PROVE FALSE
    OBVIOUS
  <2>1. j \in D /\ j \in Nat /\ j <= e
    BY <1>1, <1>2
  <2>2. D # {}
    BY <2>1
  <2>3. least <= j /\ least \in Nat /\ e = least - 1
    BY <1>5, <1>9, <2>1, <2>2
  <2> QED
    BY <1>1, <2>1, <2>3
<1>7. e = N \/ s[e + 1] = Dot
  <2>1. CASE D = {}
    BY <1>9, <2>1
  <2>2. CASE D # {}
    <3>1. least \in Nat /\ least \in D /\ e + 1 = least
      BY <1>1, <1>5, <1>9, <2>2
    <3> QED
      BY <1>2, <1>5, <2>2, <3>1
  <2> QED
    BY <2>1, <2>2
<1> QED
  BY <1>1, <1>6, <1>7 DEF N, e

\* A text of two parts and a dot between them, byte by byte.
Joins(v, u, p) ==
    /\ v \in Seq(Byte) /\ Len(v) = Len(u) + 1 + Len(p)
    /\ \A j \in 1 .. Len(u) : v[j] = u[j]
    /\ v[Len(u) + 1] = Dot
    /\ \A j \in 1 .. Len(p) : v[Len(u) + 1 + j] = p[j]

\* So is what JoinedUpTo puts together at every label.
LEMMA JoinsFacts ==
    ASSUME NEW u \in Seq(Byte), NEW p \in Seq(Byte), Dot \in Byte
    PROVE  Joins(u \o <<Dot>> \o p, u, p)
<1> DEFINE v == u \o <<Dot>> \o p
           m == Len(u)
           n == Len(p)
           N == Len(v)
<1>1. m \in Nat /\ n \in Nat /\ v \in Seq(Byte) /\ N = m + 1 + n
  <2>1. <<Dot>> \in Seq(Byte) /\ Len(<<Dot>>) = 1
    OBVIOUS
  <2>2. u \o <<Dot>> \in Seq(Byte) /\ Len(u \o <<Dot>>) = m + 1
    BY <2>1, LenProperties, ConcatProperties
  <2> QED
    BY <2>2, LenProperties, ConcatProperties
<1>2. /\ \A j \in 1 .. m : v[j] = u[j]
      /\ v[m + 1] = Dot
      /\ \A j \in 1 .. n : v[m + 1 + j] = p[j]
  <2> DEFINE w == u \o <<Dot>>
  <2>1. <<Dot>> \in Seq(Byte) /\ Len(<<Dot>>) = 1 /\ <<Dot>>[1] = Dot
    OBVIOUS
  <2>2. /\ w \in Seq(Byte) /\ Len(w) = m + 1
        /\ \A j \in 1 .. m : w[j] = u[j]
    BY <2>1, LenProperties, ConcatProperties
  <2>3. w[m + 1] = Dot
    BY <2>1, LenProperties
  <2> HIDE DEF w
  <2>4. v = w \o p
    BY DEF w
  <2>5. /\ \A j \in 1 .. m + 1 : v[j] = w[j]
        /\ \A j \in (m + 1) + 1 .. (m + 1) + n : v[j] = p[j - (m + 1)]
    BY <2>2, <2>4, LenProperties, ConcatProperties
  <2> HIDE DEF m, n
  <2>6. \A j \in 1 .. m : j \in 1 .. m + 1
    BY <1>1
  <2>7. m + 1 \in 1 .. m + 1
    BY <1>1
  <2>8. \A j \in 1 .. n : m + 1 + j \in (m + 1) + 1 .. (m + 1) + n
                          /\ (m + 1 + j) - (m + 1) = j
    BY <1>1
  <2> QED
    BY <2>2, <2>3, <2>5, <2>6, <2>7, <2>8
<1> QED
  BY <1>1, <1>2 DEF Joins, m, n, N, v

\* One more label.
LEMMA LabelAppendedFacts ==
    ASSUME NEW u \in Seq(Byte), NEW p \in Seq(Byte), NoDot(p),
           NEW v, Joins(v, u, p), NEW next, next = Len(u) + 1
    PROVE  /\ v \in Seq(Byte)
           /\ LabelStarts(v) = LabelStarts(u) \cup {next}
           /\ \A g \in LabelStarts(u) : LabelAt(v, g) = LabelAt(u, g) /\ g < next
           /\ LabelAt(v, next) = p
           /\ \A j \in 1 .. Len(v) :
                v[j] = Dot \/ (\E i \in 1 .. Len(u) : v[j] = u[i])
                           \/ (\E i \in 1 .. Len(p) : v[j] = p[i])
<1> DEFINE m == Len(u)
           n == Len(p)
           N == Len(v)
<1>1. m \in Nat /\ n \in Nat /\ v \in Seq(Byte) /\ N = m + 1 + n /\ next = m + 1
  BY LenProperties DEF Joins
<1>2. /\ \A j \in 1 .. m : v[j] = u[j]
      /\ v[m + 1] = Dot
      /\ \A j \in 1 .. n : v[m + 1 + j] = p[j]
  BY DEF Joins
<1>3. \A j \in 1 .. n : p[j] # Dot
  BY DEF NoDot
<1>4. /\ LabelStarts(u) \in SUBSET (0 .. m) /\ 0 \in LabelStarts(u)
      /\ \A f : f \in LabelStarts(u) <=> f = 0 \/ (f \in 1 .. m /\ u[f] = Dot)
      /\ \A f : f \in LabelStarts(v) <=> f = 0 \/ (f \in 1 .. N /\ v[f] = Dot)
  BY <1>1, StartsBefore
<1> HIDE DEF m, n, N
<1>5. LabelStarts(v) = LabelStarts(u) \cup {m + 1}
  <2>1. \A f \in 1 .. N : f \in 1 .. m \/ f = m + 1 \/ (f - (m + 1) \in 1 .. n
                                                        /\ m + 1 + (f - (m + 1)) = f)
    BY <1>1
  <2>2. \A f \in 1 .. N : v[f] = Dot <=> (f \in 1 .. m /\ u[f] = Dot) \/ f = m + 1
    <3> SUFFICES ASSUME NEW f \in 1 .. N
                 PROVE  v[f] = Dot <=> (f \in 1 .. m /\ u[f] = Dot) \/ f = m + 1
      OBVIOUS
    <3>1. CASE f \in 1 .. m
      <4>1. f # m + 1 /\ v[f] = u[f]
        BY <1>1, <1>2, <3>1
      <4> QED
        BY <3>1, <4>1
    <3>2. CASE f = m + 1
      BY <1>2, <3>2
    <3>3. CASE f - (m + 1) \in 1 .. n /\ m + 1 + (f - (m + 1)) = f
      <4>1. f \notin 1 .. m /\ f # m + 1
        BY <1>1, <3>3
      <4>2. v[f] # Dot
        BY <1>2, <1>3, <3>3
      <4> QED
        BY <4>1, <4>2
    <3> QED
      BY <2>1, <3>1, <3>2, <3>3
  <2>3. m + 1 \in 1 .. N /\ \A f \in 1 .. m : f \in 1 .. N
    BY <1>1
  <2> QED
    BY <1>4, <2>2, <2>3
<1>6. ASSUME NEW g \in LabelStarts(u) PROVE LabelAt(v, g) = LabelAt(u, g) /\ g < m + 1
  <2> DEFINE e == LabelEnd(u, g)
  <2>1. /\ e \in g .. m /\ g \in 0 .. m
        /\ \A j \in g + 1 .. e : u[j] # Dot
        /\ e = m \/ u[e + 1] = Dot
    BY <1>4, EndMeans DEF m
  <2> HIDE DEF e
  <2>2. g \in 0 .. N /\ e \in g .. N /\ \A j \in g + 1 .. e : j \in 1 .. m
    BY <1>1, <2>1
  <2>3. \A j \in g + 1 .. e : v[j] # Dot
    BY <1>2, <2>1, <2>2
  <2>4. v[e + 1] = Dot
    <3>1. CASE e = m
      BY <1>2, <3>1
    <3>2. CASE e # m
      <4>1. e + 1 \in 1 .. m
        BY <1>1, <2>1, <3>2
      <4> QED
        BY <1>2, <2>1, <3>2, <4>1
    <3> QED
      BY <3>1, <3>2
  <2>5. LabelEnd(v, g) = e
    BY <1>1, <2>2, <2>3, <2>4, EndFacts DEF N
  <2>6. SubSeq(v, g + 1, e) = SubSeq(u, g + 1, e)
    <3>1. \A j \in g + 1 .. e : j \in 1 .. N /\ j \in 1 .. m
      BY <1>1, <2>1
    <3>2. \A j \in g + 1 .. e : v[j] \in Byte /\ u[j] \in Byte
      BY <1>1, <3>1, ElementOfSeq DEF N, m
    <3>3. g + 1 \in Int /\ e \in Int
      BY <1>1, <2>1
    <3> DEFINE a == SubSeq(v, g + 1, e)
               b == SubSeq(u, g + 1, e)
    <3>4. /\ a \in Seq(Byte) /\ Len(a) = IF g + 1 <= e THEN e - (g + 1) + 1 ELSE 0
          /\ \A j \in 1 .. e - (g + 1) + 1 : a[j] = v[(g + 1) + j - 1]
      BY <3>2, <3>3, SubSeqProperties
    <3>5. /\ b \in Seq(Byte) /\ Len(b) = IF g + 1 <= e THEN e - (g + 1) + 1 ELSE 0
          /\ \A j \in 1 .. e - (g + 1) + 1 : b[j] = u[(g + 1) + j - 1]
      BY <3>2, <3>3, SubSeqProperties
    <3> HIDE DEF a, b
    <3>6. \A j \in 1 .. e - (g + 1) + 1 : (g + 1) + j - 1 \in 1 .. m
      BY <1>1, <2>1
    <3>10. \A j \in 1 .. e - (g + 1) + 1 : a[j] = b[j]
      BY <1>2, <3>4, <3>5, <3>6
    <3>7. \A j \in 1 .. Len(a) : a[j] = b[j]
      <4>1. Len(a) \in 0 .. e - (g + 1) + 1 \/ Len(a) = 0
        BY <3>3, <3>4
      <4> QED
        BY <3>3, <3>10, <4>1
    <3>8. Len(a) = Len(b)
      BY <3>4, <3>5
    <3>9. a = b
      BY <3>4, <3>5, <3>7, <3>8, SeqEqual
    <3> QED
      BY <3>9 DEF a, b
  <2>7. g < m + 1
    BY <1>1, <2>1
  <2> QED
    BY <2>5, <2>6, <2>7 DEF LabelAt, e
<1>7. LabelAt(v, m + 1) = p
  <2>1. m + 1 \in 0 .. N /\ N \in m + 1 .. N /\ m + 1 + n = N
    BY <1>1
  <2>2. \A j \in (m + 1) + 1 .. N : v[j] # Dot
    <3>1. \A j \in (m + 1) + 1 .. N : j - (m + 1) \in 1 .. n /\ m + 1 + (j - (m + 1)) = j
      BY <1>1
    <3> QED
      BY <1>2, <1>3, <3>1
  <2>3. LabelEnd(v, m + 1) = N
    BY <1>1, <2>1, <2>2, EndFacts DEF N
  <2>4. SubSeq(v, (m + 1) + 1, N) = p
    <3> DEFINE a == SubSeq(v, (m + 1) + 1, N)
               k == (m + 1) + 1
    <3>1. \A j \in k .. N : v[j] \in Byte
      <4>1. \A j \in k .. N : j \in 1 .. N
        BY <1>1
      <4> QED
        BY <1>1, <4>1, ElementOfSeq DEF N
    <3>2. k \in Int /\ N \in Int /\ (IF k <= N THEN N - k + 1 ELSE 0) = n /\ N - k + 1 = n
      BY <1>1
    <3> HIDE DEF k
    <3>3. /\ a \in Seq(Byte) /\ Len(a) = (IF k <= N THEN N - k + 1 ELSE 0)
          /\ \A j \in 1 .. N - k + 1 : a[j] = v[k + j - 1]
      <4>1. a = SubSeq(v, k, N)
        BY DEF k
      <4> HIDE DEF a
      <4> QED
        BY <3>1, <3>2, <4>1, SubSeqProperties
    <3> HIDE DEF a
    <3>4. Len(a) = n /\ \A j \in 1 .. n : a[j] = v[k + j - 1]
      BY <3>2, <3>3
    <3>5. \A j \in 1 .. n : k + j - 1 = m + 1 + j
      BY <1>1 DEF k
    <3>6. \A j \in 1 .. n : a[j] = p[j]
      BY <1>2, <3>4, <3>5
    <3>7. a = p
      BY <3>3, <3>4, <3>6, SeqEqual DEF n
    <3> QED
      BY <3>7 DEF a
  <2> QED
    BY <2>3, <2>4 DEF LabelAt
<1>8. \A j \in 1 .. N : v[j] = Dot \/ (\E i \in 1 .. m : v[j] = u[i])
                                   \/ (\E i \in 1 .. n : v[j] = p[i])
  <2> SUFFICES ASSUME NEW j \in 1 .. N
               PROVE  v[j] = Dot \/ (\E i \in 1 .. m : v[j] = u[i])
                                 \/ (\E i \in 1 .. n : v[j] = p[i])
    OBVIOUS
  <2>1. j \in 1 .. m \/ j = m + 1 \/ (j - (m + 1) \in 1 .. n /\ m + 1 + (j - (m + 1)) = j)
    BY <1>1
  <2> QED
    BY <1>2, <2>1
<1> QED
  BY <1>1, <1>5, <1>6, <1>7, <1>8 DEF m, n, N

\* A text without dots is one label.
LEMMA OneLabel ==
    ASSUME NEW p \in Seq(Byte), NoDot(p)
    PROVE  LabelStarts(p) = {0} /\ LabelAt(p, 0) = p
<1>1. Len(p) \in Nat /\ \A f : f \in LabelStarts(p) <=> f = 0 \/ (f \in 1 .. Len(p) /\ p[f] = Dot)
  BY StartsBefore
<1>2. LabelStarts(p) = {0}
  BY <1>1 DEF NoDot
<1>3. LabelEnd(p, 0) = Len(p)
  <2>1. 0 \in 0 .. Len(p) /\ Len(p) \in 0 .. Len(p) /\ \A j \in 0 + 1 .. Len(p) : p[j] # Dot
    BY <1>1 DEF NoDot
  <2> QED
    BY <2>1, EndFacts
<1>4. SubSeq(p, 0 + 1, Len(p)) = p
  <2>1. <<>> \in Seq(Byte) /\ Len(<<>>) = 0
    OBVIOUS
  <2>2. SubSeq(<<>> \o p, Len(<<>>) + 1, Len(<<>> \o p)) = p /\ <<>> \o p = p
    BY <2>1, ConcatTail, ConcatEmptySeq
  <2> QED
    BY <2>1, <2>2
<1> QED
  BY <1>2, <1>3, <1>4 DEF LabelAt

\* Joining some of the first pieces is the same whatever follows them.
LEMMA JoinedPrefix ==
    ASSUME NEW N \in Nat, NEW T \in SUBSET (0 .. N), NEW S \in SUBSET T, 0 \in S,
           NEW piece, NEW longer, DOMAIN piece = S, DOMAIN longer = T,
           \A f \in S : longer[f] = piece[f],
           \A f \in S : \A g \in T : g < f => g \in S
    PROVE  \A f \in S : JoinedUpTo(longer, f) = JoinedUpTo(piece, f)
<1> DEFINE Fails == {f \in S : JoinedUpTo(longer, f) # JoinedUpTo(piece, f)}
<1>1. S \in SUBSET (0 .. N) /\ 0 \in T /\ \A f \in S : f \in T
  OBVIOUS
<1>2. /\ JoinedUpTo(piece, 0) = piece[0]
      /\ \A f \in S : f # 0 =>
            JoinedUpTo(piece, f)
                = JoinedUpTo(piece, Max({g \in S : g < f})) \o <<Dot>> \o piece[f]
  BY <1>1, JoinedIsRecursive
<1>3. /\ JoinedUpTo(longer, 0) = longer[0]
      /\ \A f \in T : f # 0 =>
            JoinedUpTo(longer, f)
                = JoinedUpTo(longer, Max({g \in T : g < f})) \o <<Dot>> \o longer[f]
  BY <1>1, JoinedIsRecursive
<1> SUFFICES ASSUME Fails # {} PROVE FALSE
  OBVIOUS
<1>4. PICK f \in Fails : \A y \in Fails : f <= y
  <2>1. Fails \in SUBSET Nat
    <3>1. \A f \in S : f \in Nat
      BY <1>1
    <3> QED
      BY <3>1, Zenon
  <2> HIDE DEF Fails
  <2> QED
    BY <2>1, LeastFailure
<1>5. f \in S /\ JoinedUpTo(longer, f) # JoinedUpTo(piece, f)
  BY <1>4
<1>6. f # 0
  BY <1>2, <1>3, <1>5
<1>7. {g \in T : g < f} = {g \in S : g < f}
  BY <1>1, <1>5
<1> DEFINE before == Max({g \in S : g < f})
<1>8. before \in S /\ before < f
  BY <1>1, <1>5, <1>6, BeforeFacts
<1>9. JoinedUpTo(longer, f) = JoinedUpTo(longer, before) \o <<Dot>> \o longer[f]
  BY <1>1, <1>3, <1>5, <1>6, <1>7, Zenon
<1>10. JoinedUpTo(piece, f) = JoinedUpTo(piece, before) \o <<Dot>> \o piece[f]
  BY <1>2, <1>5, <1>6, Zenon
<1> HIDE DEF before
<1>11. JoinedUpTo(longer, before) = JoinedUpTo(piece, before)
  <2> SUFFICES ASSUME before \in Fails PROVE FALSE
    BY <1>8
  <2>1. f <= before /\ f \in 0 .. N /\ before \in 0 .. N
    BY <1>1, <1>4, <1>5, <1>8
  <2> QED
    BY <1>8, <2>1
<1> QED
  BY <1>5, <1>9, <1>10, <1>11, Zenon

\* What a function makes of the labels of a text.
EachLabel(h, s) == [g \in LabelStarts(s) |-> h[LabelAt(s, g)]]

\* Read back.
LEMMA EachLabelFacts ==
    ASSUME NEW h, NEW s
    PROVE  /\ DOMAIN EachLabel(h, s) = LabelStarts(s)
           /\ \A g \in LabelStarts(s) : EachLabel(h, s)[g] = h[LabelAt(s, g)]
  BY DEF EachLabel

\* Pieces without dots, joined, are the labels of what they make up.
ComesApart(piece, S, h, from) ==
    LET u == JoinedUpTo(piece, from)
    IN  /\ u \in Seq(Byte)
        /\ \A g \in LabelStarts(u) : \E f \in S : LabelAt(u, g) = piece[f]
        /\ \A j \in 1 .. Len(u) :
             u[j] = Dot \/ \E f \in S : \E i \in 1 .. Len(piece[f]) : u[j] = piece[f][i]
        /\ JoinedUpTo(EachLabel(h, u), Max(LabelStarts(u)))
             = JoinedUpTo([f \in S |-> h[piece[f]]], from)

LEMMA JoinedLabels ==
    ASSUME NEW N \in Nat, NEW S \in SUBSET (0 .. N), 0 \in S,
           NEW piece \in [S -> Seq(Byte)], \A f \in S : NoDot(piece[f]), Dot \in Byte,
           NEW h
    PROVE  \A from \in S : ComesApart(piece, S, h, from)
<1> DEFINE image == [f \in S |-> h[piece[f]]]
           Fails == {f \in S : ~ComesApart(piece, S, h, f)}
<1>1. /\ JoinedUpTo(piece, 0) = piece[0]
      /\ \A f \in S : f # 0 =>
            JoinedUpTo(piece, f)
                = JoinedUpTo(piece, Max({g \in S : g < f})) \o <<Dot>> \o piece[f]
  BY JoinedIsRecursive
<1>2. DOMAIN image = S /\ \A f \in S : image[f] = h[piece[f]]
  OBVIOUS
<1> HIDE DEF image
<1>3. /\ JoinedUpTo(image, 0) = image[0]
      /\ \A f \in S : f # 0 =>
            JoinedUpTo(image, f)
                = JoinedUpTo(image, Max({g \in S : g < f})) \o <<Dot>> \o image[f]
  BY <1>2, JoinedIsRecursive
<1>4. ComesApart(piece, S, h, 0)
  <2> DEFINE u == piece[0]
  <2>1. u \in Seq(Byte) /\ NoDot(u)
    OBVIOUS
  <2> HIDE DEF u
  <2>2. LabelStarts(u) = {0} /\ LabelAt(u, 0) = u
    BY <2>1, OneLabel
  <2>3. Max(LabelStarts(u)) = 0
    <3>1. {0} \in SUBSET (0 .. 0) /\ {0} # {} /\ 0 \in Nat
      OBVIOUS
    <3>2. Max({0}) \in {0}
      BY <3>1, MaxFacts
    <3> QED
      BY <2>2, <3>2
  <2>4. JoinedUpTo(EachLabel(h, u), 0) = h[u]
    <3>1. DOMAIN EachLabel(h, u) = {0} /\ EachLabel(h, u)[0] = h[u]
      BY <2>2, EachLabelFacts
    <3>2. {0} \in SUBSET (0 .. 0) /\ 0 \in {0} /\ 0 \in Nat
      OBVIOUS
    <3>3. JoinedUpTo(EachLabel(h, u), 0) = EachLabel(h, u)[0]
      BY <3>1, <3>2, JoinedIsRecursive
    <3> QED
      BY <3>1, <3>3
  <2>5. JoinedUpTo(image, 0) = h[u]
    BY <1>2, <1>3 DEF u
  <2>6. /\ \A g \in LabelStarts(u) : \E f \in S : LabelAt(u, g) = piece[f]
        /\ \A j \in 1 .. Len(u) : \E f \in S : \E i \in 1 .. Len(piece[f]) : u[j] = piece[f][i]
    BY <2>2 DEF u
  <2>7. JoinedUpTo(piece, 0) = u
    BY <1>1 DEF u
  <2> QED
    BY <2>1, <2>3, <2>4, <2>5, <2>6, <2>7 DEF ComesApart, image
<1>5. ASSUME NEW from \in S, from # 0,
             NEW before, before = Max({g \in S : g < from}), before \in S,
             ComesApart(piece, S, h, before)
      PROVE  ComesApart(piece, S, h, from)
  <2> DEFINE u == JoinedUpTo(piece, before)
             v == JoinedUpTo(piece, from)
             p == piece[from]
             next == Len(u) + 1
  <2>1. /\ u \in Seq(Byte)
        /\ \A g \in LabelStarts(u) : \E f \in S : LabelAt(u, g) = piece[f]
        /\ \A j \in 1 .. Len(u) :
             u[j] = Dot \/ \E f \in S : \E i \in 1 .. Len(piece[f]) : u[j] = piece[f][i]
        /\ JoinedUpTo(EachLabel(h, u), Max(LabelStarts(u))) = JoinedUpTo(image, before)
    BY <1>5, Zenon DEF ComesApart, image
  <2>2. p \in Seq(Byte) /\ NoDot(p) /\ p = piece[from]
    OBVIOUS
  <2>3. v = u \o <<Dot>> \o p
    BY <1>1, <1>5, Zenon
  <2> HIDE DEF u, v, p
  <2>4. /\ v \in Seq(Byte)
        /\ LabelStarts(v) = LabelStarts(u) \cup {next}
        /\ \A g \in LabelStarts(u) : LabelAt(v, g) = LabelAt(u, g) /\ g < next
        /\ LabelAt(v, next) = p
        /\ \A j \in 1 .. Len(v) :
             v[j] = Dot \/ (\E i \in 1 .. Len(u) : v[j] = u[i])
                        \/ (\E i \in 1 .. Len(p) : v[j] = p[i])
    <3>1. next = Len(u) + 1
      OBVIOUS
    <3> HIDE DEF next
    <3>2. Joins(v, u, p)
      BY <2>1, <2>2, <2>3, JoinsFacts
    <3> QED
      BY <2>1, <2>2, <3>1, <3>2, LabelAppendedFacts
  <2>5. Len(u) \in Nat /\ LabelStarts(u) \in SUBSET (0 .. Len(u)) /\ 0 \in LabelStarts(u)
    BY <2>1, StartsBefore
  <2> HIDE DEF next
  <2>6. next \in Nat /\ LabelStarts(v) \in SUBSET (0 .. next) /\ next \in LabelStarts(v) /\ next # 0
        /\ 0 \in LabelStarts(v)
    BY <2>4, <2>5 DEF next
  <2>7. Max(LabelStarts(v)) = next
    <3>1. Max(LabelStarts(v)) \in LabelStarts(v) /\ next <= Max(LabelStarts(v))
      BY <2>6, MaxFacts
    <3>2. Max(LabelStarts(v)) \in 0 .. next
      BY <2>6, <3>1
    <3> QED
      BY <2>6, <3>1, <3>2
  <2>8. {g \in LabelStarts(v) : g < next} = LabelStarts(u)
    <3>1. ~(next < next)
      BY <2>6
    <3> QED
      BY <2>4, <3>1
  <2> DEFINE hu == EachLabel(h, u)
             hv == EachLabel(h, v)
  <2>9. /\ DOMAIN hu = LabelStarts(u) /\ \A g \in LabelStarts(u) : hu[g] = h[LabelAt(u, g)]
        /\ DOMAIN hv = LabelStarts(v) /\ \A g \in LabelStarts(v) : hv[g] = h[LabelAt(v, g)]
    BY EachLabelFacts
  <2> HIDE DEF hu, hv
  <2>10. JoinedUpTo(hv, next)
            = JoinedUpTo(hv, Max(LabelStarts(u))) \o <<Dot>> \o hv[next]
    <3>1. \A f \in LabelStarts(v) : f # 0 =>
            JoinedUpTo(hv, f)
                = JoinedUpTo(hv, Max({g \in LabelStarts(v) : g < f})) \o <<Dot>> \o hv[f]
      BY <2>6, <2>9, JoinedIsRecursive
    <3> QED
      BY <2>6, <2>8, <3>1, Zenon
  <2>11. JoinedUpTo(hv, Max(LabelStarts(u))) = JoinedUpTo(hu, Max(LabelStarts(u)))
    <3>1. LabelStarts(u) \in SUBSET LabelStarts(v)
      BY <2>4
    <3>2. \A g \in LabelStarts(u) : hv[g] = hu[g]
      BY <2>4, <2>9, <3>1
    <3>3. \A f \in LabelStarts(u) : \A g \in LabelStarts(v) : g < f => g \in LabelStarts(u)
      <4> SUFFICES ASSUME NEW f \in LabelStarts(u), next < f PROVE FALSE
        BY <2>4
      <4>1. f < next /\ f \in Nat /\ next \in Nat
        BY <2>4, <2>5, <2>6
      <4> QED
        BY <4>1
    <3>4. Max(LabelStarts(u)) \in LabelStarts(u)
      BY <2>5, MaxFacts
    <3>5. DOMAIN hu = LabelStarts(u) /\ DOMAIN hv = LabelStarts(v)
      BY <2>9
    <3>6. \A f \in LabelStarts(u) : JoinedUpTo(hv, f) = JoinedUpTo(hu, f)
      BY <2>5, <2>6, <3>1, <3>2, <3>3, <3>5, JoinedPrefix
    <3> QED
      BY <3>4, <3>6
  <2>12. JoinedUpTo(image, from) = JoinedUpTo(image, before) \o <<Dot>> \o image[from]
    BY <1>3, <1>5, Zenon
  <2>13. hv[next] = image[from]
    BY <1>2, <2>2, <2>4, <2>6, <2>9
  <2>14. JoinedUpTo(hv, Max(LabelStarts(v))) = JoinedUpTo(image, from)
    <3>1. JoinedUpTo(hu, Max(LabelStarts(u))) = JoinedUpTo(image, before)
      BY <2>1 DEF hu
    <3> QED
      BY <2>7, <2>10, <2>11, <2>12, <2>13, <3>1, Zenon
  <2>15. \A g \in LabelStarts(v) : \E f \in S : LabelAt(v, g) = piece[f]
    BY <2>1, <2>2, <2>4
  <2>16. \A j \in 1 .. Len(v) :
            v[j] = Dot \/ \E f \in S : \E i \in 1 .. Len(piece[f]) : v[j] = piece[f][i]
    <3> SUFFICES ASSUME NEW j \in 1 .. Len(v), v[j] # Dot
                 PROVE  \E f \in S : \E i \in 1 .. Len(piece[f]) : v[j] = piece[f][i]
      OBVIOUS
    <3>1. CASE \E i \in 1 .. Len(u) : v[j] = u[i]
      BY <2>1, <3>1
    <3>2. CASE \E i \in 1 .. Len(p) : v[j] = p[i]
      BY <2>2, <3>2
    <3> QED
      BY <2>4, <3>1, <3>2
  <2> QED
    BY <2>4, <2>14, <2>15, <2>16, Zenon DEF ComesApart, v, hv, image
<1>6. Fails = {}
  <2> SUFFICES ASSUME Fails # {} PROVE FALSE
    OBVIOUS
  <2>1. PICK f \in Fails : \A y \in Fails : f <= y
    <3>1. Fails \in SUBSET Nat
      OBVIOUS
    <3> HIDE DEF Fails
    <3> QED
      BY <3>1, LeastFailure
  <2>2. f \in S /\ ~ComesApart(piece, S, h, f) /\ f # 0
    BY <1>4, <2>1
  <2> DEFINE before == Max({g \in S : g < f})
  <2>3. before \in S /\ before < f
    BY <2>2, BeforeFacts
  <2> HIDE DEF before
  <2>4. ComesApart(piece, S, h, before)
    <3> SUFFICES ASSUME before \in Fails PROVE FALSE
      BY <2>3
    <3>1. f <= before /\ f \in 0 .. N /\ before \in 0 .. N
      BY <2>1, <2>2, <2>3
    <3> QED
      BY <2>3, <3>1
  <2>5. before = Max({g \in S : g < f})
    BY DEF before
  <2> QED
    BY <1>5, <2>2, <2>3, <2>4, <2>5
<1> QED
  BY <1>6

-----------------------------------------------------------------------------
(* The text is in UTF-8, and decode has an outcome for what it was called on. *)

\* A label of a text in UTF-8.
LEMMA UTF8Label ==
    ASSUME NEW s \in Seq(Byte), InUTF8(s), NEW from \in LabelStarts(s)
    PROVE  InUTF8(LabelAt(s, from))
<1> DEFINE e == LabelEnd(s, from)
<1>1. /\ Len(s) \in Nat /\ from \in 0 .. Len(s) /\ e \in from .. Len(s)
      /\ from = 0 \/ (from \in 1 .. Len(s) /\ s[from] = Dot)
      /\ e = Len(s) \/ s[e + 1] = Dot
  BY StartsBefore, EndMeans
<1>2. Dot # Continuation /\ Dot < ASCIILimit /\ Dot \in Nat /\ ASCIILimit \in Nat
  <2>1. Dot \in Nat /\ ASCIILimit \in Nat /\ Continuation \in Nat
    BY ScalarBytesAssumption, ByteAssumption, ASCIILimitAssumption
  <2> QED
    BY <2>1, WholeScalarsAssumption
<1> HIDE DEF e
<1>3. Boundary(s, from)
  <2>1. CASE from = 0
    BY <1>1, <2>1 DEF Boundary
  <2>2. CASE from # 0
    <3>1. from \in 1 .. Len(s) /\ s[from] = Dot /\ ScalarAt(s, from)
      BY <1>1, <1>2, <2>2, InUTF8Means
    <3>2. Dot \in UnicodeScalar /\ Len(UTF8(Dot)) = 1
      <4>1. UTF8(Dot) = <<Dot>>
        BY <1>2 DEF UTF8
      <4> QED
        BY <3>1, <4>1 DEF ScalarAt
    <3>3. from + 1 <= Len(s) => s[from + 1] # Continuation
      BY <3>1, <3>2 DEF ScalarAt
    <3> QED
      BY <1>1, <3>1, <3>3 DEF Boundary, Ending
  <2> QED
    BY <2>1, <2>2
<1>4. Boundary(s, e)
  BY <1>1, <1>2 DEF Boundary, Ending
<1>5. InUTF8(SubSeq(s, from + 1, e))
  BY <1>1, <1>3, <1>4, UTF8Part
<1> QED
  BY <1>5 DEF LabelAt, e

\* What the tables give is in UTF-8, and so is the text mapped and in NFC.
LEMMA UTF8Mapped ==
    ASSUME TablesInUTF8, NEW c \in UnicodeScalar
    PROVE  InUTF8(MappedBytes(c))
<1> DEFINE entry == cswift_idna_mapping_lookup(c)
<1>1. /\ entry.type \in 0 .. 4 /\ entry.mapped_utf8_bytes \in Seq(Byte)
      /\ entry.mapped_byte_count = Len(entry.mapped_utf8_bytes)
      /\ InUTF8(entry.mapped_utf8_bytes)
  BY MappingTableAssumption, LookupTableAssumption, ScalarBytesAssumption
     DEF cswift_idna_mapping_lookup, TablesInUTF8
<1>2. InUTF8(MappedScalars(entry))
  <2> DEFINE s == entry.mapped_utf8_bytes
  <2>1. s \in Seq(Byte) /\ Len(s) \in Nat
    BY <1>1, LenProperties
  <2> HIDE DEF s
  <2>2. SubSeq(s, 1, Len(s)) = s
    BY <2>1, SubSeqFull
  <2> QED
    BY <1>1, <2>2 DEF MappedScalars, s
<1> HIDE DEF entry
<1>3. For(c).kind = "mapped" => InUTF8(For(c).bytes)
  BY <1>1, <1>2 DEF For, entry, IDNA_RESULT_VALID, IDNA_RESULT_MAPPED,
     IDNA_RESULT_DEVIATION, IDNA_RESULT_DISALLOWED, IDNA_RESULT_IGNORED
<1>4. InUTF8(<<>>)
  BY DEF InUTF8
<1>5. InUTF8(UTF8(c))
  BY ScalarInUTF8
<1> QED
  BY <1>3, <1>4, <1>5 DEF MappedBytes

LEMMA UTF8MapText ==
    ASSUME TablesInUTF8, NEW d \in Domains
    PROVE  InUTF8(MapText(d))
<1> DEFINE S == {s \in Seq(Byte) : InUTF8(s)}
<1>1. d \in Seq(UnicodeScalar) /\ \A j \in 1 .. Len(d) : d[j] \in UnicodeScalar
  BY DomainsAssumption, ElementOfSeq
<1>2. \A j \in 1 .. Len(d) : MappedBytes(d[j]) \in S
  BY <1>1, MappedFacts, UTF8Mapped
<1>3. <<>> \in S /\ \A s, t \in S : s \o t \in S
  <2>1. <<>> \in Seq(Byte) /\ InUTF8(<<>>)
    BY DEF InUTF8
  <2>2. \A s, t \in S : s \o t \in S
    BY UTF8Concat, ConcatProperties
  <2> QED
    BY <2>1, <2>2
<1>4. S \in SUBSET Seq(Byte)
  OBVIOUS
<1> HIDE DEF S
<1>5. MapText(d) \in S
  BY <1>1, <1>2, <1>3, <1>4, MapTextStays
<1> QED
  BY <1>5 DEF S

LEMMA UTF8NFC ==
    ASSUME TablesInUTF8, NEW s \in Seq(Byte), InUTF8(s)
    PROVE  InUTF8(NFC(s))
  BY DEF NFC, TablesInUTF8

\* What decode is called on has an outcome.
HasOutcome(label) ==
    HasMarkerPrefix(label) /\ AllASCII(label) => DropMarker(label) \in DOMAIN Decoding

Passed(from) ==
    from < startIndex \/ (from = startIndex /\ pc \in {"dot", "done"})

Outcomes == \A from \in LabelStarts(Text) : Passed(from) => HasOutcome(LabelAt(Text, from))

Readable == InUTF8(Text) /\ Outcomes

\* The two hold at the start and are kept.
LEMMA InitReadable == Init => Readable
<1> SUFFICES ASSUME Init PROVE Readable
  OBVIOUS
<1>1. Text = <<>> /\ startIndex = 0 /\ pc = "map"
  BY EmptyReads DEF Init, Text
<1>2. \A from \in LabelStarts(Text) : from \in Nat
  BY <1>1 DEF LabelStarts, Dots
<1>3. InUTF8(Text)
  BY <1>1 DEF InUTF8
<1> QED
  BY <1>1, <1>2, <1>3 DEF Readable, Outcomes, Passed

LEMMA MapReadable == ASSUME TablesInUTF8, IndInv, Map PROVE Readable'
<1>1. Text' = MapText(domain) /\ InUTF8(MapText(domain)) /\ MapText(domain) \in Seq(Byte)
  BY MapReads, UTF8MapText, TwoPassesAgree DEF IndInv, Storage, Text
<1>2. startIndex' = 0 /\ pc' = "normalise"
  BY DEF Map, IndInv, Beginning
<1>3. \A from \in LabelStarts(Text') : from \in Nat
  BY <1>1, StartsBefore
<1>4. Outcomes'
  BY <1>2, <1>3 DEF Outcomes, Passed
<1> QED
  BY <1>1, <1>4 DEF Readable

LEMMA NormaliseReadable == ASSUME TablesInUTF8, IndInv, Readable, Normalise PROVE Readable'
<1>1. Contents(newBytes') = NFC(Text) /\ Text \in Seq(Byte) /\ Contents(newBytes') \in Seq(Byte)
  BY EnsureNFCReads, ContentsType DEF IndInv, Storage, Normalise, Text
<1>2. InUTF8(NFC(Text))
  BY <1>1, UTF8NFC DEF Readable
<1>3. startIndex' = 0 /\ pc' = "label"
  BY DEF Normalise, IndInv, Beginning
<1>4. \A from \in LabelStarts(Text') : from \in Nat
  BY <1>1, StartsBefore DEF Text
<1>5. Outcomes'
  BY <1>3, <1>4 DEF Outcomes, Passed
<1> QED
  BY <1>1, <1>2, <1>5 DEF Readable, Text

\* What is passed from one label to the next.
LEMMA TurnPasses ==
    ASSUME IndInv, Readable, pc \in {"label", "dot"}, HasOutcome(Label), Text' = Text,
           \/ startIndex' = startIndex
           \/ ~IsLastLabel /\ startIndex' = LabelEnd(Text, startIndex) + 1 /\ pc' = "label"
    PROVE  Readable'
<1>1. Text \in Seq(Byte) /\ startIndex \in LabelStarts(Text)
  BY ContentsType DEF IndInv, Storage, Labels, Text
<1>2. \A from \in LabelStarts(Text) : from \in Nat
  BY <1>1, StartsBefore
<1>3. ASSUME NEW from \in LabelStarts(Text), Passed(from)' PROVE from <= startIndex
  <2>1. CASE startIndex' = startIndex
    BY <1>1, <1>2, <1>3, <2>1 DEF Passed
  <2>2. CASE ~IsLastLabel /\ startIndex' = LabelEnd(Text, startIndex) + 1 /\ pc' = "label"
    <3>1. from < LabelEnd(Text, startIndex) + 1
      BY <1>3, <2>2 DEF Passed
    <3>2. {f \in LabelStarts(Text) : f < LabelEnd(Text, startIndex) + 1}
            = {f \in LabelStarts(Text) : f <= startIndex}
      BY <1>1, <2>2, NextLabel DEF IsLastLabel
    <3> QED
      BY <3>1, <3>2
  <2> QED
    BY <2>1, <2>2
<1>4. ASSUME NEW from \in LabelStarts(Text), Passed(from)'
      PROVE  HasOutcome(LabelAt(Text, from))
  <2>1. from <= startIndex /\ from \in Nat /\ startIndex \in Nat
    BY <1>1, <1>2, <1>3, <1>4
  <2>2. CASE from = startIndex
    BY <2>2 DEF Label
  <2>3. CASE from < startIndex
    BY <2>3 DEF Readable, Outcomes, Passed
  <2> QED
    BY <2>1, <2>2, <2>3
<1>5. Outcomes'
  BY <1>4 DEF Outcomes, HasOutcome
<1> QED
  BY <1>5 DEF Readable

LEMMA EndLabelReadable ==
    ASSUME IndInv, Readable, pc = "label", HasOutcome(Label),
           NEW output, NEW kinds, NEW converted, EndLabel(output, kinds, converted)
    PROVE  Readable'
<1>1. Text' = Text
  BY DEF EndLabel, Text
<1>2. \/ startIndex' = startIndex
      \/ ~IsLastLabel /\ startIndex' = LabelEnd(Text, startIndex) + 1 /\ pc' = "label"
  BY DEF EndLabel
<1> QED
  BY <1>1, <1>2, TurnPasses

LEMMA StepReadable == ASSUME TablesInUTF8, IndInv, Readable, [Next]_vars PROVE Readable'
<1>1. CASE KeepLabel
  BY <1>1, EndLabelReadable DEF KeepLabel, HasOutcome
<1>2. CASE RefuseNonASCII
  BY <1>2, EndLabelReadable DEF RefuseNonASCII, Refused, HasOutcome
<1>3. CASE Decode
  BY <1>3, EndLabelReadable DEF Decode, CallsDecode, HasOutcome
<1>4. CASE DecodeFails
  <2>1. \E output, kinds, converted : EndLabel(output, kinds, converted)
    BY <1>4 DEF DecodeFails
  <2>2. pc = "label" /\ HasOutcome(Label)
    BY <1>4 DEF DecodeFails, CallsDecode, HasOutcome
  <2> QED
    BY <2>1, <2>2, EndLabelReadable
<1>5. CASE AppendDot
  <2>1. Text' = Text /\ pc = "dot" /\ pc' = "label" /\ ~IsLastLabel
        /\ startIndex' = LabelEnd(Text, startIndex) + 1 /\ startIndex \in LabelStarts(Text)
    BY <1>5 DEF AppendDot, Text, IndInv, Labels
  <2>2. HasOutcome(Label)
    BY <2>1 DEF Readable, Outcomes, Passed, Label
  <2> QED
    BY <2>1, <2>2, TurnPasses
<1>6. CASE UNCHANGED vars \/ NormaliseStops
  <2>1. Text' = Text /\ startIndex' = startIndex
        /\ (pc' = pc \/ pc' = "stopped")
    BY <1>6 DEF vars, NormaliseStops, Text
  <2>2. Outcomes'
    BY <2>1 DEF Readable, Outcomes, Passed, HasOutcome
  <2> QED
    BY <2>1, <2>2 DEF Readable
<1>7. CASE DotPastTuple \/ DecodeUnwrapsNil
  <2>1. Text' = Text /\ startIndex' = startIndex /\ pc' = "undefined"
    BY <1>7 DEF DotPastTuple, DecodeUnwrapsNil, Text
  <2>2. Outcomes'
    BY <2>1 DEF Readable, Outcomes, Passed, HasOutcome
  <2> QED
    BY <2>1, <2>2 DEF Readable
<1> QED
  BY <1>1, <1>2, <1>3, <1>4, <1>5, <1>6, <1>7, MapReadable, NormaliseReadable
  DEF Next, Finished

-----------------------------------------------------------------------------
(* Scalars that are mapped to themselves. *)

\* Two parts that meet.
LEMMA PartsMeet ==
    ASSUME NEW s \in Seq(Byte), NEW a \in Nat, NEW b \in Nat, a <= b, b <= Len(s)
    PROVE  SubSeq(s, 1, a) \o SubSeq(s, a + 1, b) = SubSeq(s, 1, b)
<1> DEFINE N == Len(s)
           l == SubSeq(s, 1, a)
           r == SubSeq(s, a + 1, b)
           t == SubSeq(s, 1, b)
<1>1. N \in Nat /\ \A j \in 1 .. N : s[j] \in Byte
  BY LenProperties, ElementOfSeq
<1>2. b <= N
  OBVIOUS
<1> HIDE DEF N
<1>3. /\ \A j \in 1 .. a : s[j] \in Byte
      /\ \A j \in a + 1 .. b : s[j] \in Byte
      /\ \A j \in 1 .. b : s[j] \in Byte
  BY <1>1, <1>2
<1>4. l \in Seq(Byte) /\ Len(l) = a /\ \A j \in 1 .. a : l[j] = s[j]
  <2>1. l \in Seq(Byte) /\ Len(l) = (IF 1 <= a THEN a - 1 + 1 ELSE 0)
        /\ \A j \in 1 .. a - 1 + 1 : l[j] = s[1 + j - 1]
    BY <1>3, SubSeqProperties
  <2> HIDE DEF l
  <2>2. \A j \in 1 .. a : 1 + j - 1 = j
    OBVIOUS
  <2> QED
    BY <2>1, <2>2
<1>5. t \in Seq(Byte) /\ Len(t) = b /\ \A j \in 1 .. b : t[j] = s[j]
  <2>1. t \in Seq(Byte) /\ Len(t) = (IF 1 <= b THEN b - 1 + 1 ELSE 0)
        /\ \A j \in 1 .. b - 1 + 1 : t[j] = s[1 + j - 1]
    BY <1>3, SubSeqProperties
  <2> HIDE DEF t
  <2>2. \A j \in 1 .. b : 1 + j - 1 = j
    OBVIOUS
  <2> QED
    BY <2>1, <2>2
<1>6. r \in Seq(Byte) /\ Len(r) = b - a /\ \A j \in 1 .. b - a : r[j] = s[a + j]
  <2>1. r \in Seq(Byte)
        /\ Len(r) = (IF a + 1 <= b THEN b - (a + 1) + 1 ELSE 0)
        /\ \A j \in 1 .. b - (a + 1) + 1 : r[j] = s[(a + 1) + j - 1]
    BY <1>3, SubSeqProperties
  <2> HIDE DEF r
  <2>2. \A j \in 1 .. b - a : (a + 1) + j - 1 = a + j
    OBVIOUS
  <2> QED
    BY <2>1, <2>2
<1> HIDE DEF l, r, t
<1> DEFINE both == l \o r
<1>7. /\ both \in Seq(Byte) /\ Len(both) = a + (b - a)
      /\ \A j \in 1 .. a : both[j] = l[j]
      /\ \A j \in a + 1 .. a + (b - a) : both[j] = r[j - a]
  BY <1>4, <1>6, ConcatProperties
<1> HIDE DEF both
<1>8. \A j \in 1 .. b : both[j] = s[j]
  <2> SUFFICES ASSUME NEW j \in 1 .. b PROVE both[j] = s[j]
    OBVIOUS
  <2>1. CASE j <= a
    BY <1>4, <1>7, <2>1
  <2>2. CASE ~(j <= a)
    <3>1. j \in a + 1 .. a + (b - a) /\ j - a \in 1 .. b - a /\ a + (j - a) = j
      BY <2>2
    <3> QED
      BY <1>6, <1>7, <3>1
  <2> QED
    BY <2>1, <2>2
<1>9. Len(both) = Len(t) /\ \A j \in 1 .. Len(both) : both[j] = t[j]
  <2>1. Len(both) = b
    BY <1>7
  <2> QED
    BY <1>5, <1>8, <2>1
<1>10. both = t
  BY <1>5, <1>7, <1>9, SeqEqual
<1> QED
  BY <1>10 DEF both, l, r, t

\* From one end to the next there is one scalar.
LEMMA OneScalar ==
    ASSUME NEW s \in Seq(Byte), InUTF8(s), NEW k \in 1 .. Len(ScalarEnds(s)),
           NEW a, a = EndOf(ScalarEnds(s), k - 1), NEW b, b = EndOf(ScalarEnds(s), k)
    PROVE  /\ a \in Nat /\ b \in Nat /\ a < b /\ b <= Len(s)
           /\ s[a + 1] \in UnicodeScalar /\ s[a + 1] # Continuation
           /\ ScalarsOf(s)[k] = s[a + 1]
           /\ SubSeq(s, a + 1, b) = UTF8(s[a + 1])
<1> DEFINE E == ScalarEnds(s)
           K == Len(ScalarEnds(s))
           N == Len(s)
           c == s[a + 1]
           w == Len(UTF8(c))
<1>1. /\ N \in Nat /\ K \in Nat
      /\ \A i \in 0 .. K : EndOf(E, i) \in Nat /\ Boundary(s, EndOf(E, i))
      /\ \A i, l \in 0 .. K : i < l => EndOf(E, i) < EndOf(E, l)
      /\ \A j : Boundary(s, j) => \E i \in 0 .. K : EndOf(E, i) = j
  BY EndsAreBoundaries, LenProperties
<1>2. ScalarsOf(s)[k] = c
  BY ScalarsFacts
<1>3. k \in 1 .. K /\ a = EndOf(E, k - 1) /\ b = EndOf(E, k)
  OBVIOUS
<1>4. s # <<>> => s[1] # Continuation
  BY InUTF8Means
<1>5. s = <<>> => N = 0
  OBVIOUS
<1>6. \A j \in 1 .. N : s[j] # Continuation => ScalarAt(s, j)
  BY InUTF8Means
<1> HIDE DEF E, K
<1>7. k - 1 \in 0 .. K /\ k \in 0 .. K /\ k - 1 < k
  BY <1>1, <1>3
<1>8. a \in 0 .. N /\ b \in 0 .. N /\ a < b /\ Boundary(s, a) /\ Boundary(s, b)
  BY <1>1, <1>3, <1>7 DEF Boundary
<1> HIDE DEF N
<1>9. c # Continuation /\ a + 1 \in 1 .. N
  <2>1. a + 1 \in 1 .. N /\ a # N /\ N # 0
    BY <1>1, <1>8
  <2>2. CASE a = 0
    BY <1>4, <1>5, <2>1, <2>2
  <2>3. CASE a # 0
    BY <1>8, <2>1, <2>3 DEF Boundary, Ending, N
  <2> QED
    BY <2>1, <2>2, <2>3
<1>10. /\ c \in UnicodeScalar /\ (a + 1) + w <= N + 1
       /\ \A l \in (a + 1) + 1 .. (a + 1) + w - 1 : s[l] = Continuation
       /\ (a + 1) + w <= N => s[(a + 1) + w] # Continuation
  BY <1>6, <1>9 DEF ScalarAt, N
<1>11. /\ UTF8(c) \in Seq(Byte) /\ w \in 1 .. 3 /\ UTF8(c)[1] = c
       /\ \A l \in 2 .. w : UTF8(c)[l] = Continuation
  BY <1>10, UTF8Facts
<1> HIDE DEF w
<1>16. N \in Nat /\ a \in 0 .. N /\ b \in 0 .. N /\ a < b /\ w \in 1 .. 3 /\ (a + 1) + w <= N + 1
  BY <1>1, <1>8, <1>10, <1>11
<1> HIDE DEF c
<1>12. a + w <= b
  <2> SUFFICES ASSUME ~(a + w <= b) PROVE FALSE
    OBVIOUS
  <2>1. b + 1 \in (a + 1) + 1 .. (a + 1) + w - 1 /\ b # N /\ b # 0
    BY <1>16
  <2>2. s[b + 1] = Continuation
    BY <1>10, <2>1
  <2> QED
    BY <1>8, <2>1, <2>2 DEF Boundary, Ending, N
<1>13. b <= a + w
  <2>1. a + w \in 0 .. N /\ a + w # 0 /\ (a + 1) + w = (a + w) + 1
        /\ (a + w = N \/ (a + 1) + w <= N)
    BY <1>16
  <2>2. Boundary(s, a + w)
    BY <1>10, <2>1 DEF Boundary, Ending, N
  <2>3. PICK i \in 0 .. K : EndOf(E, i) = a + w
    BY <1>1, <2>2
  <2>4. ~(i <= k - 1)
    <3> SUFFICES ASSUME i <= k - 1 PROVE FALSE
      OBVIOUS
    <3>1. i < k - 1 \/ i = k - 1
      BY <1>1, <1>3
    <3>2. EndOf(E, i) < a \/ EndOf(E, i) = a
      BY <1>1, <1>3, <1>7, <3>1
    <3> QED
      BY <1>8, <1>11, <2>3, <3>2
  <2>5. i = k \/ k < i
    BY <1>1, <1>3, <2>4
  <2>6. EndOf(E, k) = EndOf(E, i) \/ EndOf(E, k) < EndOf(E, i)
    BY <1>1, <1>7, <2>5
  <2>7. b = a + w \/ b < a + w
    BY <1>3, <2>3, <2>6
  <2> QED
    BY <1>8, <1>11, <2>7
<1>14. b = a + w
  BY <1>8, <1>11, <1>12, <1>13
<1>15. SubSeq(s, a + 1, b) = UTF8(c)
  <2> DEFINE p == SubSeq(s, a + 1, b)
             q == UTF8(c)
  <2>1. \A j \in a + 1 .. b : s[j] \in Byte
    <3>1. \A j \in a + 1 .. b : j \in 1 .. N
      BY <1>1, <1>8
    <3> QED
      BY <3>1, ElementOfSeq DEF N
  <2>2. a \in Int /\ b \in Int /\ a + 1 \in Int /\ b - (a + 1) + 1 = w /\ a + 1 <= b
    BY <1>8, <1>11, <1>14
  <2>3. /\ p \in Seq(Byte) /\ Len(p) = (IF a + 1 <= b THEN b - (a + 1) + 1 ELSE 0)
        /\ \A j \in 1 .. b - (a + 1) + 1 : p[j] = s[(a + 1) + j - 1]
    BY <2>1, <2>2, SubSeqProperties
  <2>4. q \in Seq(Byte) /\ Len(q) = w /\ q[1] = c
        /\ \A l \in 2 .. w : q[l] = Continuation
    BY <1>11 DEF w
  <2> HIDE DEF p, q
  <2>5. Len(p) = w /\ \A j \in 1 .. w : p[j] = s[(a + 1) + j - 1]
    BY <2>2, <2>3
  <2>6. \A j \in 1 .. w : p[j] = q[j]
    <3> SUFFICES ASSUME NEW j \in 1 .. w PROVE p[j] = q[j]
      OBVIOUS
    <3>1. CASE j = 1
      <4>1. (a + 1) + j - 1 = a + 1
        BY <1>8, <3>1
      <4>2. p[j] = s[a + 1]
        BY <2>5, <4>1
      <4>3. s[a + 1] = c
        BY DEF c
      <4> QED
        BY <2>4, <3>1, <4>2, <4>3
    <3>2. CASE j # 1
      <4>1. j \in 2 .. w /\ (a + 1) + j - 1 \in (a + 1) + 1 .. (a + 1) + w - 1
        BY <1>8, <1>11, <3>2
      <4> QED
        BY <1>10, <2>4, <2>5, <4>1
    <3> QED
      BY <3>1, <3>2
  <2>7. p = q
    BY <2>3, <2>4, <2>5, <2>6, SeqEqual
  <2> QED
    BY <2>7 DEF p, q
<1> QED
  BY <1>1, <1>2, <1>8, <1>9, <1>10, <1>15 DEF N, c

\* The last scalar ends where the text does.
LEMMA LastEnd ==
    ASSUME NEW s \in Seq(Byte)
    PROVE  EndOf(ScalarEnds(s), Len(ScalarEnds(s))) = Len(s)
<1> DEFINE E == ScalarEnds(s)
           K == Len(ScalarEnds(s))
           N == Len(s)
<1>1. /\ N \in Nat /\ K \in Nat
      /\ \A i \in 0 .. K : EndOf(E, i) \in Nat /\ Boundary(s, EndOf(E, i))
      /\ \A i, l \in 0 .. K : i < l => EndOf(E, i) < EndOf(E, l)
      /\ \A j : Boundary(s, j) => \E i \in 0 .. K : EndOf(E, i) = j
  BY EndsAreBoundaries, LenProperties
<1>2. Boundary(s, N)
  BY <1>1 DEF Boundary, Ending
<1> HIDE DEF E, K
<1>3. PICK i \in 0 .. K : EndOf(E, i) = N
  BY <1>1, <1>2
<1>4. EndOf(E, K) \in 0 .. N
  BY <1>1 DEF Boundary
<1> HIDE DEF N
<1>5. i = K \/ N < EndOf(E, K)
  BY <1>1, <1>3
<1>6. EndOf(E, K) = N
  BY <1>1, <1>3, <1>4, <1>5
<1> QED
  BY <1>6 DEF E, K, N

\* Every first byte is one of the scalars.
LEMMA FirstBytes ==
    ASSUME NEW s \in Seq(Byte), NEW j \in 1 .. Len(s), s[j] # Continuation
    PROVE  s[j] \in ToSet(ScalarsOf(s))
<1> DEFINE E == ScalarEnds(s)
           K == Len(ScalarEnds(s))
           N == Len(s)
           d == ScalarsOf(s)
<1>1. /\ N \in Nat /\ K \in Nat
      /\ \A i : Boundary(s, i) => \E k \in 0 .. K : EndOf(E, k) = i
  BY EndsAreBoundaries, LenProperties
<1>2. EndOf(E, K) = N
  BY LastEnd
<1>3. d \in Seq(Byte) /\ Len(d) = K /\ \A k \in 1 .. K : d[k] = s[EndOf(E, k - 1) + 1]
  BY ScalarsFacts
<1>4. j \in 1 .. N
  OBVIOUS
<1>5. Boundary(s, j - 1)
  <2>1. j - 1 \in 0 .. N /\ (j - 1) + 1 = j
    BY <1>1, <1>4
  <2> QED
    BY <2>1 DEF Boundary, Ending
<1> HIDE DEF E, K, N, d
<1>6. PICK k \in 0 .. K : EndOf(E, k) = j - 1
  BY <1>1, <1>5
<1>7. k # K
  BY <1>1, <1>2, <1>4, <1>6
<1>8. k + 1 \in 1 .. K /\ (k + 1) - 1 = k /\ (j - 1) + 1 = j
  BY <1>1, <1>4, <1>7
<1>9. d[k + 1] = s[j] /\ k + 1 \in DOMAIN d
  <2>1. d[k + 1] = s[EndOf(E, (k + 1) - 1) + 1]
    BY <1>3, <1>8
  <2>2. DOMAIN d = 1 .. K
    BY <1>3, LenProperties
  <2> QED
    BY <1>6, <1>8, <2>1, <2>2
<1> QED
  BY <1>9 DEF ToSet, d

\* A text all of whose scalars are valid, or deviations, is mapped to itself.
LEMMA MapsToItself ==
    ASSUME NEW s \in Seq(Byte), InUTF8(s),
           \A j \in 1 .. Len(s) : s[j] # Continuation => MappedBytes(s[j]) = UTF8(s[j])
    PROVE  MapText(ScalarsOf(s)) = s
<1> DEFINE E == ScalarEnds(s)
           K == Len(ScalarEnds(s))
           N == Len(s)
           d == ScalarsOf(s)
           piece == [k \in 1 .. Len(d) |-> MappedBytes(d[k])]
<1>1. /\ N \in Nat /\ K \in Nat
  BY EndsAreBoundaries, LenProperties
<1>2. d \in Seq(Byte) /\ Len(d) = K
  BY ScalarsFacts
<1>3. ASSUME NEW k \in 1 .. K
      PROVE  /\ EndOf(E, k - 1) \in Nat /\ EndOf(E, k) \in Nat
             /\ EndOf(E, k - 1) <= EndOf(E, k) /\ EndOf(E, k) <= N
             /\ d[k] \in UnicodeScalar
             /\ MappedBytes(d[k]) = SubSeq(s, EndOf(E, k - 1) + 1, EndOf(E, k))
  <2> DEFINE a == EndOf(E, k - 1)
             b == EndOf(E, k)
  <2>1. /\ a \in Nat /\ b \in Nat /\ a < b /\ b <= N
        /\ s[a + 1] \in UnicodeScalar /\ s[a + 1] # Continuation
        /\ d[k] = s[a + 1] /\ SubSeq(s, a + 1, b) = UTF8(s[a + 1])
    BY OneScalar
  <2> HIDE DEF a, b, N
  <2>2. a + 1 \in 1 .. N
    BY <1>1, <2>1
  <2>3. MappedBytes(s[a + 1]) = UTF8(s[a + 1])
    BY <2>1, <2>2 DEF N
  <2>4. a <= b
    BY <2>1
  <2> QED
    BY <2>1, <2>3, <2>4 DEF a, b
<1>4. d \in Seq(UnicodeScalar)
  <2> HIDE DEF d
  <2>1. d = [k \in 1 .. K |-> d[k]]
    BY <1>2, LenProperties
  <2>2. d \in [1 .. K -> UnicodeScalar]
    BY <1>3, <2>1
  <2> QED
    BY <1>1, <2>2, SeqDef
<1>5. PICK text : MapText(d) = text[Len(d)] /\ Grows(text, Len(d), piece)
  <2> HIDE DEF d
  <2> QED
    BY <1>4, MapTextGrows
<1>6. \A k \in 1 .. K : piece[k] = MappedBytes(d[k])
  BY <1>2
<1>7. MapText(d) = text[K] /\ Grows(text, K, piece)
  <2> HIDE DEF piece, d
  <2> QED
    BY <1>2, <1>5
<1>8. EndOf(E, K) = N
  BY LastEnd
<1> HIDE DEF E, K, N, d, piece
<1> DEFINE R == {k \in 0 .. K : text[k] = SubSeq(s, 1, EndOf(E, k))}
<1>9. 0 \in R
  <2>1. text[0] = <<>> /\ EndOf(E, 0) = 0
    BY <1>7 DEF Grows, EndOf
  <2>2. SubSeq(s, 1, 0) = <<>>
    <3>1. 1 \in Int /\ 0 \in Int /\ 0 < 1
      OBVIOUS
    <3> QED
      BY <3>1, SubSeqEmpty, Zenon
  <2>3. text[0] = SubSeq(s, 1, EndOf(E, 0)) /\ 0 \in 0 .. K
    BY <1>1, <2>1, <2>2
  <2> QED
    BY <2>3
<1>10. ASSUME NEW k \in 1 .. K, k - 1 \in R PROVE k \in R
  <2>1. text[k] = text[k - 1] \o piece[k]
    BY <1>7 DEF Grows
  <2>2. text[k - 1] = SubSeq(s, 1, EndOf(E, k - 1))
    BY <1>10
  <2>3. piece[k] = SubSeq(s, EndOf(E, k - 1) + 1, EndOf(E, k))
    BY <1>3, <1>6
  <2>4. SubSeq(s, 1, EndOf(E, k - 1)) \o SubSeq(s, EndOf(E, k - 1) + 1, EndOf(E, k))
            = SubSeq(s, 1, EndOf(E, k))
    BY <1>3, PartsMeet DEF N
  <2>5. text[k] = SubSeq(s, 1, EndOf(E, k)) /\ k \in 0 .. K
    <3>1. k \in 0 .. K
      BY <1>1
    <3> QED
      BY <2>1, <2>2, <2>3, <2>4, <3>1, Zenon
  <2> QED
    BY <2>5
<1>11. K \in R
  <2> HIDE DEF R
  <2>1. \A k \in 0 .. K : k \in R
    BY <1>1, <1>9, <1>10, InductionUpTo
  <2> QED
    BY <1>1, <2>1
<1>12. MapText(d) = SubSeq(s, 1, N)
  BY <1>7, <1>8, <1>11
<1>13. SubSeq(s, 1, N) = s
  BY SubSeqFull DEF N
<1> QED
  BY <1>12, <1>13 DEF d

-----------------------------------------------------------------------------
(* What a label without a fault is converted to. *)

\* Converted, checked and mapped again it is itself.
Settled(p) ==
    /\ p \in Seq(Byte) /\ InUTF8(p) /\ NoDot(p)
    /\ Converted(p) = p /\ Verdict(p, config) = {} /\ InNFC(p)
    /\ \A j \in 1 .. Len(p) : p[j] # Continuation => For(p[j]).kind \in {"valid", "deviation"}

\* What it means to be found valid under the strict setting.
LEMMA VerifiedMeans ==
    ASSUME NEW s \in Seq(Byte), NEW conf, ~conf.ignoreInvalidPunycode,
           verifyValidLabel(s, conf) = {}
    PROVE  /\ InNFC(s) /\ ~HasMarkerPrefix(s)
           /\ \A j \in 1 .. Len(s) :
                s[j] # Continuation => For(s[j]).kind \in {"valid", "deviation"}
<1> DEFINE scalars == ToSet(ScalarsOf(s))
           bad == \E c \in scalars : For(c).kind \notin {"valid", "deviation"}
<1>1. \A condition, kind : When(condition, kind) = {} => ~condition
  BY Zenon DEF When
<1>2. /\ When(~conf.ignoreInvalidPunycode /\ ~InNFC(s), "notNFC") = {}
      /\ When(conf.checkHyphens /\ HyphensThirdAndFourth(s), "hyphens34") = {}
      /\ When(~conf.checkHyphens /\ ~conf.ignoreInvalidPunycode /\ HasMarkerPrefix(s),
              "startsWithXN") = {}
      /\ When(~conf.ignoreInvalidPunycode /\ bad, "invalidScalar") = {}
  BY ZenonT(30) DEF verifyValidLabel
<1>3. /\ InNFC(s) /\ ~bad
      /\ conf.checkHyphens => ~HyphensThirdAndFourth(s)
      /\ ~conf.checkHyphens => ~HasMarkerPrefix(s)
  <2> HIDE DEF bad
  <2> QED
    BY <1>1, <1>2, Zenon
<1>4. HasMarkerPrefix(s) => HyphensThirdAndFourth(s)
  <2> SUFFICES ASSUME HasMarkerPrefix(s) PROVE HyphensThirdAndFourth(s)
    OBVIOUS
  <2> DEFINE first == SubSeq(s, 1, 4)
  <2>1. Len(s) >= 4 /\ first = <<LetterX, LetterN, Hyphen, Hyphen>>
    BY DEF HasMarkerPrefix
  <2>2. Len(s) \in Nat /\ \A j \in 1 .. Len(s) : s[j] \in Byte
    BY LenProperties, ElementOfSeq
  <2>3. \A j \in 1 .. 4 : first[j] = s[1 + j - 1]
    <3>1. \A j \in 1 .. 4 : s[j] \in Byte
      BY <2>1, <2>2
    <3>2. \A j \in 1 .. 4 - 1 + 1 : first[j] = s[1 + j - 1]
      BY <3>1, SubSeqProperties
    <3> HIDE DEF first
    <3> QED
      BY <3>2
  <2> HIDE DEF first
  <2>4. first[3] = s[3] /\ first[4] = s[4]
    BY <2>3
  <2>5. first[3] = Hyphen /\ first[4] = Hyphen
    BY <2>1
  <2> QED
    BY <2>1, <2>4, <2>5 DEF HyphensThirdAndFourth
<1>5. ASSUME NEW j \in 1 .. Len(s), s[j] # Continuation
      PROVE  For(s[j]).kind \in {"valid", "deviation"}
  <2>1. s[j] \in scalars
    BY <1>5, FirstBytes
  <2> HIDE DEF scalars
  <2> QED
    BY <1>3, <2>1
<1> QED
  BY <1>3, <1>4, <1>5

\* A label without a fault is converted to one that stays as it is.
LEMMA ConvertedSettles ==
    ASSUME DataFits, ~config.ignoreInvalidPunycode,
           NEW l \in Seq(Byte), InUTF8(l), NoDot(l), HasOutcome(l), Verdict(l, config) = {}
    PROVE  Settled(Converted(l))
<1> DEFINE r == Converted(l)
<1>1. r \in Seq(Byte) /\ InUTF8(r) /\ NoDot(r) /\ verifyValidLabel(r, config) = {}
  <2>1. CASE ~HasMarkerPrefix(l)
    BY <2>1 DEF Converted, Verdict
  <2>2. CASE HasMarkerPrefix(l)
    <3>1. AllASCII(l) /\ ~Undecodable(l)
          /\ verifyValidLabel(r, config) = {}
      <4> DEFINE more == checkInvalidPunycode(r, config)
                 judged == verifyValidLabel(r, config)
      <4>1. Verdict(l, config) =
                IF ~AllASCII(l) THEN {"xnButNonASCII"}
                ELSE IF Undecodable(l) THEN {"decodeFailed"}
                ELSE more \cup judged
        BY <2>2, Zenon DEF Verdict
      <4> HIDE DEF more, judged
      <4>2. AllASCII(l) /\ ~Undecodable(l) /\ judged = {}
        BY <4>1
      <4> QED
        BY <4>2 DEF judged
    <3>2. DropMarker(l) \in DOMAIN Decoding /\ r = Decoding[DropMarker(l)].bytes
      BY <2>2, <3>1 DEF HasOutcome, Converted
    <3>3. r \in Seq(Byte) /\ InUTF8(r)
      BY <3>2, DecodingAssumption DEF DataFits, TablesInUTF8
    <3>4. Dot \notin ToSet(DropMarker(l))
      <4> DEFINE rest == SubSeq(l, 5, Len(l))
      <4>1. Len(l) \in Nat /\ \A j \in 1 .. Len(l) : l[j] \in Byte /\ l[j] # Dot
        BY LenProperties, ElementOfSeq DEF NoDot
      <4>2. \A j \in 5 .. Len(l) : l[j] \in {b \in Byte : b # Dot}
        BY <4>1
      <4>3. rest \in Seq({b \in Byte : b # Dot})
        BY <4>1, <4>2, SubSeqProperties
      <4> HIDE DEF rest
      <4>4. \A j \in DOMAIN rest : rest[j] # Dot
        BY <4>3
      <4> QED
        BY <4>4 DEF ToSet, DropMarker, rest
    <3>5. Dot \notin ToSet(r)
      BY <3>2, <3>4 DEF DataFits, DecodingAddsNoDot
    <3>6. NoDot(r)
      <4> HIDE DEF r
      <4>1. DOMAIN r = 1 .. Len(r)
        BY <3>3, LenProperties
      <4> QED
        BY <3>5, <4>1 DEF NoDot, ToSet
    <3> QED
      BY <3>1, <3>3, <3>6
  <2> QED
    BY <2>1, <2>2
<1> HIDE DEF r
<1>2. /\ InNFC(r) /\ ~HasMarkerPrefix(r)
      /\ \A j \in 1 .. Len(r) : r[j] # Continuation => For(r[j]).kind \in {"valid", "deviation"}
  BY <1>1, VerifiedMeans
<1>3. Converted(r) = r /\ Verdict(r, config) = {}
  BY <1>1, <1>2, Zenon DEF Converted, Verdict
<1> QED
  BY <1>1, <1>2, <1>3 DEF Settled, r

\* Joined with dots, pieces in UTF-8 are a text in UTF-8.
LEMMA JoinedInUTF8 ==
    ASSUME Dot \in UnicodeScalar,
           NEW N \in Nat, NEW S \in SUBSET (0 .. N), 0 \in S,
           NEW piece \in [S -> Seq(Byte)], \A f \in S : InUTF8(piece[f])
    PROVE  \A f \in S : JoinedUpTo(piece, f) \in Seq(Byte) /\ InUTF8(JoinedUpTo(piece, f))
<1> DEFINE Good(f) == JoinedUpTo(piece, f) \in Seq(Byte) /\ InUTF8(JoinedUpTo(piece, f))
           Fails == {f \in S : ~Good(f)}
<1>1. /\ JoinedUpTo(piece, 0) = piece[0]
      /\ \A f \in S : f # 0 =>
            JoinedUpTo(piece, f)
                = JoinedUpTo(piece, Max({g \in S : g < f})) \o <<Dot>> \o piece[f]
  BY JoinedIsRecursive
<1>2. <<Dot>> \in Seq(Byte) /\ InUTF8(<<Dot>>)
  <2>1. Dot \in Byte /\ Dot \in Nat /\ ASCIILimit \in Nat /\ Dot < ASCIILimit
    BY ScalarBytesAssumption, ByteAssumption, ASCIILimitAssumption, WholeScalarsAssumption
  <2>2. UTF8(Dot) = <<Dot>>
    BY <2>1 DEF UTF8
  <2>3. InUTF8(UTF8(Dot))
    BY ScalarInUTF8
  <2> QED
    BY <2>1, <2>2, <2>3
<1> SUFFICES ASSUME Fails # {} PROVE FALSE
  OBVIOUS
<1>3. PICK f \in Fails : \A y \in Fails : f <= y
  <2>1. Fails \in SUBSET Nat
    <3>1. \A f \in S : f \in Nat
      OBVIOUS
    <3> QED
      BY <3>1, Zenon
  <2> HIDE DEF Fails
  <2> QED
    BY <2>1, LeastFailure
<1>4. f \in S /\ ~Good(f) /\ f \in Nat
  BY <1>3
<1>5. f # 0
  BY <1>1, <1>4
<1> DEFINE before == Max({g \in S : g < f})
<1>6. before \in S /\ before < f
  BY <1>4, <1>5, BeforeFacts
<1>7. JoinedUpTo(piece, f) = JoinedUpTo(piece, before) \o <<Dot>> \o piece[f]
  BY <1>1, <1>4, <1>5, Zenon
<1> HIDE DEF before
<1>8. Good(before)
  <2> SUFFICES ASSUME before \in Fails PROVE FALSE
    BY <1>6
  <2>1. f <= before /\ before \in 0 .. N
    BY <1>3, <1>6
  <2> QED
    BY <1>4, <1>6, <2>1
<1> DEFINE u == JoinedUpTo(piece, before)
           p == piece[f]
<1>9. u \in Seq(Byte) /\ InUTF8(u) /\ p \in Seq(Byte) /\ InUTF8(p)
  BY <1>4, <1>8
<1> HIDE DEF u, p
<1>10. u \o <<Dot>> \in Seq(Byte) /\ InUTF8(u \o <<Dot>>)
  BY <1>2, <1>9, UTF8Concat, ConcatProperties
<1> DEFINE v == u \o <<Dot>>
<1>11. v \in Seq(Byte) /\ InUTF8(v)
  BY <1>10
<1> HIDE DEF v
<1>12. v \o p \in Seq(Byte) /\ InUTF8(v \o p)
  BY <1>9, <1>11, UTF8Concat, ConcatProperties
<1>13. JoinedUpTo(piece, f) = v \o p
  BY <1>7 DEF u, v, p
<1> QED
  BY <1>4, <1>12, <1>13

-----------------------------------------------------------------------------
(* A text without a fault. *)

LEMMA LabelHasNoDot ==
    ASSUME NEW s \in Seq(Byte), NEW f \in LabelStarts(s)
    PROVE  NoDot(LabelAt(s, f))
<1> DEFINE e == LabelEnd(s, f)
           N == Len(s)
           l == LabelAt(s, f)
<1>1. N \in Nat /\ f \in 0 .. N /\ e \in f .. N /\ \A j \in f + 1 .. e : s[j] # Dot
  BY StartsBefore, EndMeans
<1> HIDE DEF e, N
<1>2. \A j \in f + 1 .. e : s[j] \in {b \in Byte : b # Dot}
  <2>1. \A j \in f + 1 .. e : j \in 1 .. N
    BY <1>1
  <2> QED
    BY <1>1, <2>1, ElementOfSeq DEF N
<1>3. f + 1 \in Int /\ e \in Int
  BY <1>1
<1>4. SubSeq(s, f + 1, e) \in Seq({b \in Byte : b # Dot})
  BY <1>2, <1>3, SubSeqProperties
<1>5. l \in Seq({b \in Byte : b # Dot})
  BY <1>4 DEF LabelAt, e
<1> HIDE DEF l
<1> QED
  BY <1>5, ElementOfSeq DEF NoDot, l

\* At the end all labels are passed: without a fault, none has one.
LEMMA LabelsSettle ==
    ASSUME DataFits, IndInv, Readable,
           pc = "done", ~config.ignoreInvalidPunycode, errors = {},
           NEW f \in LabelStarts(Text)
    PROVE  /\ Settled(Converted(LabelAt(Text, f)))
           /\ Verdict(LabelAt(Text, f), config) = {}
<1> DEFINE S == LabelStarts(Text)
           N == Len(Text)
           l == LabelAt(Text, f)
<1>1. /\ Text \in Seq(Byte) /\ N \in Nat /\ S \in SUBSET (0 .. N) /\ 0 \in S
      /\ l \in Seq(Byte)
  BY ContentsType, StartsBefore, LabelFacts DEF IndInv, Storage, Text
<1>2. InUTF8(l) /\ NoDot(l)
  BY <1>1, UTF8Label, LabelHasNoDot DEF Readable
<1>3. f <= startIndex
  <2>1. startIndex \in S /\ Dots(Text, startIndex) = {}
    BY DEF IndInv, Labels, IsLastLabel
  <2>2. {g \in S : g <= startIndex} = S
    BY <1>1, <2>1, LastLabel
  <2> QED
    BY <2>2
<1>4. HasOutcome(l)
  <2>1. f < startIndex \/ f = startIndex
    <3>1. startIndex \in S /\ f \in Nat /\ startIndex \in Nat
      BY <1>1 DEF IndInv, Labels
    <3> QED
      BY <1>3, <3>1
  <2> QED
    BY <2>1 DEF Readable, Outcomes, Passed
<1>5. Verdict(l, config) = {}
  <2>1. errors = Judged(UpTo(startIndex)) /\ f \in UpTo(startIndex)
    BY <1>3 DEF IndInv, Labels, UpTo
  <2> HIDE DEF l
  <2>2. \A kind \in Verdict(l, config) : [at |-> f, kind |-> kind] \in Judged(UpTo(startIndex))
    BY <2>1 DEF Judged, l
  <2> QED
    BY <2>1, <2>2
<1> HIDE DEF l
<1>6. Settled(Converted(l))
  BY <1>1, <1>2, <1>4, <1>5, ConvertedSettles
<1> QED
  BY <1>5, <1>6 DEF l

\* The converted text comes apart into such labels, and is stable with them.
LEMMA StableAtEnd ==
    ASSUME DataFits, IndInv, Output, Readable,
           pc = "done", ~config.ignoreInvalidPunycode, errors = {}, ~DotMeetsFullBuffer(Text)
    PROVE  LET again == NFC(MapText(ScalarsOf(Contents(newerBytes))))
           IN  /\ again = Contents(newerBytes)
               /\ ConvertedText(again) = again
               /\ \A from \in LabelStarts(again) : Verdict(LabelAt(again, from), config) = {}
<1> DEFINE S == LabelStarts(Text)
           N == Len(Text)
           piece == [f \in S |-> Converted(LabelAt(Text, f))]
           h == [l \in Seq(Byte) |-> Converted(l)]
           C == ConvertedText(Text)
           last == Max(S)
<1>1. /\ Text \in Seq(Byte) /\ N \in Nat /\ S \in SUBSET (0 .. N) /\ 0 \in S
      /\ \A f \in S : LabelAt(Text, f) \in Seq(Byte)
  BY ContentsType, StartsBefore, LabelFacts DEF IndInv, Storage, Text
<1>2. Contents(newerBytes) = C
  BY OutputAtEnd DEF Comparable
<1>3. \A f \in S : Settled(piece[f])
  BY LabelsSettle
<1>4. C = JoinedUpTo(piece, last)
  BY DEF ConvertedText, ConvertedUpTo
<1>5. last \in S
  <2> HIDE DEF S, N
  <2> QED
    BY <1>1, MaxFacts
<1>6. piece \in [S -> Seq(Byte)] /\ \A f \in S : InUTF8(piece[f]) /\ NoDot(piece[f])
  <2>1. \A f \in S : piece[f] \in Seq(Byte)
    BY <1>3 DEF Settled
  <2>2. \A f \in S : InUTF8(piece[f]) /\ NoDot(piece[f])
    BY <1>3 DEF Settled
  <2> QED
    BY <2>1, <2>2
<1>7. Dot \in UnicodeScalar /\ Dot \in Byte /\ For(Dot).kind = "valid"
  BY ScalarBytesAssumption DEF DataFits, DotIsNeutral
<1>8. DOMAIN piece = S
  OBVIOUS
<1> HIDE DEF S, N, piece, h, C, last
<1>9. C \in Seq(Byte) /\ InUTF8(C)
  BY <1>1, <1>4, <1>5, <1>6, <1>7, JoinedInUTF8
<1>10. ComesApart(piece, S, h, last)
  BY <1>1, <1>5, <1>6, <1>7, JoinedLabels
<1>11. /\ \A g \in LabelStarts(C) : \E f \in S : LabelAt(C, g) = piece[f]
       /\ \A j \in 1 .. Len(C) :
            C[j] = Dot \/ \E f \in S : \E i \in 1 .. Len(piece[f]) : C[j] = piece[f][i]
       /\ JoinedUpTo(EachLabel(h, C), Max(LabelStarts(C)))
            = JoinedUpTo([f \in S |-> h[piece[f]]], last)
  BY <1>4, <1>10, Zenon DEF ComesApart
<1>12. ConvertedText(C) = C
  <2>1. EachLabel(h, C) = [g \in LabelStarts(C) |-> Converted(LabelAt(C, g))]
    <3>1. \A g \in LabelStarts(C) : LabelAt(C, g) \in Seq(Byte)
      BY <1>9, LabelFacts
    <3>2. \A g \in LabelStarts(C) : h[LabelAt(C, g)] = Converted(LabelAt(C, g))
      BY <3>1 DEF h
    <3> QED
      BY <3>2 DEF EachLabel
  <2>2. [f \in S |-> h[piece[f]]] = piece
    <3>1. \A f \in S : h[piece[f]] = piece[f]
      BY <1>3, <1>6 DEF Settled, h
    <3>2. piece = [f \in S |-> piece[f]]
      BY <1>6
    <3> QED
      BY <3>1, <3>2, Zenon
  <2>3. ConvertedText(C) = JoinedUpTo(EachLabel(h, C), Max(LabelStarts(C)))
    BY <2>1 DEF ConvertedText, ConvertedUpTo
  <2> QED
    BY <1>4, <1>11, <2>2, <2>3
<1>13. \A from \in LabelStarts(C) :
            InNFC(LabelAt(C, from)) /\ Verdict(LabelAt(C, from), config) = {}
  BY <1>3, <1>11 DEF Settled
<1>14. NFC(C) = C
  <2>1. \A p \in NFCTable : p[1] # C
    BY <1>13 DEF DataFits, DotIsNeutral
  <2> QED
    BY <2>1 DEF NFC
<1>15. MapText(ScalarsOf(C)) = C
  <2>1. ASSUME NEW j \in 1 .. Len(C), C[j] # Continuation
        PROVE  MappedBytes(C[j]) = UTF8(C[j])
    <3>1. For(C[j]).kind \in {"valid", "deviation"}
      <4>1. CASE C[j] = Dot
        BY <1>7, <4>1
      <4>2. CASE C[j] # Dot
        <5>1. PICK f \in S : \E i \in 1 .. Len(piece[f]) : C[j] = piece[f][i]
          BY <1>11, <4>2
        <5> QED
          BY <1>3, <2>1, <5>1 DEF Settled
      <4> QED
        BY <4>1, <4>2
    <3> QED
      BY <3>1 DEF MappedBytes
  <2> QED
    BY <1>9, <2>1, MapsToItself
<1> QED
  BY <1>2, <1>12, <1>13, <1>14, <1>15

\* What `mainProcessing` returns without errors under the strict setting is
\* stable, whatever the tables: run over it again, mapping, normalising,
\* converting and checking change nothing and find nothing.  Of the tables it
\* takes that they are in UTF-8, that a dot neither composes with its
\* neighbours nor stops them from doing so, and that decode puts in no ASCII.
THEOREM StrictOutputAlwaysStable == DataFits => (Spec => []StrictOutputIsStable)
<1> SUFFICES ASSUME DataFits PROVE Spec => []StrictOutputIsStable
  OBVIOUS
<1>1. IndInv /\ Output /\ Readable => StrictOutputIsStable
  BY StableAtEnd DEF StrictOutputIsStable
<1>2. IndInv /\ Readable /\ [Next]_vars => Readable'
  BY StepReadable DEF DataFits
<1> QED
  BY <1>1, <1>2, InitReadable, OutputInvariant, PTL DEF Spec

-----------------------------------------------------------------------------
(* Separators lie between scalars. *)

LEMMA SeparatorFacts ==
    ASSUME NEW s \in Seq(Byte), WholeScalars(s), NEW j \in AllSeparators(s)
    PROVE  /\ j \in 1 .. Len(s) /\ Boundary(s, j)
           /\ s[j] = Dot => Boundary(s, j - 1)
           /\ s[j] # Dot => /\ j \in 3 .. Len(s) /\ Boundary(s, j - 3)
                            /\ ~Boundary(s, j - 1) /\ ~Boundary(s, j - 2)
<1> DEFINE m == Len(s)
<1>1. m \in Nat /\ DOMAIN s = 1 .. m /\ j \in 1 .. m /\ (s[j] = Dot \/ WideAt(s, j))
  BY LenProperties DEF AllSeparators
<1>2. CASE s[j] = Dot
  BY <1>1, <1>2, ASCIIIsEnding, WholeScalarsAssumption
<1>3. CASE s[j] # Dot
  <2> HIDE DEF m
  <2>1. /\ j \in 3 .. m /\ s[j - 2] # Continuation
        /\ s[j - 1] = Continuation /\ s[j] = Continuation
    BY <1>1, <1>3, WideSeparatorsAssumption DEF WideAt
  <2>2. j # m => s[j + 1] # Continuation
    <3>1. j # m => j + 1 \in 1 .. m /\ j + 1 > 2 /\ (j + 1) - 1 = j /\ (j + 1) - 2 = j - 1
      BY <1>1, <2>1
    <3> QED
      BY <1>1, <2>1, <3>1 DEF WholeScalars
  <2>3. j - 3 \in 0 .. m /\ j - 3 # m /\ (j - 3) + 1 = j - 2
        /\ j - 1 # 0 /\ j - 1 # m /\ (j - 1) + 1 = j
        /\ j - 2 # 0 /\ j - 2 # m /\ (j - 2) + 1 = j - 1 /\ j \in 0 .. m
    BY <1>1, <2>1
  <2>4. Ending(s, j) /\ Ending(s, j - 3) /\ ~Ending(s, j - 1) /\ ~Ending(s, j - 2)
    BY <2>1, <2>2, <2>3, Zenon DEF Ending, m
  <2>5. Boundary(s, j) /\ Boundary(s, j - 3) /\ ~Boundary(s, j - 1) /\ ~Boundary(s, j - 2)
    BY <2>3, <2>4, Zenon DEF Boundary, m
  <2> QED
    BY <1>1, <1>3, <2>1, <2>5 DEF m
<1> QED
  BY <1>1, <1>2, <1>3 DEF m

LEMMA StartsFacts ==
    ASSUME NEW s \in Seq(Byte), WholeScalars(s), NEW from \in Starts(s)
    PROVE  from \in 0 .. Len(s) /\ Boundary(s, from)
<1>1. CASE from = 0
  <2>1. Len(s) \in Nat /\ 0 \in 0 .. Len(s)
    BY LenProperties
  <2> QED
    BY <1>1, <2>1 DEF Boundary
<1>2. CASE from # 0
  <2>1. from \in AllSeparators(s)
    BY <1>2 DEF Starts
  <2> QED
    BY <2>1, SeparatorFacts DEF Boundary
<1> QED
  BY <1>1, <1>2

\* What is known of the label at hand while the loop runs.
LabelPlace ==
    /\ Processed \in Seq(Byte) /\ WholeScalars(Processed)
    /\ labelStart \in Starts(Processed)

LEMMA PlaceFacts ==
    ASSUME LabelPlace
    PROVE  /\ labelStart \in 0 .. Len(Processed) /\ Boundary(Processed, labelStart)
           /\ EndOfLabel \in labelStart .. Len(Processed) /\ Boundary(Processed, EndOfLabel)
           /\ ~AtLastLabel => /\ Separator \in AllSeparators(Processed)
                              /\ Separator \in EndOfLabel + 1 .. Len(Processed)
                              /\ Separator \in Separators(Processed, labelStart)
                              /\ \A j \in Separators(Processed, labelStart) : Separator <= j
<1> DEFINE s == Processed
           m == Len(s)
<1>1. s \in Seq(Byte) /\ WholeScalars(s) /\ labelStart \in Starts(s) /\ m \in Nat
  BY LenProperties DEF LabelPlace
<1>2. labelStart \in 0 .. m /\ Boundary(s, labelStart) /\ labelStart \in Nat
  BY <1>1, StartsFacts
<1>3. CASE AtLastLabel
  <2>1. EndOfLabel = m
    BY <1>3 DEF EndOfLabel
  <2>2. Boundary(s, m)
    BY <1>1 DEF Boundary, Ending
  <2> HIDE DEF s, m
  <2>3. m \in labelStart .. m
    BY <1>1, <1>2
  <2> QED
    BY <1>2, <1>3, <2>1, <2>2, <2>3 DEF s, m
<1>4. CASE ~AtLastLabel
  <2> DEFINE S == Separators(s, labelStart)
             j == Separator
  <2>1. S \in SUBSET Nat /\ S # {} /\ j = Min(S)
    BY <1>4, <1>2 DEF AtLastLabel, Separators, Separator
  <2>2. j \in S /\ \A k \in S : j <= k
    <3> HIDE DEF S, j
    <3> QED
      BY <2>1, MinFacts
  <2>3. j \in labelStart + 1 .. m /\ j \in AllSeparators(s)
    <3>1. j \in labelStart + 1 .. m /\ (s[j] = Dot \/ WideAt(s, j))
      BY <2>2 DEF Separators
    <3> HIDE DEF j, s, m
    <3>2. j \in 1 .. m
      BY <1>1, <1>2, <3>1
    <3> QED
      BY <3>1, <3>2 DEF AllSeparators, m
  <2>4. EndOfLabel = IF s[j] = Dot THEN j - 1 ELSE j - 3
    BY <1>4 DEF EndOfLabel
  <2>5. /\ j \in 1 .. m /\ Boundary(s, j)
        /\ s[j] = Dot => Boundary(s, j - 1)
        /\ s[j] # Dot => /\ j \in 3 .. m /\ Boundary(s, j - 3)
                         /\ ~Boundary(s, j - 1) /\ ~Boundary(s, j - 2)
    <3> HIDE DEF j, s
    <3> QED
      BY <1>1, <2>3, SeparatorFacts DEF m
  <2> DEFINE e == EndOfLabel
  <2>6. e \in labelStart .. m /\ Boundary(s, e) /\ j \in e + 1 .. m
    <3> HIDE DEF e, j, m, s
    <3>1. e = IF s[j] = Dot THEN j - 1 ELSE j - 3
      BY <2>4 DEF e
    <3>2. s[j] # Dot => labelStart # j - 1 /\ labelStart # j - 2
      BY <1>2, <2>5
    <3> QED
      BY <1>1, <1>2, <2>3, <2>5, <3>1, <3>2
  <2> QED
    BY <1>2, <2>2, <2>3, <2>6
<1> QED
  BY <1>3, <1>4

-----------------------------------------------------------------------------
(* Indices of scalars. *)

IndexOf(e, at) == CHOOSE j \in 0 .. Len(e) : EndOf(e, j) = at

LEMMA IndexFacts ==
    ASSUME NEW s \in Seq(Byte), NEW at, Boundary(s, at)
    PROVE  /\ IndexOf(ScalarEnds(s), at) \in 0 .. Len(ScalarEnds(s))
           /\ EndOf(ScalarEnds(s), IndexOf(ScalarEnds(s), at)) = at
<1>1. \E k \in 0 .. Len(ScalarEnds(s)) : EndOf(ScalarEnds(s), k) = at
  BY EndsAreBoundaries
<1> QED
  BY <1>1 DEF IndexOf

LEMMA EndsOrdered ==
    ASSUME NEW s \in Seq(Byte),
           NEW i \in 0 .. Len(ScalarEnds(s)), NEW k \in 0 .. Len(ScalarEnds(s)),
           EndOf(ScalarEnds(s), i) < EndOf(ScalarEnds(s), k)
    PROVE  i < k
<1> DEFINE E == ScalarEnds(s)
<1>1. /\ Len(E) \in Nat
      /\ \A j \in 0 .. Len(E) : EndOf(E, j) \in Nat
      /\ \A j, l \in 0 .. Len(E) : j < l => EndOf(E, j) < EndOf(E, l)
  BY EndsAreBoundaries
<1> HIDE DEF E
<1>2. /\ i \in 0 .. Len(E) /\ k \in 0 .. Len(E) /\ EndOf(E, i) < EndOf(E, k)
      /\ i \in Nat /\ k \in Nat /\ EndOf(E, i) \in Nat /\ EndOf(E, k) \in Nat
  BY <1>1 DEF E
<1>3. ~(k < i)
  BY <1>1, <1>2
<1>4. k # i
  BY <1>2
<1> QED
  BY <1>2, <1>3, <1>4

LEMMA IndicesOrdered ==
    ASSUME NEW s \in Seq(Byte), NEW a, NEW b, Boundary(s, a), Boundary(s, b), a < b
    PROVE  IndexOf(ScalarEnds(s), a) < IndexOf(ScalarEnds(s), b)
  BY IndexFacts, EndsOrdered

-----------------------------------------------------------------------------
(* Where a call is, and the window on its way. *)

Control ==
    /\ stage \in {"check", "search", "keep", "lower", "process", "labels", "name",
                  "end", "undefined"}
    /\ call \in Calls
    /\ stage \in {"check", "search", "keep", "lower"} => pc = "map"
    /\ stage \in {"search", "keep", "lower"} => AllASCII(domain)
    /\ stage \in {"labels", "name", "undefined"} => pc = "done" /\ call = "toASCII"
    /\ stage = "end" => pc \in {"map", "done"}

Place ==
    /\ ~LoopBegun => /\ convertedBytes = EmptyInline /\ encoded = NotMade
                     /\ window = EmptyWindow /\ labelStart = 0 /\ lengthErrors = {}
    /\ LoopBegun => labelStart \in Starts(Processed)
    /\ stage = "name" => AtLastLabel

WindowKept ==
    /\ window \in Window!WindowType
    /\ window.startIndex <= window.endIndex /\ window.endIndex <= Len(WindowEnds)
    /\ window.endIndexByteOffset = EndOf(WindowEnds, window.endIndex)
    /\ window.endIndex < ScalarsPassed \/ (ScalarsPassed = 0 /\ window.endIndex = 0)

Flow == IndInv /\ WholeText /\ Control /\ Place /\ WindowKept

\* mainProcessing only ever makes steps of its own.
LEMMA MainSteps == [ConversionNext]_allVars => [Next]_vars
  BY DEF ConversionNext, CheckBytes, SearchForUppercase, KeepDomain, LowercaseDomain,
         ConvertAnyway, MainStep, ReturnUnicode, StartLabels, AppendASCIILabel,
         AppendEncodedLabel, EncodePastTuple, ReturnASCII, ConversionFinished,
         LabelAppended, allVars

LEMMA MainKept ==
    ASSUME IndInv, WholeText, [ConversionNext]_allVars
    PROVE  IndInv' /\ WholeText'
  BY MainSteps, StepInv, StepWhole

LEMMA ProcessedFacts ==
    ASSUME IndInv, WholeText
    PROVE  Processed \in Seq(Byte) /\ WholeScalars(Processed)
  BY LooseFacts DEF IndInv, Storage, WholeText, Processed

-----------------------------------------------------------------------------

Proved == INSTANCE ScalarWindowOps_proofs
    WITH ends <- WindowEnds, passed <- ScalarsPassed,
         range <- <<EndOf(WindowEnds, window.startIndex), EndOf(WindowEnds, window.endIndex)>>

LEMMA SameWindow ==
    /\ \A e, j : Window!EndOf(e, j) = EndOf(e, j) /\ Proved!EndOf(e, j) = EndOf(e, j)
    /\ \A w, e, l, u : /\ Window!SetRange(w, e, l, u) = SetRange(w, e, l, u)
                       /\ Proved!SetRange(w, e, l, u) = SetRange(w, e, l, u)
    /\ Window!WindowType = Proved!WindowType
    /\ Window!EmptyWindow = EmptyWindow
<1>1. \A e, j : Window!EndOf(e, j) = EndOf(e, j) /\ Proved!EndOf(e, j) = EndOf(e, j)
  BY DEF Window!EndOf, Proved!EndOf, EndOf
<1>2. \A w, e, l, u : /\ Window!SetRange(w, e, l, u) = SetRange(w, e, l, u)
                      /\ Proved!SetRange(w, e, l, u) = SetRange(w, e, l, u)
  <2> TAKE w, e, l, u
  <2>1. Window!SetRange(w, e, l, u) = SetRange(w, e, l, u)
    BY DEF Window!SetRange, SetRange, Window!Met, Met, Window!EndOf, EndOf
  <2>2. Proved!SetRange(w, e, l, u) = SetRange(w, e, l, u)
    BY DEF Proved!SetRange, SetRange, Proved!Met, Met, Proved!EndOf, EndOf
  <2> QED
    BY <2>1, <2>2
<1> QED
  BY <1>1, <1>2
  DEF Window!WindowType, Proved!WindowType, Window!EmptyWindow, EmptyWindow

\* The ends of a text's scalars are what ScalarWindowOps asks for.
LEMMA EndsAreRising ==
    ASSUME NEW s \in Seq(Byte)
    PROVE  Window!Rising(ScalarEnds(s)) /\ Proved!Rising(ScalarEnds(s))
  BY EndsAreBoundaries, SameWindow DEF Window!Rising, Proved!Rising

LEMMA WindowFindsLabel ==
    ASSUME NEW s \in Seq(Byte), NEW w \in Window!WindowType,
           w.endIndex <= Len(ScalarEnds(s)),
           w.endIndexByteOffset = EndOf(ScalarEnds(s), w.endIndex),
           NEW first \in 0 .. Len(ScalarEnds(s)),
           NEW last \in first + 1 .. Len(ScalarEnds(s)),
           w.endIndex < first \/ (w.endIndex = 0 /\ first = 0)
    PROVE  SetRange(w, ScalarEnds(s), EndOf(ScalarEnds(s), first), EndOf(ScalarEnds(s), last))
             = [startIndex |-> first, endIndex |-> last,
                endIndexByteOffset |-> EndOf(ScalarEnds(s), last)]
<1> DEFINE e == ScalarEnds(s)
<1>1. /\ Proved!Rising(e) /\ w \in Proved!WindowType
      /\ w.endIndexByteOffset = Proved!EndOf(e, w.endIndex)
  BY EndsAreRising, SameWindow
<1>2. w.endIndex <= Len(e) /\ first \in 0 .. Len(e) /\ last \in first + 1 .. Len(e)
  OBVIOUS
<1> HIDE DEF e
<1>3. Proved!SetRange(w, e, Proved!EndOf(e, first), Proved!EndOf(e, last))
        = [startIndex |-> first, endIndex |-> last,
           endIndexByteOffset |-> Proved!EndOf(e, last)]
  BY <1>1, <1>2, Proved!SetRangeFindsLabel
<1> QED
  BY <1>3, SameWindow DEF e

\* One turn of the loop over the labels, by its scalars.
LEMMA TurnFacts ==
    ASSUME IndInv, WholeText, Control, Place, stage = "labels",
           UNCHANGED <<vars, call>>,
           \/ stage' = "labels" /\ ~AtLastLabel /\ labelStart' = Separator
           \/ stage' \in {"name", "undefined"} /\ labelStart' = labelStart
    PROVE  /\ LoopBegun /\ LoopBegun' /\ Processed' = Processed
           /\ LabelPlace /\ labelStart' \in Starts(Processed)
           /\ WindowEnds = ScalarEnds(Processed) /\ WindowEnds' = WindowEnds
           /\ ScalarsPassed = IndexOf(WindowEnds, labelStart)
           /\ ScalarsPassed' \in Nat
           /\ IndexOf(WindowEnds, EndOfLabel) < ScalarsPassed'
           /\ ScalarsPassed < ScalarsPassed'
<1>1. LoopBegun /\ LoopBegun' /\ Processed' = Processed
  BY DEF Control, LoopBegun, Processed, vars
<1>2. LabelPlace
  BY <1>1, ProcessedFacts DEF LabelPlace, Place
<1>3. WindowEnds = ScalarEnds(Processed) /\ WindowEnds' = WindowEnds
  BY <1>1 DEF WindowEnds
<1>4. ScalarsPassed = IndexOf(WindowEnds, labelStart)
  BY <1>1 DEF ScalarsPassed, IndexOf
<1> DEFINE E == ScalarEnds(Processed)
<1>5. /\ labelStart \in 0 .. Len(Processed) /\ Boundary(Processed, labelStart)
      /\ EndOfLabel \in labelStart .. Len(Processed) /\ Boundary(Processed, EndOfLabel)
      /\ ~AtLastLabel => /\ Separator \in AllSeparators(Processed)
                         /\ Separator \in EndOfLabel + 1 .. Len(Processed)
  BY <1>2, PlaceFacts
<1>6. /\ Processed \in Seq(Byte) /\ Len(E) \in Nat
      /\ IndexOf(E, labelStart) \in 0 .. Len(E) /\ IndexOf(E, EndOfLabel) \in 0 .. Len(E)
  BY <1>2, <1>5, IndexFacts, EndsAreBoundaries DEF LabelPlace
<1>7. CASE stage' = "labels" /\ ~AtLastLabel /\ labelStart' = Separator
  <2>1. Separator \in Starts(Processed) /\ Boundary(Processed, Separator)
    BY <1>2, <1>5, <1>7, SeparatorFacts DEF Starts, LabelPlace
  <2>2. ScalarsPassed' = IndexOf(E, Separator)
    BY <1>1, <1>3, <1>7 DEF ScalarsPassed, IndexOf
  <2>3. IndexOf(E, Separator) \in 0 .. Len(E)
    BY <1>6, <2>1, IndexFacts
  <2>4. EndOfLabel < Separator /\ labelStart < Separator
    BY <1>5, <1>7
  <2>5. IndexOf(E, EndOfLabel) < IndexOf(E, Separator)
        /\ IndexOf(E, labelStart) < IndexOf(E, Separator)
    BY <1>5, <1>6, <2>1, <2>4, IndicesOrdered
  <2> HIDE DEF E
  <2>6. IndexOf(E, Separator) \in Nat
    BY <1>6, <2>3
  <2> QED
    BY <1>1, <1>2, <1>3, <1>4, <1>7, <2>1, <2>2, <2>5, <2>6 DEF E
<1>8. CASE stage' \in {"name", "undefined"} /\ labelStart' = labelStart
  <2>1. ScalarsPassed' = Len(E) + 1
    BY <1>1, <1>3, <1>8 DEF ScalarsPassed
  <2> HIDE DEF E
  <2>2. /\ Len(E) + 1 \in Nat
        /\ IndexOf(E, EndOfLabel) < Len(E) + 1 /\ IndexOf(E, labelStart) < Len(E) + 1
    BY <1>6
  <2> QED
    BY <1>1, <1>2, <1>3, <1>4, <1>8, <2>1, <2>2 DEF E, LabelPlace
<1> QED
  BY <1>7, <1>8

BeforeLabels ==
    CheckBytes \/ SearchForUppercase \/ KeepDomain \/ LowercaseDomain
    \/ ConvertAnyway \/ MainStep \/ ReturnUnicode

LEMMA BeforeLabelsFlow ==
    ASSUME Flow, BeforeLabels
    PROVE  Control' /\ Place' /\ WindowKept' /\ UNCHANGED Window!vars
<1>1. /\ ~LoopBegun /\ ~LoopBegun' /\ stage' # "name"
      /\ UNCHANGED <<convertedBytes, encoded, window, labelStart, lengthErrors>>
  <2>1. CASE CheckBytes
    BY <2>1 DEF CheckBytes, Flow, Control, LoopBegun, vars
  <2>2. CASE SearchForUppercase
    BY <2>2 DEF SearchForUppercase, Flow, Control, LoopBegun, vars
  <2>3. CASE KeepDomain \/ LowercaseDomain
    BY <2>3 DEF KeepDomain, LowercaseDomain, Return, Flow, Control, LoopBegun, vars
  <2>4. CASE ConvertAnyway
    BY <2>4 DEF ConvertAnyway, Flow, Control, LoopBegun, vars
  <2>5. CASE MainStep
    BY <2>5 DEF MainStep, conversionVars, LoopBegun
  <2>6. CASE ReturnUnicode
    BY <2>6 DEF ReturnUnicode, ReturnBytes, Return, LoopBegun, vars
  <2> QED
    BY <2>1, <2>2, <2>3, <2>4, <2>5, <2>6 DEF BeforeLabels
<1>2. Control'
  <2>1. CASE CheckBytes
    BY <2>1 DEF CheckBytes, Flow, Control, vars
  <2>2. CASE SearchForUppercase
    BY <2>2 DEF SearchForUppercase, Flow, Control, vars
  <2>3. CASE KeepDomain \/ LowercaseDomain
    BY <2>3 DEF KeepDomain, LowercaseDomain, Return, Flow, Control, vars
  <2>4. CASE ConvertAnyway
    BY <2>4 DEF ConvertAnyway, Flow, Control, vars
  <2>5. CASE MainStep
    BY <2>5 DEF MainStep, conversionVars, Flow, Control
  <2>6. CASE ReturnUnicode
    BY <2>6 DEF ReturnUnicode, ReturnBytes, Return, Flow, Control, vars
  <2> QED
    BY <2>1, <2>2, <2>3, <2>4, <2>5, <2>6 DEF BeforeLabels
<1>3. WindowEnds = <<>> /\ WindowEnds' = <<>> /\ ScalarsPassed = 0 /\ ScalarsPassed' = 0
  BY <1>1 DEF WindowEnds, ScalarsPassed
<1> QED
  BY <1>1, <1>2, <1>3 DEF Flow, Place, WindowKept, Window!vars

LEMMA StartLabelsFlow ==
    ASSUME Flow, StartLabels
    PROVE  Control' /\ Place' /\ WindowKept' /\ Window!Fill
<1>1. /\ ~LoopBegun /\ LoopBegun' /\ Processed' = Processed /\ stage' = "labels"
      /\ UNCHANGED <<vars, call, encoded, window, labelStart, lengthErrors>>
  BY DEF StartLabels, LoopBegun, Processed, vars
<1>2. window = EmptyWindow /\ labelStart = 0
  BY <1>1 DEF Flow, Place
<1> DEFINE E == ScalarEnds(Processed)
<1>3. Processed \in Seq(Byte) /\ Boundary(Processed, 0)
  <2>1. Processed \in Seq(Byte) /\ Len(Processed) \in Nat
    BY ProcessedFacts, LenProperties DEF Flow
  <2> QED
    BY <2>1 DEF Boundary
<1>4. /\ IndexOf(E, 0) \in 0 .. Len(E) /\ EndOf(E, IndexOf(E, 0)) = 0 /\ Len(E) \in Nat
      /\ \A i, k \in 0 .. Len(E) : i < k => EndOf(E, i) < EndOf(E, k)
  BY <1>3, IndexFacts, EndsAreBoundaries
<1>5. WindowEnds = <<>> /\ WindowEnds' = E /\ ScalarsPassed = 0
      /\ ScalarsPassed' = IndexOf(E, 0)
  <2>1. labelStart' = 0
    BY <1>1, <1>2
  <2> QED
    BY <1>1, <2>1 DEF WindowEnds, ScalarsPassed, IndexOf
<1>6. Window!Rising(E)
  BY <1>3, EndsAreRising
<1> HIDE DEF E
<1>7. IndexOf(E, 0) = 0
  <2>1. EndOf(E, 0) = 0 /\ 0 \in 0 .. Len(E)
    BY <1>4 DEF EndOf
  <2> DEFINE i == IndexOf(E, 0)
  <2> HIDE DEF i
  <2>2. i \in 0 .. Len(E) /\ EndOf(E, i) = 0
    BY <1>4 DEF i
  <2>3. ~(0 < i)
    BY <1>4, <2>1, <2>2
  <2> QED
    BY <1>4, <2>2, <2>3 DEF i
<1>8. Control'
  BY <1>1 DEF StartLabels, Flow, Control, vars
<1>9. Place'
  <2>1. labelStart' \in Starts(Processed)'
    BY <1>1, <1>2 DEF Starts
  <2> QED
    BY <1>1, <2>1 DEF Place
<1>10. EndOf(<<>>, 0) = 0 /\ EndOf(E, 0) = 0
  BY DEF EndOf
<1>11. WindowKept'
  <2>1. window' = [startIndex |-> 0, endIndex |-> 0, endIndexByteOffset |-> 0]
    BY <1>1, <1>2 DEF EmptyWindow
  <2>2. window' \in Window!WindowType
    BY <2>1 DEF Window!WindowType
  <2>3. 0 <= Len(E)
    BY <1>4
  <2> QED
    BY <1>5, <1>7, <1>10, <2>1, <2>2, <2>3 DEF WindowKept, Window!WindowType
<1>12. Window!Fill
  <2>1. EndOf(WindowEnds, window.startIndex) = EndOf(WindowEnds', window'.startIndex)
        /\ EndOf(WindowEnds, window.endIndex) = EndOf(WindowEnds', window'.endIndex)
    BY <1>1, <1>2, <1>5, <1>10 DEF EmptyWindow
  <2> QED
    BY <1>1, <1>5, <1>6, <1>7, <2>1 DEF Window!Fill
<1> QED
  BY <1>8, <1>9, <1>11, <1>12

LEMMA AppendASCIILabelFlow ==
    ASSUME Flow, AppendASCIILabel
    PROVE  Control' /\ Place' /\ WindowKept' /\ Window!PassLabel
<1>1. /\ stage = "labels" /\ UNCHANGED <<vars, call, window>>
      /\ stage' = IF AtLastLabel THEN "name" ELSE "labels"
      /\ labelStart' = IF AtLastLabel THEN labelStart ELSE Separator
  BY DEF AppendASCIILabel, LabelAppended
<1>2. /\ LoopBegun /\ LoopBegun' /\ Processed' = Processed
      /\ LabelPlace /\ labelStart' \in Starts(Processed)
      /\ WindowEnds' = WindowEnds
      /\ ScalarsPassed' \in Nat /\ ScalarsPassed < ScalarsPassed'
      /\ ScalarsPassed \in Nat
  <2>1. /\ LoopBegun /\ LoopBegun' /\ Processed' = Processed
        /\ LabelPlace /\ labelStart' \in Starts(Processed)
        /\ WindowEnds = ScalarEnds(Processed) /\ WindowEnds' = WindowEnds
        /\ ScalarsPassed = IndexOf(WindowEnds, labelStart)
        /\ ScalarsPassed' \in Nat /\ ScalarsPassed < ScalarsPassed'
    BY <1>1, TurnFacts DEF Flow
  <2>2. Boundary(Processed, labelStart) /\ Processed \in Seq(Byte)
    BY <2>1, PlaceFacts DEF LabelPlace
  <2>3. ScalarsPassed \in 0 .. Len(WindowEnds)
    BY <2>1, <2>2, IndexFacts
  <2>4. Len(WindowEnds) \in Nat
    BY <2>1, <2>2, EndsAreBoundaries
  <2> QED
    BY <2>1, <2>3, <2>4
<1>3. Control'
  BY <1>1 DEF Flow, Control, vars
<1>4. Place'
  <2>1. stage' = "name" => AtLastLabel'
    <3>1. stage' = "name" => AtLastLabel /\ labelStart' = labelStart
      BY <1>1
    <3> QED
      BY <1>2, <3>1 DEF AtLastLabel, Separators
  <2>2. labelStart' \in Starts(Processed)'
    BY <1>2
  <2> QED
    BY <1>2, <2>1, <2>2 DEF Place
<1>5. WindowKept'
  <2>1. window.endIndex \in Nat
    BY DEF Flow, WindowKept, Window!WindowType
  <2> QED
    BY <1>1, <1>2, <2>1 DEF Flow, WindowKept
<1>6. Window!PassLabel
  BY <1>1, <1>2 DEF Window!PassLabel
<1> QED
  BY <1>3, <1>4, <1>5, <1>6

\* The window is set to a label of several scalars, or one that is not ASCII.
LEMMA EncodedLabelFlow ==
    ASSUME Flow, stage = "labels", ~LabelIsASCII, UNCHANGED <<vars, call>>,
           window' = SetRange(window, ScalarEnds(Processed), labelStart, EndOfLabel),
           \/ /\ stage' = IF AtLastLabel THEN "name" ELSE "labels"
              /\ labelStart' = IF AtLastLabel THEN labelStart ELSE Separator
           \/ stage' = "undefined" /\ labelStart' = labelStart
    PROVE  /\ Control' /\ Place' /\ WindowKept' /\ Window!Next
           /\ Shown(window', Scalars) = ScalarsOf(LabelBytes)
<1> DEFINE E == ScalarEnds(Processed)
           first == IndexOf(E, labelStart)
           last == IndexOf(E, EndOfLabel)
<1>1. /\ LoopBegun /\ LoopBegun' /\ Processed' = Processed
      /\ LabelPlace /\ labelStart' \in Starts(Processed)
      /\ WindowEnds = E /\ WindowEnds' = E
      /\ ScalarsPassed = first /\ last < ScalarsPassed' /\ ScalarsPassed' \in Nat
  BY TurnFacts DEF Flow
<1>2. /\ Processed \in Seq(Byte)
      /\ labelStart \in 0 .. Len(Processed) /\ Boundary(Processed, labelStart)
      /\ EndOfLabel \in labelStart .. Len(Processed) /\ Boundary(Processed, EndOfLabel)
  BY <1>1, PlaceFacts DEF LabelPlace
<1>3. /\ Len(E) \in Nat
      /\ first \in 0 .. Len(E) /\ EndOf(E, first) = labelStart
      /\ last \in 0 .. Len(E) /\ EndOf(E, last) = EndOfLabel
  BY <1>2, IndexFacts, EndsAreBoundaries
<1>4. labelStart < EndOfLabel
  <2>1. labelStart # EndOfLabel
    <3> SUFFICES ASSUME labelStart = EndOfLabel PROVE LabelIsASCII
      OBVIOUS
    <3>1. LabelBytes = <<>>
      <4>1. labelStart \in Nat /\ labelStart + 1 > labelStart
        BY <1>2
      <4> QED
        BY <4>1, SubSeqEmpty DEF LabelBytes
    <3> QED
      BY <3>1 DEF LabelIsASCII, AllASCII
  <2> QED
    BY <1>2, <2>1
<1>5. first < last
  BY <1>2, <1>4, IndicesOrdered
<1>6. E = ScalarEnds(Processed)
  OBVIOUS
<1>7. /\ window \in Window!WindowType /\ window.endIndex <= Len(E)
      /\ window.endIndexByteOffset = EndOf(E, window.endIndex)
      /\ window.endIndex < first \/ (window.endIndex = 0 /\ first = 0)
  BY <1>1 DEF Flow, WindowKept
<1> HIDE DEF E, first, last
<1>8. last \in first + 1 .. Len(E)
  BY <1>3, <1>5
<1>9. window' = [startIndex |-> first, endIndex |-> last,
                 endIndexByteOffset |-> EndOf(E, last)]
  <2>1. SetRange(window, E, EndOf(E, first), EndOf(E, last))
            = [startIndex |-> first, endIndex |-> last,
               endIndexByteOffset |-> EndOf(E, last)]
    BY <1>2, <1>3, <1>6, <1>7, <1>8, WindowFindsLabel
  <2> QED
    BY <1>3, <1>6, <2>1
<1>10. Control'
  BY DEF Flow, Control, vars
<1>11. Place'
  <2>1. stage' = "name" => AtLastLabel'
    <3>1. stage' = "name" => AtLastLabel /\ labelStart' = labelStart
      OBVIOUS
    <3> QED
      BY <1>1, <3>1 DEF AtLastLabel, Separators
  <2>2. labelStart' \in Starts(Processed)'
    BY <1>1
  <2> QED
    BY <1>1, <2>1, <2>2 DEF Place
<1>12. WindowKept'
  <2>1. EndOf(E, last) \in Nat /\ first \in Nat /\ last \in Nat
    BY <1>2, <1>3
  <2>2. window' \in Window!WindowType
    BY <1>9, <2>1 DEF Window!WindowType
  <2>3. first <= last /\ last <= Len(E)
    BY <1>3, <1>5
  <2> QED
    BY <1>1, <1>9, <2>2, <2>3 DEF WindowKept
<1>13. Window!SetToLabel(first, last)
  <2>1. ScalarsPassed' \in Nat /\ ScalarsPassed' > last
    <3>1. last \in Nat
      BY <1>3
    <3> QED
      BY <1>1, <3>1
  <2>2. <<EndOf(WindowEnds', window'.startIndex), EndOf(WindowEnds', window'.endIndex)>>
            = <<EndOf(WindowEnds, first), EndOf(WindowEnds, last)>>
    BY <1>1, <1>9
  <2>3. window' = SetRange(window, WindowEnds, EndOf(WindowEnds, first), EndOf(WindowEnds, last))
    BY <1>1, <1>3, <1>6
  <2>4. WindowEnds' = WindowEnds
    BY <1>1
  <2> QED
    BY <2>1, <2>2, <2>3, <2>4, SameWindow DEF Window!SetToLabel
<1>14. Window!Next
  <2>1. first \in ScalarsPassed .. Len(WindowEnds) - 1
    BY <1>1, <1>3, <1>8
  <2>2. last \in first + 1 .. Len(WindowEnds)
    BY <1>1, <1>8
  <2> QED
    BY <1>13, <2>1, <2>2 DEF Window!Next
<1>15. Shown(window', Scalars) = ScalarsOf(LabelBytes)
  <2>1. ScalarsOf(SubSeq(Processed, labelStart + 1, EndOfLabel))
            = SubSeq(ScalarsOf(Processed), first + 1, last)
    BY <1>2, <1>3, <1>6, <1>8, ScalarsOfPart
  <2> QED
    BY <1>9, <2>1 DEF Shown, Scalars, LabelBytes
<1> QED
  BY <1>10, <1>11, <1>12, <1>14, <1>15

-----------------------------------------------------------------------------
(* What encode writes.  Its bytes follow one another in a buffer that is   *)
(* not asked for room; the byte that makes an inline buffer one too long   *)
(* is read back as the count.                                              *)

WrittenTo(made, p) ==
    LET output[j \in 0 .. Len(p)] ==
            IF j = 0 THEN RemoveAll(made, TRUE)
            ELSE AppendUnchecked(output[j - 1], p[j])
    IN  output[Len(p)]

ReadBack(made, p, j) ==
    IF IsInline(made) /\ j = InlineCapacity + 1
    THEN SubSeq(p, 1, InlineCapacity) \o <<InlineCapacity + 1>>
    ELSE SubSeq(p, 1, j)

GoesOn(f, n, made, p) ==
    /\ f[0] = RemoveAll(made, TRUE)
    /\ \A j \in 1 .. n :
            ~WritesPastTuple(f[j - 1]) => f[j] = AppendUnchecked(f[j - 1], p[j])

WrittenSoFar(b, made, p, j) ==
    /\ LooseBuffer(b) /\ (IsInline(b) <=> IsInline(made))
    /\ Contents(b) = ReadBack(made, p, j)
    /\ Len(Contents(b)) = j

LEMMA WritingFacts ==
    ASSUME NEW made, LooseBuffer(made), NEW p \in Seq(Byte),
           IsInline(made) => Len(p) <= InlineCapacity + 1,
           NEW f, GoesOn(f, Len(p), made, p)
    PROVE  /\ \A j \in 0 .. Len(p) : WrittenSoFar(f[j], made, p, j)
           /\ \A j \in 1 .. Len(p) : ~WritesPastTuple(f[j - 1])
<1> DEFINE N == Len(p)
           S == {j \in 0 .. N : WrittenSoFar(f[j], made, p, j)}
<1>1. N \in Nat /\ \A j \in 1 .. N : p[j] \in Byte
  BY LenProperties, ElementOfSeq
<1>2. 0 \in S
  <2>1. f[0] = RemoveAll(made, TRUE)
    BY DEF GoesOn
  <2>2. LooseBuffer(f[0]) /\ Contents(f[0]) = <<>> /\ Len(<<>>) = 0
    BY <2>1, LooseRemove, EmptySeq
  <2>3. IsInline(f[0]) <=> IsInline(made)
    BY <2>1 DEF RemoveAll, IsInline, EmptyInline, Inline, Heap
  <2>4. ReadBack(made, p, 0) = <<>>
    <3>1. 0 # InlineCapacity + 1
      BY InlineCapacityAssumption
    <3>2. SubSeq(p, 1, 0) = <<>>
      BY SubSeqEmpty
    <3> QED
      BY <3>1, <3>2 DEF ReadBack
  <2>5. 0 \in 0 .. N
    BY <1>1
  <2> QED
    BY <2>2, <2>3, <2>4, <2>5 DEF WrittenSoFar
<1>3. ASSUME NEW j \in 1 .. N, WrittenSoFar(f[j - 1], made, p, j - 1)
      PROVE  /\ ~WritesPastTuple(f[j - 1])
             /\ WrittenSoFar(f[j], made, p, j)
  <2> DEFINE b == f[j - 1]
  <2>1. /\ LooseBuffer(b) /\ (IsInline(b) <=> IsInline(made))
        /\ Contents(b) = ReadBack(made, p, j - 1) /\ Len(Contents(b)) = j - 1
    BY <1>3 DEF WrittenSoFar
  <2>2. Contents(b) \in Seq(Byte) /\ Count(b) = j - 1
    BY <2>1, LooseFacts
  <2>3. IsInline(b) => b.cells[CountCell] = j - 1
    BY <2>2 DEF Count
  <2>4. IsInline(b) => j - 1 <= InlineCapacity
    <3> SUFFICES ASSUME IsInline(b) PROVE j - 1 <= InlineCapacity
      OBVIOUS
    <3>1. N <= InlineCapacity + 1
      BY <2>1
    <3> HIDE DEF N, b
    <3> QED
      BY <1>1, <3>1, InlineCapacityAssumption
  <2>5. ~WritesPastTuple(b)
    <3> HIDE DEF b
    <3>1. IsInline(b) => ~(j - 1 > InlineCapacity)
      BY <2>4, InlineCapacityAssumption
    <3> QED
      BY <2>3, <3>1 DEF WritesPastTuple
  <2>6. f[j] = AppendUnchecked(b, p[j]) /\ p[j] \in Byte
    BY <1>1, <2>5 DEF GoesOn
  <2> HIDE DEF b
  <2> DEFINE e == IF HasRoomForOne(b) THEN p[j] ELSE InlineCapacity + 1
  <2>7. LooseBuffer(f[j]) /\ Contents(f[j]) = Contents(b) \o <<e>>
    BY <2>1, <2>5, <2>6, LooseUnchecked
  <2>8. IsInline(f[j]) <=> IsInline(made)
    BY <2>1, <2>6 DEF AppendUnchecked, IsInline, Inline, Heap
  <2>9. HasRoomForOne(b) <=> ~(IsInline(made) /\ j = InlineCapacity + 1)
    BY <1>1, <2>1, <2>3, <2>4, InlineCapacityAssumption DEF HasRoomForOne
  <2>10. e \in Byte
    BY <2>6, ByteAssumption, InlineCapacityAssumption
  <2> HIDE DEF e
  <2>11. Len(Contents(f[j])) = j
    <3>1. <<e>> \in Seq(Byte) /\ Len(<<e>>) = 1
      BY <2>10
    <3>2. Len(Contents(b) \o <<e>>) = (j - 1) + 1
      BY <2>1, <2>2, <3>1, ConcatProperties
    <3> QED
      BY <1>1, <2>7, <3>2
  <2>12. ReadBack(made, p, j - 1) = SubSeq(p, 1, j - 1)
    <3>1. IsInline(made) => j - 1 # InlineCapacity + 1
      BY <2>1, <2>4, InlineCapacityAssumption
    <3> QED
      BY <3>1 DEF ReadBack
  <2>13. Contents(f[j]) = ReadBack(made, p, j)
    <3>1. CASE HasRoomForOne(b)
      <4>1. SubSeq(p, 1, j) = SubSeq(p, 1, j - 1) \o <<p[j]>>
        <5>1. 1 \in 1 .. Len(p) /\ j \in 1 .. Len(p)
          BY <1>1
        <5> QED
          BY <5>1, SubSeqRecursiveSecond
      <4>2. ReadBack(made, p, j) = SubSeq(p, 1, j) /\ e = p[j]
        BY <2>9, <3>1 DEF ReadBack, e
      <4> QED
        BY <2>1, <2>7, <2>12, <4>1, <4>2
    <3>2. CASE ~HasRoomForOne(b)
      <4>1. IsInline(made) /\ j = InlineCapacity + 1 /\ e = InlineCapacity + 1
        BY <2>9, <3>2 DEF e
      <4>2. j - 1 = InlineCapacity
        BY <4>1, InlineCapacityAssumption
      <4>3. ReadBack(made, p, j) = SubSeq(p, 1, j - 1) \o <<e>>
        BY <4>1, <4>2 DEF ReadBack
      <4> QED
        BY <2>1, <2>7, <2>12, <4>3
    <3> QED
      BY <3>1, <3>2
  <2> QED
    BY <2>5, <2>7, <2>8, <2>11, <2>13 DEF WrittenSoFar, b
<1>4. \A j \in 0 .. N : j \in S
  <2>1. \A j \in 1 .. N : j - 1 \in S => j \in S
    <3>1. \A j \in 1 .. N : j \in 0 .. N
      BY <1>1
    <3> QED
      BY <1>3, <3>1
  <2> HIDE DEF S
  <2> QED
    BY <1>1, <1>2, <2>1, InductionUpTo
<1>5. \A j \in 1 .. N : WrittenSoFar(f[j - 1], made, p, j - 1)
  <2>1. \A j \in 1 .. N : j - 1 \in 0 .. N
    BY <1>1
  <2> QED
    BY <1>4, <2>1
<1> QED
  BY <1>3, <1>4, <1>5

LEMMA WrittenFacts ==
    ASSUME NEW made, LooseBuffer(made), NEW p \in Seq(Byte),
           IsInline(made) => Len(p) <= InlineCapacity + 1
    PROVE  WrittenSoFar(WrittenTo(made, p), made, p, Len(p))
<1> DEFINE N == Len(p)
           Recursion(f) == f = [j \in 0 .. Len(p) |->
                                    IF j = 0 THEN RemoveAll(made, TRUE)
                                    ELSE AppendUnchecked(f[j - 1], p[j])]
           output == CHOOSE f : Recursion(f)
           Loose == {b \in Buffer : LooseBuffer(b)}
           step == [x \in Loose \X (1 .. N) |->
                        IF WritesPastTuple(x[1]) THEN x[1] ELSE AppendUnchecked(x[1], p[x[2]])]
<1>1. N \in Nat /\ \A j \in 1 .. N : p[j] \in Byte
  BY LenProperties, ElementOfSeq
<1>2. WrittenTo(made, p) = output[N]
  BY DEF WrittenTo
<1>3. RemoveAll(made, TRUE) \in Loose
  BY LooseRemove DEF LooseBuffer
<1>4. step \in [Loose \X (1 .. N) -> Loose]
  <2>1. \A x \in Loose \X (1 .. N) :
            (IF WritesPastTuple(x[1]) THEN x[1] ELSE AppendUnchecked(x[1], p[x[2]])) \in Loose
    <3> TAKE x \in Loose \X (1 .. N)
    <3>1. LooseBuffer(x[1]) /\ x[1] \in Loose /\ p[x[2]] \in Byte
      BY <1>1
    <3>2. CASE ~WritesPastTuple(x[1])
      <4>1. LooseBuffer(AppendUnchecked(x[1], p[x[2]]))
        BY <3>1, <3>2, LooseUnchecked
      <4> QED
        BY <3>2, <4>1 DEF LooseBuffer
    <3> QED
      BY <3>1, <3>2
  <2> HIDE DEF Loose, N
  <2> QED
    BY <2>1
<1>5. PICK f : Iterates(f, N, Loose, RemoveAll(made, TRUE), step)
  <2> HIDE DEF step, Loose, N
  <2> QED
    BY <1>1, <1>3, <1>4, IterationExists
<1>6. /\ f \in [0 .. N -> Loose] /\ f[0] = RemoveAll(made, TRUE)
      /\ \A j \in 1 .. N :
            f[j] = IF WritesPastTuple(f[j - 1]) THEN f[j - 1] ELSE AppendUnchecked(f[j - 1], p[j])
  <2>1. /\ f \in [0 .. N -> Loose] /\ f[0] = RemoveAll(made, TRUE)
        /\ \A j \in 1 .. N : f[j] = step[f[j - 1], j]
    BY <1>5 DEF Iterates
  <2>2. \A b \in Loose : \A j \in 1 .. N :
            step[b, j] = IF WritesPastTuple(b) THEN b ELSE AppendUnchecked(b, p[j])
    <3> HIDE DEF Loose, N
    <3> QED
      OBVIOUS
  <2> HIDE DEF step, Loose
  <2>3. \A j \in 1 .. N : j - 1 \in 0 .. N
    BY <1>1
  <2>4. \A j \in 1 .. N : f[j - 1] \in Loose
    BY <2>1, <2>3
  <2> QED
    BY <2>1, <2>2, <2>4
<1>7. GoesOn(f, Len(p), made, p)
  BY <1>6 DEF GoesOn
<1>8. \A j \in 1 .. N : ~WritesPastTuple(f[j - 1])
  BY <1>7, WritingFacts
<1>9. Recursion(f)
  <2>1. \A j \in 1 .. N : f[j] = AppendUnchecked(f[j - 1], p[j])
    BY <1>6, <1>8
  <2>2. f = [j \in 0 .. N |-> f[j]]
    BY <1>6
  <2>3. \A j \in 0 .. N : f[j] = IF j = 0 THEN RemoveAll(made, TRUE)
                                 ELSE AppendUnchecked(f[j - 1], p[j])
    <3>1. \A j \in 0 .. N : j = 0 \/ j \in 1 .. N
      BY <1>1
    <3> QED
      BY <1>6, <2>1, <3>1
  <2> HIDE DEF Loose
  <2> QED
    BY <2>2, <2>3
<1>10. Recursion(output)
  <2> HIDE DEF Recursion
  <2> QED
    BY <1>9
<1>11. GoesOn(output, Len(p), made, p)
  <2> HIDE DEF output
  <2>1. 0 \in 0 .. N /\ \A j \in 1 .. N : j \in 0 .. N /\ j # 0
    BY <1>1
  <2>2. output[0] = RemoveAll(made, TRUE)
        /\ \A j \in 1 .. N : output[j] = AppendUnchecked(output[j - 1], p[j])
    BY <1>10, <2>1
  <2> QED
    BY <2>2 DEF GoesOn
<1>12. WrittenSoFar(output[N], made, p, N)
  <2> HIDE DEF output
  <2>1. \A j \in 0 .. N : WrittenSoFar(output[j], made, p, j)
    BY <1>11, WritingFacts
  <2> QED
    BY <1>1, <2>1
<1> HIDE DEF output
<1> QED
  BY <1>2, <1>12

-----------------------------------------------------------------------------
(* What the loop stores. *)

\* Punycode of any label is ASCII: PunycodeEncode_proofs!EncodedIsASCII.
EncodesASCII == \A s \in Seq(Byte) : Encode(s) \in Seq(Byte) /\ AllASCII(Encode(s))

\* What it adds to the scalars of the label is neither a dot nor uppercase:
\* PunycodeEncode_proofs!EncodedIsPlain.
EncodesPlainly ==
    \A s \in Seq(Byte) : \A j \in 1 .. Len(Encode(s)) :
        \/ Encode(s)[j] \in ToSet(s)
        \/ /\ Encode(s)[j] \in UnicodeScalar /\ Encode(s)[j] # Dot
           /\ ~IsUppercase(Encode(s)[j])

Stored ==
    /\ GoodBuffer(convertedBytes) /\ AllASCII(Contents(convertedBytes))
    /\ encoded # NotMade => /\ LooseBuffer(encoded)
                            /\ Count(newBytes) > Threshold => ~IsInline(encoded)
    /\ lengthErrors \subseteq [at : Nat, kind : LengthErrorKinds]

LEMMA ASCIIPart ==
    ASSUME NEW s \in Seq(Byte), AllASCII(s), NEW n \in 0 .. Len(s)
    PROVE  SubSeq(s, 1, n) \in Seq(Byte) /\ AllASCII(SubSeq(s, 1, n))
<1> DEFINE m == Len(s)
           part == SubSeq(s, 1, n)
<1>1. m \in Nat /\ n \in 0 .. m /\ \A j \in 1 .. m : s[j] \in Byte /\ s[j] < ASCIILimit
  BY LenProperties, ElementOfSeq DEF AllASCII
<1> HIDE DEF m
<1>2. /\ part \in Seq(Byte) /\ Len(part) = n
      /\ \A j \in 1 .. n : part[j] = s[j]
  <2>1. \A j \in 1 .. n : s[j] \in Byte
    BY <1>1
  <2>2. /\ part \in Seq(Byte) /\ Len(part) = IF 1 <= n THEN n - 1 + 1 ELSE 0
        /\ \A j \in 1 .. n - 1 + 1 : part[j] = s[1 + j - 1]
    BY <1>1, <2>1, SubSeqProperties
  <2> HIDE DEF part
  <2>3. n - 1 + 1 = n /\ \A j \in 1 .. n : 1 + j - 1 = j
    BY <1>1
  <2> QED
    BY <1>1, <2>2, <2>3
<1> HIDE DEF part
<1>3. \A j \in 1 .. n : s[j] < ASCIILimit
  BY <1>1
<1> QED
  BY <1>2, <1>3 DEF AllASCII, part

\* The buffer encode is given.
LEMMA MadeFacts ==
    ASSUME Flow, Stored
    PROVE  LooseBuffer(Made) /\ (Count(newBytes) > Threshold => ~IsInline(Made))
<1>1. CASE encoded # NotMade
  BY <1>1 DEF Stored, Made
<1>2. CASE encoded = NotMade
  <2>1. Made = WithPreferredCapacity(Count(newBytes)) /\ Count(newBytes) \in Nat
    BY <1>2, ContentsType DEF Made, Flow, IndInv, Storage
  <2>2. CASE Count(newBytes) > Threshold
    <3>1. Made = Heap(<<>>, Count(newBytes))
      BY <2>1, <2>2 DEF WithPreferredCapacity
    <3>2. <<>> \in Seq(Byte) /\ Len(<<>>) = 0 /\ 0 <= Count(newBytes)
      BY <2>1
    <3>3. GoodBuffer(Heap(<<>>, Count(newBytes)))
      BY <2>1, <3>2, HeapReads
    <3>4. ~IsInline(Heap(<<>>, Count(newBytes)))
      BY DEF IsInline, Heap
    <3> QED
      BY <3>1, <3>3, <3>4, GoodIsLoose
  <2>3. CASE ~(Count(newBytes) > Threshold)
    BY <2>1, <2>3, EmptyReads, GoodIsLoose DEF WithPreferredCapacity
  <2> QED
    BY <2>2, <2>3
<1> QED
  BY <1>1, <1>2

\* Whatever encode writes, what is read back is ASCII.
LEMMA EncodedFacts ==
    ASSUME EncodesASCII, Flow, Stored, AppendEncodedLabel
    PROVE  /\ Punycode = Encode(ScalarsOf(LabelBytes))
           /\ Punycode \in Seq(Byte) /\ AllASCII(Punycode)
           /\ LooseBuffer(encoded') /\ encoded' # NotMade
           /\ Count(newBytes) > Threshold => ~IsInline(encoded')
           /\ Contents(encoded') = ReadBack(Made, Punycode, Len(Punycode))
           /\ Contents(encoded') \in Seq(Byte) /\ AllASCII(Contents(encoded'))
           /\ Count(encoded') = Len(Contents(encoded'))
<1>1. /\ stage = "labels" /\ ~LabelIsASCII /\ UNCHANGED <<vars, call>>
      /\ window' = SetRange(window, ScalarEnds(Processed), labelStart, EndOfLabel)
      /\ stage' = IF AtLastLabel THEN "name" ELSE "labels"
      /\ labelStart' = IF AtLastLabel THEN labelStart ELSE Separator
      /\ ~StoresPastTuple /\ encoded' = Written
  BY DEF AppendEncodedLabel, LabelAppended
<1>2. Shown(window', Scalars) = ScalarsOf(LabelBytes)
  BY <1>1, EncodedLabelFlow
<1> DEFINE p == Punycode
<1>3. p = Encode(ScalarsOf(LabelBytes))
  BY <1>2 DEF Punycode
<1>4. ScalarsOf(LabelBytes) \in Seq(Byte)
  <2>1. LabelPlace
    BY <1>1, TurnFacts DEF Flow
  <2>2. /\ Processed \in Seq(Byte) /\ Len(Processed) \in Nat
        /\ labelStart \in 0 .. Len(Processed) /\ EndOfLabel \in labelStart .. Len(Processed)
    BY <2>1, PlaceFacts, LenProperties DEF LabelPlace
  <2>3. LabelBytes \in Seq(Byte)
    <3>1. \A j \in labelStart + 1 .. EndOfLabel : Processed[j] \in Byte
      <4> SUFFICES ASSUME NEW j \in labelStart + 1 .. EndOfLabel
                   PROVE  j \in 1 .. Len(Processed)
        BY <2>2, ElementOfSeq
      <4> QED
        BY <2>2
    <3> QED
      BY <2>2, <3>1, SubSeqProperties DEF LabelBytes
  <2> QED
    BY <2>3, ScalarsFacts
<1>5. p \in Seq(Byte) /\ AllASCII(p) /\ Len(p) \in Nat
  BY <1>3, <1>4, LenProperties DEF EncodesASCII
<1>6. LooseBuffer(Made) /\ (Count(newBytes) > Threshold => ~IsInline(Made))
  BY MadeFacts
<1>7. IsInline(Made) => Len(p) <= InlineCapacity + 1
  BY <1>1, <1>5, InlineCapacityAssumption DEF StoresPastTuple
<1>8. Written = WrittenTo(Made, p)
  BY DEF Written, WrittenTo
<1> HIDE DEF p
<1>9. WrittenSoFar(encoded', Made, p, Len(p))
  BY <1>1, <1>5, <1>6, <1>7, <1>8, WrittenFacts
<1>10. /\ LooseBuffer(encoded') /\ (IsInline(encoded') <=> IsInline(Made))
       /\ Contents(encoded') = ReadBack(Made, p, Len(p))
  BY <1>9 DEF WrittenSoFar
<1>11. encoded' # NotMade
  BY <1>10 DEF LooseBuffer, Buffer, InlineBuffer, HeapBuffer, NotMade
<1>12. AllASCII(ReadBack(Made, p, Len(p)))
  <2>1. CASE IsInline(Made) /\ Len(p) = InlineCapacity + 1
    <3>1. InlineCapacity \in 0 .. Len(p)
      BY <2>1, InlineCapacityAssumption
    <3>2. InlineCapacity + 1 \in Byte /\ InlineCapacity + 1 < ASCIILimit
      BY WholeScalarsAssumption, ByteAssumption, InlineCapacityAssumption
    <3> DEFINE e == InlineCapacity + 1
    <3> HIDE DEF e
    <3>3. <<e>> \in Seq(Byte) /\ AllASCII(<<e>>)
      BY <3>2 DEF AllASCII, e
    <3>4. SubSeq(p, 1, InlineCapacity) \in Seq(Byte) /\ AllASCII(SubSeq(p, 1, InlineCapacity))
      BY <1>5, <3>1, ASCIIPart
    <3> QED
      BY <2>1, <3>3, <3>4, ASCIIConcat DEF ReadBack, e
  <2>2. CASE ~(IsInline(Made) /\ Len(p) = InlineCapacity + 1)
    <3>1. Len(p) \in 0 .. Len(p)
      BY <1>5
    <3> QED
      BY <1>5, <2>2, <3>1, ASCIIPart DEF ReadBack
  <2> QED
    BY <2>1, <2>2
<1> QED
  BY <1>3, <1>5, <1>6, <1>10, <1>11, <1>12, LooseFacts DEF p

-----------------------------------------------------------------------------
(* One turn of the loop, for a label in ASCII or made so. *)

Turn(label) ==
    /\ stage = "labels"
    /\ LabelAppended(AppendExact(convertedBytes, Len(label) + 1, label \o DotIfDue), Len(label))

LEMMA MarkerFacts == Marker \in Seq(Byte) /\ Len(Marker) = 4 /\ AllASCII(Marker)
<1>1. LetterX \in Byte /\ LetterN \in Byte /\ Hyphen \in Byte
      /\ LetterX < ASCIILimit /\ LetterN < ASCIILimit /\ Hyphen < ASCIILimit
  BY MarkerAssumption
<1> QED
  BY <1>1 DEF Marker, AllASCII

LEMMA ASCIITurn ==
    ASSUME Flow, AppendASCIILabel
    PROVE  /\ LabelBytes \in Seq(Byte) /\ AllASCII(LabelBytes) /\ Turn(LabelBytes)
           /\ UNCHANGED <<encoded, window>>
<1>1. LabelPlace
  <2>1. /\ stage = "labels" /\ UNCHANGED <<vars, call>>
        /\ stage' = IF AtLastLabel THEN "name" ELSE "labels"
        /\ labelStart' = IF AtLastLabel THEN labelStart ELSE Separator
    BY DEF AppendASCIILabel, LabelAppended
  <2> QED
    BY <2>1, TurnFacts DEF Flow
<1>2. /\ Processed \in Seq(Byte) /\ Len(Processed) \in Nat
      /\ labelStart \in 0 .. Len(Processed) /\ EndOfLabel \in labelStart .. Len(Processed)
  BY <1>1, PlaceFacts, LenProperties DEF LabelPlace
<1>3. LabelBytes \in Seq(Byte)
  <2>1. \A j \in labelStart + 1 .. EndOfLabel : Processed[j] \in Byte
    <3> SUFFICES ASSUME NEW j \in labelStart + 1 .. EndOfLabel
                 PROVE  j \in 1 .. Len(Processed)
      BY <1>2, ElementOfSeq
    <3> QED
      BY <1>2
  <2> QED
    BY <1>2, <2>1, SubSeqProperties DEF LabelBytes
<1> QED
  BY <1>3 DEF AppendASCIILabel, LabelIsASCII, Turn

LEMMA EncodedTurn ==
    ASSUME EncodesASCII, Flow, Stored, AppendEncodedLabel
    PROVE  LET label == Marker \o Contents(encoded')
           IN  label \in Seq(Byte) /\ AllASCII(label) /\ Turn(label)
<1> DEFINE text == Contents(encoded')
           label == Marker \o text
<1>1. text \in Seq(Byte) /\ AllASCII(text) /\ Count(encoded') = Len(text) /\ Len(text) \in Nat
  BY EncodedFacts, LenProperties
<1>2. stage = "labels"
      /\ LabelAppended(AppendExact(convertedBytes, 4 + Len(text) + 1, label \o DotIfDue),
                       4 + Len(text))
  BY <1>1 DEF AppendEncodedLabel
<1> HIDE DEF text
<1>3. label \in Seq(Byte) /\ AllASCII(label)
  BY <1>1, MarkerFacts, ASCIIConcat
<1>4. Len(label) = 4 + Len(text)
  <2>1. Marker \in Seq(Byte) /\ Len(Marker) = 4
    BY MarkerFacts
  <2>2. Len(Marker \o text) = Len(Marker) + Len(text)
    BY <1>1, <2>1, ConcatProperties
  <2> QED
    BY <2>1, <2>2
<1> HIDE DEF label
<1>5. Turn(label)
  BY <1>2, <1>4 DEF Turn
<1> QED
  BY <1>3, <1>5 DEF label, text

\* A turn appends the label and the dot that is due.
LEMMA TurnReads ==
    ASSUME GoodBuffer(convertedBytes), NEW label \in Seq(Byte), Turn(label)
    PROVE  /\ GoodBuffer(convertedBytes')
           /\ Contents(convertedBytes') = (Contents(convertedBytes) \o label) \o DotIfDue
<1> DEFINE C == Contents(convertedBytes)
<1>1. C \in Seq(Byte) /\ Len(label) \in Nat
  BY ContentsType, LenProperties
<1>2. DotIfDue \in Seq(Byte) /\ Len(DotIfDue) \in 0 .. 1
  BY ScalarBytesAssumption DEF DotIfDue
<1>3. label \o DotIfDue \in Seq(Byte) /\ Len(label \o DotIfDue) = Len(label) + Len(DotIfDue)
  BY <1>2, ConcatProperties
<1>4. Len(label \o DotIfDue) <= Len(label) + 1 /\ Len(label) + 1 \in Nat
  <2> DEFINE l == Len(label)
             d == Len(DotIfDue)
  <2>1. l \in Nat /\ d \in 0 .. 1 /\ Len(label \o DotIfDue) = l + d
    BY <1>1, <1>2, <1>3
  <2> HIDE DEF l, d
  <2>2. l + d <= l + 1 /\ l + 1 \in Nat
    BY <2>1
  <2> QED
    BY <2>1, <2>2 DEF l
<1>5. convertedBytes' = AppendExact(convertedBytes, Len(label) + 1, label \o DotIfDue)
  BY DEF Turn, LabelAppended
<1>6. GoodBuffer(convertedBytes') /\ Contents(convertedBytes') = C \o (label \o DotIfDue)
  BY <1>3, <1>4, <1>5, AppendExactReads
<1>7. C \o (label \o DotIfDue) = (C \o label) \o DotIfDue
  <2> HIDE DEF C
  <2> QED
    BY <1>1, <1>2, ConcatAssociative, SMTT(30)
<1> QED
  BY <1>6, <1>7

LEMMA TurnStored ==
    ASSUME Flow, Stored, NEW label \in Seq(Byte), AllASCII(label), Turn(label),
           encoded' # NotMade =>
                LooseBuffer(encoded') /\ (Count(newBytes) > Threshold => ~IsInline(encoded'))
    PROVE  Stored'
<1>1. GoodBuffer(convertedBytes')
      /\ Contents(convertedBytes') = (Contents(convertedBytes) \o label) \o DotIfDue
  BY TurnReads DEF Stored
<1>2. DotIfDue \in Seq(Byte) /\ AllASCII(DotIfDue)
  BY ScalarBytesAssumption, WholeScalarsAssumption DEF DotIfDue, AllASCII
<1>3. AllASCII(Contents(convertedBytes'))
  BY <1>1, <1>2, ASCIIConcat, ContentsType DEF Stored
<1>4. lengthErrors' \subseteq [at : Nat, kind : LengthErrorKinds]
  <2>1. labelStart \in Nat
    <3>1. /\ UNCHANGED <<vars, call>> /\ stage = "labels"
          /\ stage' = IF AtLastLabel THEN "name" ELSE "labels"
          /\ labelStart' = IF AtLastLabel THEN labelStart ELSE Separator
      BY DEF Turn, LabelAppended
    <3>2. LabelPlace
      BY <3>1, TurnFacts DEF Flow
    <3> QED
      BY <3>2, PlaceFacts
  <2>2. \A k \in LengthKinds(Len(label)) : k \in LengthErrorKinds
    BY DEF LengthKinds, When, LengthErrorKinds
  <2>3. lengthErrors' =
            lengthErrors \cup {[at |-> labelStart, kind |-> k] : k \in LengthKinds(Len(label))}
    BY DEF Turn, LabelAppended
  <2> QED
    BY <2>1, <2>2, <2>3 DEF Stored
<1>5. newBytes' = newBytes
  BY DEF Turn, LabelAppended, vars
<1> QED
  BY <1>1, <1>3, <1>4, <1>5 DEF Stored

-----------------------------------------------------------------------------
(* The labels the loop goes through are those between the separators. *)

LabelText(from) == ASCIILabel(LabelUpToSeparator(Processed, from))
StartBefore(from) == Max({f \in Starts(Processed) : f < from})

LEMMA StartsBounded ==
    ASSUME LabelPlace
    PROVE  /\ Len(Processed) \in Nat /\ 0 \in Starts(Processed)
           /\ Starts(Processed) \in SUBSET (0 .. Len(Processed))
<1>1. Processed \in Seq(Byte) /\ Len(Processed) \in Nat
  BY LenProperties DEF LabelPlace
<1>2. \A j \in 1 .. Len(Processed) : j \in 0 .. Len(Processed)
  BY <1>1
<1> QED
  BY <1>1, <1>2 DEF Starts, AllSeparators

LEMMA SeparatorsSeen ==
    ASSUME LabelPlace, ~WideAtFront
    PROVE  Separators(Processed, labelStart)
                = {j \in AllSeparators(Processed) : j > labelStart}
<1> DEFINE s == Processed
           m == Len(s)
<1>1. m \in Nat /\ labelStart \in 0 .. m
  BY PlaceFacts, StartsBounded
<1>2. m >= 3 => ~WideAt(s, 3)
  BY DEF WideAtFront
<1>3. \A j \in 1 .. m : WideAt(s, j) => j > 3
  BY <1>1, <1>2 DEF WideAt
<1>4. AllSeparators(s) = {j \in 1 .. m : s[j] = Dot \/ WideAt(s, j)}
  BY DEF AllSeparators
<1>5. Separators(s, labelStart)
        = {j \in labelStart + 1 .. m : s[j] = Dot \/ (j > 3 /\ WideAt(s, j))}
  BY DEF Separators
<1> HIDE DEF s, m
<1>6. \A j : j \in labelStart + 1 .. m <=> j \in 1 .. m /\ j > labelStart
  BY <1>1
<1>7. \A j : j \in Separators(s, labelStart)
                <=> j \in AllSeparators(s) /\ j > labelStart
  BY <1>3, <1>4, <1>5, <1>6
<1>8. Separators(s, labelStart) = {j \in AllSeparators(s) : j > labelStart}
  BY <1>7
<1> QED
  BY <1>8 DEF s

LEMMA LabelAtHand ==
    ASSUME LabelPlace, ~WideAtFront
    PROVE  /\ LabelBytes = LabelUpToSeparator(Processed, labelStart)
           /\ AtLastLabel =>
                /\ labelStart = Max(Starts(Processed))
                /\ {f \in Starts(Processed) : f <= labelStart} = Starts(Processed)
           /\ ~AtLastLabel =>
                /\ StartBefore(Separator) = labelStart
                /\ {f \in Starts(Processed) : f < Separator}
                        = {f \in Starts(Processed) : f <= labelStart}
<1> DEFINE S == Starts(Processed)
           ends == {j \in AllSeparators(Processed) : j > labelStart}
<1>1. Separators(Processed, labelStart) = ends
  BY SeparatorsSeen
<1>2. /\ Len(Processed) \in Nat /\ 0 \in S /\ S \in SUBSET (0 .. Len(Processed))
      /\ labelStart \in S /\ labelStart \in 0 .. Len(Processed)
      /\ \A f : f \in ends <=> f \in S /\ f > labelStart
  <2>1. labelStart \in 0 .. Len(Processed)
    BY PlaceFacts
  <2>2. \A f : f \in ends <=> f \in S /\ f > labelStart
    <3>1. ~(0 > labelStart)
      BY <2>1
    <3> QED
      BY <3>1 DEF Starts
  <2> QED
    BY <2>1, <2>2, StartsBounded DEF LabelPlace
<1>3. LabelBytes = LabelUpToSeparator(Processed, labelStart)
  <2>1. LabelUpToSeparator(Processed, labelStart)
            = IF ends = {} THEN SubSeq(Processed, labelStart + 1, Len(Processed))
              ELSE SubSeq(Processed, labelStart + 1,
                          Min(ends) - IF Processed[Min(ends)] = Dot THEN 1 ELSE 3)
    BY DEF LabelUpToSeparator
  <2>2. (AtLastLabel <=> ends = {}) /\ Separator = Min(ends)
    BY <1>1 DEF AtLastLabel, Separator
  <2> HIDE DEF ends
  <2>3. (IF ends = {} THEN SubSeq(Processed, labelStart + 1, Len(Processed))
         ELSE SubSeq(Processed, labelStart + 1,
                     Separator - IF Processed[Separator] = Dot THEN 1 ELSE 3))
            = LabelBytes
    <3>1. CASE AtLastLabel
      BY <2>2, <3>1 DEF LabelBytes, EndOfLabel
    <3>2. CASE ~AtLastLabel
      <4>1. CASE Processed[Separator] = Dot
        BY <2>2, <3>2, <4>1 DEF LabelBytes, EndOfLabel
      <4>2. CASE Processed[Separator] # Dot
        BY <2>2, <3>2, <4>2 DEF LabelBytes, EndOfLabel
      <4> QED
        BY <4>1, <4>2
    <3> QED
      BY <3>1, <3>2
  <2> QED
    BY <2>1, <2>2, <2>3
<1> HIDE DEF ends
<1>4. \A f \in S : f \in 0 .. Len(Processed)
  BY <1>2
<1>5. ASSUME AtLastLabel
      PROVE  /\ labelStart = Max(S)
             /\ {f \in S : f <= labelStart} = S
  <2>1. \A f \in S : f <= labelStart
    <3>1. \A f \in S : ~(f > labelStart)
      BY <1>1, <1>2, <1>5 DEF AtLastLabel
    <3> QED
      BY <1>2, <1>4, <3>1
  <2> HIDE DEF S
  <2>2. Max(S) \in S /\ \A f \in S : f <= Max(S)
    BY <1>2, MaxFacts
  <2>3. Max(S) <= labelStart /\ labelStart <= Max(S) /\ Max(S) \in 0 .. Len(Processed)
    BY <1>2, <1>4, <2>1, <2>2
  <2>4. labelStart = Max(S)
    BY <1>2, <2>3
  <2> QED
    BY <2>1, <2>4
<1>6. ASSUME ~AtLastLabel
      PROVE  /\ StartBefore(Separator) = labelStart
             /\ {f \in S : f < Separator} = {f \in S : f <= labelStart}
  <2>1. /\ Separator \in ends /\ \A j \in ends : Separator <= j
    BY <1>1, <1>6, PlaceFacts
  <2>2. Separator \in S /\ Separator > labelStart
    BY <1>2, <2>1
  <2>3. \A f \in S : f < Separator <=> f <= labelStart
    <3> TAKE f \in S
    <3>1. f \in Nat /\ labelStart \in Nat /\ Separator \in Nat
      BY <1>2, <1>4, <2>2
    <3>2. f > labelStart => Separator <= f
      BY <1>2, <2>1
    <3> QED
      BY <2>2, <3>1, <3>2
  <2>4. StartBefore(Separator) = labelStart
    <3> DEFINE b == Max({f \in S : f < Separator})
    <3>1. b \in S /\ b < Separator /\ \A f \in S : f < Separator => f <= b
      <4>1. Separator # 0
        BY <1>2, <2>2
      <4> HIDE DEF S
      <4> QED
        BY <1>2, <2>2, <4>1, BeforeFacts
    <3>2. b = StartBefore(Separator)
      BY DEF StartBefore
    <3> HIDE DEF b, S
    <3>3. b <= labelStart /\ labelStart <= b /\ b \in Nat
      BY <1>2, <1>4, <2>2, <2>3, <3>1
    <3> QED
      BY <1>2, <3>2, <3>3
  <2> QED
    BY <2>3, <2>4
<1> QED
  BY <1>3, <1>5, <1>6

\* The ASCII form, one label after the other.
LEMMA FormIsRecursive ==
    ASSUME LabelPlace
    PROVE  /\ ASCIIFormUpTo(Processed, 0) = LabelText(0)
           /\ \A f \in Starts(Processed) : f # 0 =>
                ASCIIFormUpTo(Processed, f)
                    = ASCIIFormUpTo(Processed, StartBefore(f)) \o <<Dot>> \o LabelText(f)
<1> DEFINE S == Starts(Processed)
           piece == [f \in S |-> ASCIILabel(LabelUpToSeparator(Processed, f))]
<1>1. Len(Processed) \in Nat /\ 0 \in S /\ S \in SUBSET (0 .. Len(Processed))
  BY StartsBounded
<1>2. DOMAIN piece = S /\ \A f \in S : piece[f] = LabelText(f)
  BY DEF LabelText
<1>3. \A f : ASCIIFormUpTo(Processed, f) = JoinedUpTo(piece, f)
  BY DEF ASCIIFormUpTo
<1>4. \A f : StartBefore(f) = Max({g \in S : g < f})
  BY DEF StartBefore
<1> HIDE DEF piece, S
<1>5. /\ JoinedUpTo(piece, 0) = piece[0]
      /\ \A f \in S : f # 0 =>
            JoinedUpTo(piece, f)
                = JoinedUpTo(piece, Max({g \in S : g < f})) \o <<Dot>> \o piece[f]
  BY <1>1, <1>2, JoinedIsRecursive
<1> QED
  BY <1>1, <1>2, <1>3, <1>4, <1>5, Zenon DEF S

FormBefore(from) ==
    IF from = 0 THEN <<>> ELSE ASCIIFormUpTo(Processed, StartBefore(from)) \o <<Dot>>

\* What is recorded of labels and of the name, by their length in ASCII.
LabelKinds(starts) ==
    UNION {{[at |-> f, kind |-> k] : k \in LengthKinds(Len(LabelText(f)))} : f \in starts}
NameKindsAtEnd ==
    {[at |-> labelStart, kind |-> k] : k \in NameKinds(Len(ASCIIForm(Processed)))}

Labelwise ==
    LoopBegun /\ Unspoilt =>
        /\ stage = "labels" =>
            /\ Contents(convertedBytes) = FormBefore(labelStart)
            /\ lengthErrors = LabelKinds({f \in Starts(Processed) : f < labelStart})
        /\ stage \in {"name", "end"} =>
            /\ labelStart = Max(Starts(Processed))
            /\ Contents(convertedBytes) = ASCIIForm(Processed)
        /\ stage = "name" => lengthErrors = LabelKinds(Starts(Processed))
        /\ stage = "end" => lengthErrors = LabelKinds(Starts(Processed)) \cup NameKindsAtEnd

Returned ==
    stage = "end" /\ call = "toASCII" /\ result.kind # "thrown" =>
        /\ AllASCII(result.bytes)
        /\ pc = "done" => result.bytes = Contents(convertedBytes)

\* An encoded label is what it is compared with, when its Punycode fits.
LEMMA EncodedText ==
    ASSUME EncodesASCII, Flow, Stored, Unspoilt, AppendEncodedLabel
    PROVE  Marker \o Contents(encoded') = LabelText(labelStart)
<1>1. LabelPlace
  <2>1. /\ stage = "labels" /\ UNCHANGED <<vars, call>>
        /\ stage' = IF AtLastLabel THEN "name" ELSE "labels"
        /\ labelStart' = IF AtLastLabel THEN labelStart ELSE Separator
    BY DEF AppendEncodedLabel, LabelAppended
  <2> QED
    BY <2>1, TurnFacts DEF Flow
<1>2. /\ Punycode = Encode(ScalarsOf(LabelBytes)) /\ Punycode \in Seq(Byte)
      /\ Contents(encoded') = ReadBack(Made, Punycode, Len(Punycode))
  BY EncodedFacts
<1>3. LabelBytes = LabelUpToSeparator(Processed, labelStart) /\ ~AllASCII(LabelBytes)
  BY <1>1, LabelAtHand DEF Unspoilt, AppendEncodedLabel, LabelIsASCII
<1>4. Count(newBytes) > Threshold => ~IsInline(Made)
  BY MadeFacts
<1>5. Count(newBytes) > Threshold \/ Len(Punycode) <= InlineCapacity
  BY <1>1, <1>2, <1>3 DEF Unspoilt, PunycodeFits, LabelPlace
<1> DEFINE p == Punycode
<1>6. p \in Seq(Byte) /\ Len(p) \in Nat
  BY <1>2, LenProperties
<1> HIDE DEF p
<1>7. ReadBack(Made, p, Len(p)) = p
  <2>1. ~(IsInline(Made) /\ Len(p) = InlineCapacity + 1)
    BY <1>4, <1>5, <1>6, InlineCapacityAssumption DEF p
  <2>2. SubSeq(p, 1, Len(p)) = p
    BY <1>6, SubSeqFull
  <2> QED
    BY <2>1, <2>2 DEF ReadBack
<1>8. Contents(encoded') = Encode(ScalarsOf(LabelBytes))
  BY <1>2, <1>7 DEF p
<1> QED
  BY <1>3, <1>8 DEF LabelText, ASCIILabel

\* The labels of the processed text in ASCII are texts themselves.
LEMMA LabelIsText ==
    ASSUME EncodesASCII, LabelPlace, NEW from \in Starts(Processed)
    PROVE  Len(LabelText(from)) \in Nat
<1> DEFINE s == Processed
           N == Len(s)
           ends == {j \in AllSeparators(s) : j > from}
           before(j) == j - IF s[j] = Dot THEN 1 ELSE 3
           label == LabelUpToSeparator(s, from)
<1>1. /\ s \in Seq(Byte) /\ N \in Nat /\ from \in 0 .. N
      /\ AllSeparators(s) \subseteq 1 .. N
  BY StartsBounded DEF LabelPlace, AllSeparators
<1>2. label \in Seq(Byte)
  <2>1. \A to \in Int : to <= N => SubSeq(s, from + 1, to) \in Seq(Byte)
    <3> SUFFICES ASSUME NEW to \in Int, to <= N PROVE SubSeq(s, from + 1, to) \in Seq(Byte)
      OBVIOUS
    <3>1. \A j \in 1 .. N : s[j] \in Byte
      BY <1>1, ElementOfSeq
    <3> HIDE DEF s, N
    <3>2. from + 1 \in Int /\ \A j \in from + 1 .. to : j \in 1 .. N
      BY <1>1
    <3> QED
      BY <1>1, <3>1, <3>2, SubSeqProperties
  <2>2. CASE ends = {}
    <3>1. label = SubSeq(s, from + 1, N)
      BY <2>2 DEF LabelUpToSeparator
    <3> QED
      BY <1>1, <2>1, <3>1
  <2>3. CASE ends # {}
    <3>1. label = SubSeq(s, from + 1, before(Min(ends)))
      BY <2>3 DEF LabelUpToSeparator
    <3>2. Min(ends) \in 1 .. N
      <4>1. ends \in SUBSET Nat
        BY <1>1
      <4>2. Min(ends) \in ends
        BY <2>3, <4>1, MinFacts
      <4> QED
        BY <1>1, <4>2
    <3>3. before(Min(ends)) \in Int /\ before(Min(ends)) <= N
      BY <1>1, <3>2
    <3> HIDE DEF label, before
    <3> QED
      BY <2>1, <3>1, <3>3
  <2> QED
    BY <2>2, <2>3
<1> HIDE DEF label
<1>3. ASCIILabel(label) \in Seq(Byte)
  <2>1. Encode(ScalarsOf(label)) \in Seq(Byte)
    BY <1>2, ScalarsFacts DEF EncodesASCII
  <2>2. Marker \o Encode(ScalarsOf(label)) \in Seq(Byte)
    BY <2>1, MarkerFacts, ConcatProperties
  <2> QED
    BY <1>2, <2>2 DEF ASCIILabel
<1>4. LabelText(from) \in Seq(Byte)
  BY <1>3 DEF LabelText, label
<1> QED
  BY <1>4, LenProperties

LEMMA TurnLabelwise ==
    ASSUME Flow, Stored, Labelwise, NEW label \in Seq(Byte), Turn(label),
           Unspoilt => label = LabelText(labelStart)
    PROVE  Labelwise'
<1> SUFFICES ASSUME LoopBegun', Unspoilt' PROVE Labelwise'
  BY DEF Labelwise
<1>1. /\ stage = "labels" /\ UNCHANGED <<vars, call>>
      /\ stage' = IF AtLastLabel THEN "name" ELSE "labels"
      /\ labelStart' = IF AtLastLabel THEN labelStart ELSE Separator
      /\ lengthErrors' =
            lengthErrors \cup {[at |-> labelStart, kind |-> k] : k \in LengthKinds(Len(label))}
  BY DEF Turn, LabelAppended
<1>2. LoopBegun /\ LabelPlace /\ Processed' = Processed
  BY <1>1, TurnFacts DEF Flow
<1>3. Unspoilt /\ ~WideAtFront
  <2>1. WideAtFront' <=> WideAtFront
    BY <1>2 DEF WideAtFront, WideAt
  <2>2. newBytes' = newBytes
    BY <1>1 DEF vars
  <2>3. PunycodeFits' <=> PunycodeFits
    BY <1>2, <2>2 DEF PunycodeFits
  <2> QED
    BY <2>1, <2>3 DEF Unspoilt
<1>4. label = LabelText(labelStart)
  BY <1>3
<1>5. /\ Contents(convertedBytes) = FormBefore(labelStart)
      /\ lengthErrors = LabelKinds({f \in Starts(Processed) : f < labelStart})
  BY <1>1, <1>2, <1>3 DEF Labelwise
<1>6. Contents(convertedBytes') = (Contents(convertedBytes) \o label) \o DotIfDue
  BY TurnReads DEF Stored
<1>7. FormBefore(labelStart) \o label = ASCIIFormUpTo(Processed, labelStart)
  <2>1. CASE labelStart = 0
    <3>1. FormBefore(labelStart) \o label = label
      BY <2>1, ConcatEmptySeq DEF FormBefore
    <3> QED
      BY <1>2, <1>4, <2>1, <3>1, FormIsRecursive
  <2>2. CASE labelStart # 0
    BY <1>2, <1>4, <2>2, FormIsRecursive DEF FormBefore, LabelPlace
  <2> QED
    BY <2>1, <2>2
<1>8. Contents(convertedBytes') = ASCIIFormUpTo(Processed, labelStart) \o DotIfDue
  BY <1>5, <1>6, <1>7
<1>9. \A f : LabelText(f)' = LabelText(f)
  BY <1>2 DEF LabelText
<1>10. \A n : LengthKinds(n)' = LengthKinds(n)
  BY <1>1 DEF LengthKinds, vars
<1>11. \A S : LabelKinds(S)' = LabelKinds(S)
  BY <1>9, <1>10 DEF LabelKinds
<1>12. lengthErrors' = LabelKinds({f \in Starts(Processed) : f <= labelStart})
  <2> DEFINE less == {f \in Starts(Processed) : f < labelStart}
             upTo == {f \in Starts(Processed) : f <= labelStart}
  <2>1. upTo = less \cup {labelStart}
    <3>1. \A f \in Starts(Processed) : f \in Nat
      BY <1>2, StartsBounded
    <3>2. labelStart \in Starts(Processed) /\ labelStart \in Nat
      BY <1>2, <3>1 DEF LabelPlace
    <3>3. \A f \in Starts(Processed) : f <= labelStart <=> f < labelStart \/ f = labelStart
      BY <3>1, <3>2
    <3> QED
      BY <3>2, <3>3
  <2> HIDE DEF less, upTo
  <2>2. LabelKinds(upTo)
            = LabelKinds(less) \cup
                {[at |-> labelStart, kind |-> k] : k \in LengthKinds(Len(LabelText(labelStart)))}
    BY <2>1 DEF LabelKinds
  <2> QED
    BY <1>1, <1>4, <1>5, <2>2 DEF less, upTo
<1>13. CASE AtLastLabel
  <2>1. stage' = "name" /\ labelStart' = labelStart
    BY <1>1, <1>13
  <2>2. /\ labelStart = Max(Starts(Processed))
        /\ {f \in Starts(Processed) : f <= labelStart} = Starts(Processed)
    BY <1>2, <1>3, <1>13, LabelAtHand
  <2>3. Contents(convertedBytes') = ASCIIForm(Processed)
    <3>1. Contents(convertedBytes') = ASCIIFormUpTo(Processed, labelStart) \o <<>>
      BY <1>8, <1>13 DEF DotIfDue
    <3>2. Contents(convertedBytes) \in Seq(Byte)
      BY ContentsType DEF Stored
    <3>3. ASCIIFormUpTo(Processed, labelStart) \in Seq(Byte)
      <4>1. Contents(convertedBytes) \o label \in Seq(Byte)
        BY <3>2, ConcatProperties
      <4> QED
        BY <1>5, <1>7, <4>1
    <3> QED
      BY <2>2, <3>1, <3>3, ConcatEmptySeq DEF ASCIIForm
  <2>4. Contents(convertedBytes)' = ASCIIForm(Processed)'
        /\ Max(Starts(Processed))' = Max(Starts(Processed))
        /\ LabelKinds(Starts(Processed))' = LabelKinds(Starts(Processed))
    BY <1>2, <1>11, <2>3
  <2>5. lengthErrors' = LabelKinds(Starts(Processed))
    BY <1>12, <2>2
  <2> QED
    BY <2>1, <2>2, <2>4, <2>5 DEF Labelwise
<1>14. CASE ~AtLastLabel
  <2>1. stage' = "labels" /\ labelStart' = Separator
    BY <1>1, <1>14
  <2>2. /\ StartBefore(Separator) = labelStart
        /\ {f \in Starts(Processed) : f < Separator}
                = {f \in Starts(Processed) : f <= labelStart}
    BY <1>2, <1>3, <1>14, LabelAtHand
  <2>3. Separator # 0
    BY <1>2, <1>14, PlaceFacts
  <2>4. Contents(convertedBytes') = FormBefore(Separator)
    BY <1>8, <1>14, <2>2, <2>3 DEF DotIfDue, FormBefore
  <2>5. FormBefore(labelStart)' = FormBefore(Separator)
    <3>1. StartBefore(labelStart)' = StartBefore(Separator)
      BY <1>2, <2>1 DEF StartBefore
    <3> QED
      BY <1>2, <2>1, <2>3, <3>1 DEF FormBefore
  <2>6. LabelKinds({f \in Starts(Processed) : f < labelStart})'
            = LabelKinds({f \in Starts(Processed) : f < Separator})
    <3>1. {f \in Starts(Processed') : f < labelStart'}
            = {f \in Starts(Processed) : f < Separator}
      BY <1>2, <2>1
    <3>2. \A f : LengthKinds(Len(LabelText(f)))' = LengthKinds(Len(LabelText(f)))
      BY <1>1, <1>9 DEF LengthKinds, vars
    <3> QED
      BY <3>1, <3>2 DEF LabelKinds
  <2>7. lengthErrors' = LabelKinds({f \in Starts(Processed) : f < Separator})
    BY <1>12, <2>2
  <2> QED
    BY <2>1, <2>4, <2>5, <2>6, <2>7 DEF Labelwise
<1> QED
  BY <1>13, <1>14

-----------------------------------------------------------------------------
(* The steps, together. *)

LEMMA ReturnASCIIFlow ==
    ASSUME Flow, ReturnASCII
    PROVE  Control' /\ Place' /\ WindowKept' /\ UNCHANGED Window!vars
<1>1. /\ stage = "name" /\ stage' = "end"
      /\ UNCHANGED <<vars, call, convertedBytes, encoded, window, labelStart>>
  BY DEF ReturnASCII, ReturnBytes, Return
<1>2. LoopBegun /\ LoopBegun' /\ Processed' = Processed
  BY <1>1 DEF Flow, Control, LoopBegun, Processed, vars
<1>3. WindowEnds' = WindowEnds
  BY <1>2 DEF WindowEnds
<1>4. ScalarsPassed' = ScalarsPassed
  BY <1>1, <1>2, <1>3 DEF ScalarsPassed
<1>5. Control'
  BY <1>1 DEF Flow, Control, vars
<1>6. Place'
  <2>1. labelStart' \in Starts(Processed)'
    BY <1>1, <1>2 DEF Flow, Place
  <2> QED
    BY <1>1, <1>2, <2>1 DEF Place
<1>7. WindowKept' /\ UNCHANGED Window!vars
  BY <1>1, <1>3, <1>4 DEF Flow, WindowKept, Window!vars
<1> QED
  BY <1>5, <1>6, <1>7

LEMMA AllUnchanged ==
    ASSUME UNCHANGED allVars
    PROVE  UNCHANGED <<vars, call, stage, convertedBytes, encoded, window, labelStart,
                       lengthErrors, result>>
  BY DEF allVars, conversionVars

LEMMA UnchangedFlow ==
    ASSUME Flow, UNCHANGED allVars
    PROVE  Control' /\ Place' /\ WindowKept' /\ UNCHANGED Window!vars
<1>1. UNCHANGED <<vars, call, stage, convertedBytes, encoded, window, labelStart,
                  lengthErrors, result>>
  BY AllUnchanged
<1>2. /\ (LoopBegun' <=> LoopBegun) /\ Processed' = Processed
  BY <1>1 DEF LoopBegun, Processed, vars
<1>3. WindowEnds' = WindowEnds
  BY <1>2 DEF WindowEnds
<1>4. ScalarsPassed' = ScalarsPassed
  BY <1>1, <1>2, <1>3 DEF ScalarsPassed
<1>5. Control'
  BY <1>1 DEF Flow, Control, vars
<1>6. Place'
  BY <1>1, <1>2 DEF Flow, Place, AtLastLabel, Separators, Starts, AllSeparators, WideAt
<1>7. WindowKept' /\ UNCHANGED Window!vars
  BY <1>1, <1>3, <1>4 DEF Flow, WindowKept, Window!vars
<1> QED
  BY <1>5, <1>6, <1>7

LEMMA FlowStep == Flow /\ [ConversionNext]_allVars => Flow' /\ [Window!Next]_Window!vars
<1> SUFFICES ASSUME Flow, [ConversionNext]_allVars
             PROVE  Flow' /\ [Window!Next]_Window!vars
  OBVIOUS
<1>1. IndInv' /\ WholeText'
  BY MainKept DEF Flow
<1>2. Control' /\ Place' /\ WindowKept' /\ [Window!Next]_Window!vars
  <2>1. CASE BeforeLabels
    BY <2>1, BeforeLabelsFlow
  <2>2. CASE StartLabels
    BY <2>2, StartLabelsFlow DEF Window!Next
  <2>3. CASE AppendASCIILabel
    BY <2>3, AppendASCIILabelFlow DEF Window!Next
  <2>4. CASE AppendEncodedLabel
    <3>1. /\ stage = "labels" /\ ~LabelIsASCII /\ UNCHANGED <<vars, call>>
          /\ window' = SetRange(window, ScalarEnds(Processed), labelStart, EndOfLabel)
          /\ stage' = IF AtLastLabel THEN "name" ELSE "labels"
          /\ labelStart' = IF AtLastLabel THEN labelStart ELSE Separator
      BY <2>4 DEF AppendEncodedLabel, LabelAppended
    <3> QED
      BY <3>1, EncodedLabelFlow
  <2>5. CASE EncodePastTuple
    <3>1. /\ stage = "labels" /\ ~LabelIsASCII /\ UNCHANGED <<vars, call>>
          /\ window' = SetRange(window, ScalarEnds(Processed), labelStart, EndOfLabel)
          /\ stage' = "undefined" /\ labelStart' = labelStart
      BY <2>5 DEF EncodePastTuple
    <3> QED
      BY <3>1, EncodedLabelFlow
  <2>6. CASE ReturnASCII
    BY <2>6, ReturnASCIIFlow
  <2>7. CASE UNCHANGED allVars
    BY <2>7, UnchangedFlow
  <2> QED
    BY <2>1, <2>2, <2>3, <2>4, <2>5, <2>6, <2>7
    DEF ConversionNext, ConversionFinished, BeforeLabels
<1> QED
  BY <1>1, <1>2 DEF Flow

LEMMA FlowInit == ConversionInit => Flow /\ Window!Init
<1> SUFFICES ASSUME ConversionInit PROVE Flow /\ Window!Init
  OBVIOUS
<1>1. IndInv /\ WholeText /\ pc = "map"
  BY InitInv, InitWhole DEF ConversionInit, Init
<1>2. ~LoopBegun /\ WindowEnds = <<>> /\ ScalarsPassed = 0
  BY <1>1 DEF LoopBegun, WindowEnds, ScalarsPassed
<1>3. window = [startIndex |-> 0, endIndex |-> 0, endIndexByteOffset |-> 0]
  BY DEF ConversionInit, EmptyWindow
<1>4. Control /\ Place
  BY <1>1, <1>2 DEF ConversionInit, Control, Place
<1>5. EndOf(<<>>, 0) = 0 /\ Len(<<>>) = 0
  BY EmptySeq DEF EndOf
<1>6. window \in Window!WindowType
  BY <1>3 DEF Window!WindowType
<1>7. WindowKept
  BY <1>2, <1>3, <1>5, <1>6 DEF WindowKept
<1>8. Window!Init
  BY <1>2, <1>3, <1>5, SameWindow DEF Window!Init, EmptyWindow
<1> QED
  BY <1>1, <1>4, <1>7, <1>8 DEF Flow

\* The loop over the labels uses the window as ScalarWindowOps has it used,
\* for every domain name and every table: the scalars are decoded from the
\* processed text once, and each range it is set to starts behind the last
\* separator and ends with a scalar of the label at hand.
THEOREM WindowImplemented == ConversionSpec => ImplementsWindow
<1>1. ConversionInit => Flow /\ Window!Init
  BY FlowInit
<1>2. Flow /\ [ConversionNext]_allVars => Flow' /\ [Window!Next]_Window!vars
  BY FlowStep
<1> QED
  BY <1>1, <1>2, PTL DEF ConversionSpec, ImplementsWindow, Window!Spec

\* Inside of a conversion, `mainProcessing` does what it does alone: the
\* checks and the loop around it read what it keeps and never write it.
THEOREM MainImplemented == ConversionSpec => Spec
<1>1. ConversionInit => Init
  BY DEF ConversionInit
<1>2. [ConversionNext]_allVars => [Next]_vars
  BY MainSteps
<1> QED
  BY <1>1, <1>2, PTL DEF ConversionSpec, Spec

-----------------------------------------------------------------------------
(***************************************************************************)
(* The inductive invariant: where a call is and what the window has passed *)
(* (Flow), what its buffers hold (Stored), the labels done so far in place *)
(* of the output and of the errors about lengths (Labelwise), and the      *)
(* result in terms of the output (Returned).                               *)
(***************************************************************************)

ConversionInv == Flow /\ Stored /\ Labelwise /\ Returned

LEMMA BeforeLabelsStored ==
    ASSUME Flow, Stored, BeforeLabels
    PROVE  Stored' /\ Labelwise'
<1>1. /\ ~LoopBegun /\ ~LoopBegun'
      /\ UNCHANGED <<convertedBytes, encoded, window, labelStart, lengthErrors>>
  <2>1. CASE CheckBytes
    BY <2>1 DEF CheckBytes, Flow, Control, LoopBegun, vars
  <2>2. CASE SearchForUppercase
    BY <2>2 DEF SearchForUppercase, Flow, Control, LoopBegun, vars
  <2>3. CASE KeepDomain \/ LowercaseDomain
    BY <2>3 DEF KeepDomain, LowercaseDomain, Return, Flow, Control, LoopBegun, vars
  <2>4. CASE ConvertAnyway
    BY <2>4 DEF ConvertAnyway, Flow, Control, LoopBegun, vars
  <2>5. CASE MainStep
    BY <2>5 DEF MainStep, conversionVars, LoopBegun
  <2>6. CASE ReturnUnicode
    BY <2>6 DEF ReturnUnicode, ReturnBytes, Return, LoopBegun, vars
  <2> QED
    BY <2>1, <2>2, <2>3, <2>4, <2>5, <2>6 DEF BeforeLabels
<1>2. encoded = NotMade
  BY <1>1 DEF Flow, Place
<1> QED
  BY <1>1, <1>2 DEF Stored, Labelwise

LEMMA StartLabelsStored ==
    ASSUME Flow, Stored, StartLabels
    PROVE  Stored' /\ Labelwise'
<1>1. /\ ~LoopBegun /\ LoopBegun' /\ Processed' = Processed /\ stage' = "labels"
      /\ UNCHANGED <<vars, call, encoded, window, labelStart, lengthErrors>>
      /\ convertedBytes' = RemoveAll(newBytes, TRUE)
  BY DEF StartLabels, LoopBegun, Processed, vars
<1>2. labelStart = 0 /\ lengthErrors = {}
  BY <1>1 DEF Flow, Place
<1>3. GoodBuffer(convertedBytes') /\ Contents(convertedBytes') = <<>>
  BY <1>1, RemoveReads DEF Flow, IndInv, Storage
<1>4. newBytes' = newBytes
  BY <1>1 DEF vars
<1>5. Stored'
  <2>1. AllASCII(<<>>)
    BY EmptySeq DEF AllASCII
  <2>2. AllASCII(Contents(convertedBytes')) /\ encoded' = encoded /\ lengthErrors' = lengthErrors
    BY <1>1, <1>3, <2>1
  <2> QED
    BY <1>3, <1>4, <2>2 DEF Stored
<1>6. LabelPlace'
  <2>1. Processed' \in Seq(Byte) /\ WholeScalars(Processed')
    BY <1>1, ProcessedFacts DEF Flow
  <2>2. labelStart' \in Starts(Processed)'
    BY <1>1, <1>2 DEF Starts
  <2> QED
    BY <2>1, <2>2 DEF LabelPlace
<1>7. {f \in Starts(Processed') : f < labelStart'} = {}
  <2>1. Processed \in Seq(Byte) /\ Len(Processed) \in Nat
    BY ProcessedFacts, LenProperties DEF Flow
  <2>2. \A f \in Starts(Processed) : ~(f < 0)
    BY <2>1 DEF Starts, AllSeparators
  <2> QED
    BY <1>1, <1>2, <2>2
<1>8. LabelKinds({f \in Starts(Processed) : f < labelStart})' = {}
  BY <1>7 DEF LabelKinds
<1>9. FormBefore(labelStart)' = <<>>
  BY <1>1, <1>2 DEF FormBefore
<1> QED
  BY <1>1, <1>2, <1>3, <1>5, <1>8, <1>9 DEF Labelwise

LEMMA LoopStored ==
    ASSUME EncodesASCII, Flow, Stored, Labelwise, AppendASCIILabel \/ AppendEncodedLabel
    PROVE  Stored' /\ Labelwise' /\ stage' # "end"
<1>1. CASE AppendASCIILabel
  <2>1. /\ LabelBytes \in Seq(Byte) /\ AllASCII(LabelBytes) /\ Turn(LabelBytes)
        /\ UNCHANGED <<encoded, window>>
    BY <1>1, ASCIITurn
  <2>2. Stored'
    BY <2>1, TurnStored DEF Stored
  <2>3. Unspoilt => LabelBytes = LabelText(labelStart)
    <3>1. LabelPlace
      <4>1. /\ stage = "labels" /\ UNCHANGED <<vars, call>>
            /\ stage' = IF AtLastLabel THEN "name" ELSE "labels"
            /\ labelStart' = IF AtLastLabel THEN labelStart ELSE Separator
        BY <1>1 DEF AppendASCIILabel, LabelAppended
      <4> QED
        BY <4>1, TurnFacts DEF Flow
    <3> QED
      BY <2>1, <3>1, LabelAtHand DEF Unspoilt, LabelText, ASCIILabel
  <2>4. stage' # "end"
    BY <2>1 DEF Turn, LabelAppended
  <2> QED
    BY <2>1, <2>2, <2>3, <2>4, TurnLabelwise
<1>2. CASE AppendEncodedLabel
  <2> DEFINE label == Marker \o Contents(encoded')
  <2>1. label \in Seq(Byte) /\ AllASCII(label) /\ Turn(label)
    BY <1>2, EncodedTurn
  <2>2. Unspoilt => label = LabelText(labelStart)
    BY <1>2, EncodedText
  <2>3. LooseBuffer(encoded') /\ (Count(newBytes) > Threshold => ~IsInline(encoded'))
    BY <1>2, EncodedFacts
  <2>4. stage' # "end"
    BY <2>1 DEF Turn, LabelAppended
  <2> HIDE DEF label
  <2> QED
    BY <2>1, <2>2, <2>3, <2>4, TurnStored, TurnLabelwise
<1> QED
  BY <1>1, <1>2

LEMMA EncodePastTupleStored ==
    ASSUME Flow, Stored, EncodePastTuple
    PROVE  Stored' /\ Labelwise'
<1>1. /\ stage' = "undefined"
      /\ UNCHANGED <<vars, convertedBytes, encoded, labelStart, lengthErrors>>
  BY DEF EncodePastTuple
<1>2. newBytes' = newBytes
  BY <1>1 DEF vars
<1> QED
  BY <1>1, <1>2 DEF Stored, Labelwise

LEMMA ReturnASCIIStored ==
    ASSUME Flow, Stored, Labelwise, ReturnASCII
    PROVE  Stored' /\ Labelwise' /\ Returned'
<1>1. /\ stage = "name" /\ stage' = "end"
      /\ UNCHANGED <<vars, call, convertedBytes, encoded, window, labelStart>>
      /\ lengthErrors' = lengthErrors \cup
            {[at |-> labelStart, kind |-> k] : k \in NameKinds(Count(convertedBytes))}
  BY DEF ReturnASCII, ReturnBytes, Return
<1>2. /\ LoopBegun /\ Processed' = Processed /\ newBytes' = newBytes /\ config' = config
  BY <1>1 DEF Flow, Control, LoopBegun, Processed, vars
<1>3. labelStart \in Nat /\ Count(convertedBytes) = Len(Contents(convertedBytes))
  <2>1. LabelPlace
    BY <1>2, ProcessedFacts DEF LabelPlace, Flow, Place
  <2> QED
    BY <2>1, PlaceFacts, ContentsType DEF Stored
<1>4. Stored'
  <2>1. NameKinds(Count(convertedBytes)) \subseteq LengthErrorKinds
    BY DEF NameKinds, When, LengthErrorKinds
  <2>2. lengthErrors' \subseteq [at : Nat, kind : LengthErrorKinds]
    <3> DEFINE kinds == NameKinds(Count(convertedBytes))
    <3> HIDE DEF kinds
    <3>1. \A k \in kinds : [at |-> labelStart, kind |-> k] \in [at : Nat, kind : LengthErrorKinds]
      BY <1>3, <2>1 DEF kinds
    <3> QED
      BY <1>1, <3>1 DEF Stored, kinds
  <2> QED
    BY <1>1, <1>2, <2>2 DEF Stored
<1>5. Returned'
  BY <1>1 DEF Returned, ReturnASCII, ReturnBytes, Return, Stored
<1>6. Labelwise'
  <2> SUFFICES ASSUME LoopBegun', Unspoilt' PROVE Labelwise'
    BY DEF Labelwise
  <2>1. Unspoilt
    <3>1. WideAtFront' <=> WideAtFront
      BY <1>2 DEF WideAtFront, WideAt
    <3>2. PunycodeFits' <=> PunycodeFits
      BY <1>2 DEF PunycodeFits
    <3> QED
      BY <3>1, <3>2 DEF Unspoilt
  <2>2. /\ labelStart = Max(Starts(Processed))
        /\ Contents(convertedBytes) = ASCIIForm(Processed)
        /\ lengthErrors = LabelKinds(Starts(Processed))
    BY <1>1, <1>2, <2>1 DEF Labelwise
  <2>3. labelStart' = Max(Starts(Processed))' /\ Contents(convertedBytes)' = ASCIIForm(Processed)'
    BY <1>1, <1>2, <2>2
  <2>4. LabelKinds(Starts(Processed))' = LabelKinds(Starts(Processed))
    BY <1>2 DEF LabelKinds, LabelText, LengthKinds
  <2>5. NameKindsAtEnd'
            = {[at |-> labelStart, kind |-> k] : k \in NameKinds(Len(ASCIIForm(Processed)))}
    BY <1>1, <1>2 DEF NameKindsAtEnd, NameKinds
  <2>6. lengthErrors' = LabelKinds(Starts(Processed))' \cup NameKindsAtEnd'
    BY <1>1, <1>3, <2>2, <2>4, <2>5
  <2> QED
    BY <1>1, <2>3, <2>6 DEF Labelwise
<1> QED
  BY <1>4, <1>5, <1>6

LEMMA UnchangedStored ==
    ASSUME Flow, Stored, Labelwise, Returned, UNCHANGED allVars
    PROVE  Stored' /\ Labelwise' /\ Returned'
<1>1. UNCHANGED <<vars, call, stage, convertedBytes, encoded, window, labelStart,
                  lengthErrors, result>>
  BY AllUnchanged
<1>2. /\ (LoopBegun' <=> LoopBegun) /\ Processed' = Processed
      /\ newBytes' = newBytes /\ config' = config /\ pc' = pc
  BY <1>1 DEF LoopBegun, Processed, vars
<1>3. Stored'
  BY <1>1, <1>2 DEF Stored
<1>4. Returned'
  BY <1>1, <1>2 DEF Returned
<1>5. Labelwise'
  <2> SUFFICES ASSUME LoopBegun', Unspoilt' PROVE Labelwise'
    BY DEF Labelwise
  <2>1. Unspoilt
    <3>1. WideAtFront' <=> WideAtFront
      BY <1>2 DEF WideAtFront, WideAt
    <3>2. PunycodeFits' <=> PunycodeFits
      BY <1>2 DEF PunycodeFits
    <3> QED
      BY <3>1, <3>2 DEF Unspoilt
  <2>2. FormBefore(labelStart)' = FormBefore(labelStart)
    <3>1. StartBefore(labelStart)' = StartBefore(labelStart)
      BY <1>1, <1>2 DEF StartBefore
    <3> QED
      BY <1>1, <1>2, <3>1 DEF FormBefore
  <2>3. /\ LabelKinds(Starts(Processed))' = LabelKinds(Starts(Processed))
        /\ LabelKinds({f \in Starts(Processed) : f < labelStart})'
                = LabelKinds({f \in Starts(Processed) : f < labelStart})
    BY <1>1, <1>2 DEF LabelKinds, LabelText, LengthKinds
  <2>4. NameKindsAtEnd' = NameKindsAtEnd
    BY <1>1, <1>2 DEF NameKindsAtEnd, NameKinds
  <2>5. Max(Starts(Processed))' = Max(Starts(Processed))
        /\ ASCIIForm(Processed)' = ASCIIForm(Processed)
    BY <1>2
  <2> QED
    BY <1>1, <1>2, <2>1, <2>2, <2>3, <2>4, <2>5 DEF Labelwise
<1> QED
  BY <1>3, <1>4, <1>5

LEMMA LowersASCII ==
    ASSUME NEW b, b < ASCIILimit
    PROVE  Lowercased(b) < ASCIILimit
<1>1. ASCIILimit \in Nat
  BY ASCIILimitAssumption
<1>2. b \in 65 .. 90 => b + 32 < ASCIILimit
  BY <1>1, LettersAssumption
<1> QED
  BY <1>2 DEF Lowercased, IsUppercase

LEMMA BeforeLabelsReturned ==
    ASSUME Flow, Returned, BeforeLabels
    PROVE  Returned'
<1>1. CASE CheckBytes \/ SearchForUppercase \/ ConvertAnyway
  BY <1>1 DEF CheckBytes, SearchForUppercase, ConvertAnyway, Returned
<1>2. CASE MainStep
  BY <1>2 DEF MainStep, conversionVars, Returned
<1>3. CASE ReturnUnicode
  BY <1>3 DEF ReturnUnicode, Returned, ReturnBytes, Return
<1>4. CASE KeepDomain
  <2>1. /\ result'.bytes = domain /\ AllASCII(domain) /\ pc' = "map"
    BY <1>4 DEF KeepDomain, Return, Flow, Control, vars
  <2> QED
    BY <2>1 DEF Returned
<1>5. CASE LowercaseDomain
  <2> DEFINE lowered == [j \in DOMAIN domain |-> Lowercased(domain[j])]
  <2>1. /\ result'.bytes = lowered /\ AllASCII(domain) /\ pc' = "map"
    BY <1>5 DEF LowercaseDomain, Return, Flow, Control, vars
  <2>2. DOMAIN domain = 1 .. Len(domain) /\ \A j \in DOMAIN domain : domain[j] < ASCIILimit
    <3>1. domain \in Seq(UnicodeScalar)
      BY DomainsAssumption DEF Flow, IndInv, Storage
    <3> QED
      BY <2>1, <3>1, LenProperties DEF AllASCII
  <2>3. \A j \in DOMAIN domain : Lowercased(domain[j]) < ASCIILimit
    BY <2>2, LowersASCII
  <2>4. AllASCII(lowered)
    <3>1. Len(lowered) = Len(domain)
      BY <2>2
    <3> QED
      BY <2>2, <2>3, <3>1 DEF AllASCII
  <2> QED
    BY <2>1, <2>4 DEF Returned
<1> QED
  BY <1>1, <1>2, <1>3, <1>4, <1>5 DEF BeforeLabels

LEMMA InvInit == ConversionInit => ConversionInv
<1> SUFFICES ASSUME ConversionInit PROVE ConversionInv
  OBVIOUS
<1>1. Flow
  BY FlowInit
<1>2. convertedBytes = EmptyInline /\ encoded = NotMade /\ lengthErrors = {} /\ stage = "check"
  BY DEF ConversionInit
<1>3. GoodBuffer(convertedBytes) /\ Contents(convertedBytes) = <<>>
  BY <1>2, EmptyReads
<1>4. Stored
  <2>1. AllASCII(<<>>)
    BY EmptySeq DEF AllASCII
  <2> QED
    BY <1>2, <1>3, <2>1 DEF Stored
<1>5. ~LoopBegun
  BY DEF ConversionInit, Init, LoopBegun
<1> QED
  BY <1>1, <1>2, <1>4, <1>5 DEF ConversionInv, Labelwise, Returned

LEMMA InvStep ==
    ASSUME EncodesASCII, ConversionInv, [ConversionNext]_allVars
    PROVE  ConversionInv'
<1>1. Flow /\ Stored /\ Labelwise /\ Returned
  BY DEF ConversionInv
<1>2. Flow'
  BY <1>1, FlowStep
<1>3. CASE BeforeLabels
  BY <1>1, <1>2, <1>3, BeforeLabelsStored, BeforeLabelsReturned DEF ConversionInv
<1>4. CASE StartLabels
  <2>1. stage' = "labels"
    BY <1>4 DEF StartLabels
  <2> QED
    BY <1>1, <1>2, <1>4, <2>1, StartLabelsStored DEF ConversionInv, Returned
<1>5. CASE AppendASCIILabel \/ AppendEncodedLabel
  BY <1>1, <1>2, <1>5, LoopStored DEF ConversionInv, Returned
<1>6. CASE EncodePastTuple
  <2>1. stage' = "undefined"
    BY <1>6 DEF EncodePastTuple
  <2> QED
    BY <1>1, <1>2, <1>6, <2>1, EncodePastTupleStored DEF ConversionInv, Returned
<1>7. CASE ReturnASCII
  BY <1>1, <1>2, <1>7, ReturnASCIIStored DEF ConversionInv
<1>8. CASE UNCHANGED allVars
  BY <1>1, <1>2, <1>8, UnchangedStored DEF ConversionInv
<1> QED
  BY <1>3, <1>4, <1>5, <1>6, <1>7, <1>8
  DEF ConversionNext, ConversionFinished, BeforeLabels

\* The inductive invariant of a conversion holds, through every way it takes.
THEOREM ConversionInvariant == EncodesASCII => (ConversionSpec => []ConversionInv)
<1> SUFFICES ASSUME EncodesASCII PROVE ConversionSpec => []ConversionInv
  OBVIOUS
<1>1. ConversionInit => ConversionInv
  BY InvInit
<1>2. ConversionInv /\ [ConversionNext]_allVars => ConversionInv'
  BY InvStep
<1> QED
  BY <1>1, <1>2, PTL DEF ConversionSpec

\* Whatever ToASCII returns is ASCII, for every setting and whichever way it
\* took: also of labels that failed and were kept, and of labels whose
\* encoding left its inline buffer one byte too long.
THEOREM ResultAlwaysASCII == EncodesASCII => (ConversionSpec => []ResultIsASCII)
<1>1. ConversionInv => ResultIsASCII
  BY DEF ConversionInv, Returned, ResultIsASCII, Accepted
<1> QED
  BY <1>1, ConversionInvariant, PTL

\* What ToASCII returns the long way is the processed text with each of its
\* labels in ASCII, though the labels share a window and a buffer: for texts
\* without a wide separator in front whose Punycode fits that buffer.
THEOREM ResultAlwaysLabelwise == EncodesASCII => (ConversionSpec => []ResultIsLabelwise)
<1>1. ConversionInv => ResultIsLabelwise
  <2> SUFFICES ASSUME ConversionInv, Accepted, call = "toASCII", pc = "done", Unspoilt
               PROVE  result.bytes = ASCIIForm(Processed)
    BY DEF ResultIsLabelwise
  <2>1. LoopBegun /\ stage = "end" /\ result.kind # "thrown"
    BY DEF LoopBegun, Accepted
  <2> QED
    BY <2>1 DEF ConversionInv, Returned, Labelwise
<1> QED
  BY <1>1, ConversionInvariant, PTL

\* Every label is measured, in ASCII and with its marker, once and under its
\* own start: recorded are exactly the labels outside of the documented 1 to
\* 63.  And a name outside of the documented 1 to 255 is never let through.
THEOREM LengthsAlwaysJudged == EncodesASCII => (ConversionSpec => []LengthsJudged)
<1>1. ConversionInv => LengthsJudged
  <2> SUFFICES ASSUME ConversionInv, stage = "end", call = "toASCII", pc = "done", Unspoilt
               PROVE  LengthsJudged
    BY DEF LengthsJudged
  <2>1. LoopBegun
    BY DEF LoopBegun
  <2>2. lengthErrors = LabelKinds(Starts(Processed)) \cup NameKindsAtEnd
    BY <2>1 DEF ConversionInv, Labelwise
  <2> DEFINE starts == Starts(Processed)
             text(from) == ASCIILabel(LabelUpToSeparator(Processed, from))
             length(from) == Len(text(from))
             kind(from) == IF length(from) = 0 THEN "emptyLabel" ELSE "labelTooLong"
             bad == {f \in starts : length(f) \notin DNSLabelLengths}
             found == {[at |-> from, kind |-> kind(from)] : from \in bad}
             name == Len(ASCIIForm(Processed))
             ofLabels == {e \in lengthErrors : e.kind \in {"labelTooLong", "emptyLabel"}}
  <2>3. LabelPlace
    BY <2>1, ProcessedFacts DEF ConversionInv, Flow, Place, LabelPlace
  <2>4. name \in Nat
    <3>1. Contents(convertedBytes) = ASCIIForm(Processed)
      BY <2>1 DEF ConversionInv, Labelwise
    <3>2. Contents(convertedBytes) \in Seq(Byte)
      BY ContentsType DEF ConversionInv, Stored
    <3> QED
      BY <3>1, <3>2, LenProperties
  <2>5. CASE ~config.verifyDNSLength
    <3>1. LabelKinds(Starts(Processed)) = {} /\ NameKindsAtEnd = {}
      BY <2>5 DEF LabelKinds, NameKindsAtEnd, LengthKinds, NameKinds
    <3> QED
      BY <2>2, <2>5, <3>1 DEF LengthsJudged
  <2>6. CASE config.verifyDNSLength
    <3>1. \A f \in starts : length(f) \in Nat
      BY <2>3, LabelIsText DEF LabelText
    <3>2. \A f \in starts :
            LengthKinds(length(f)) = IF length(f) \in DNSLabelLengths THEN {} ELSE {kind(f)}
      <4> SUFFICES ASSUME NEW f \in starts
                   PROVE  LengthKinds(length(f))
                            = IF length(f) \in DNSLabelLengths THEN {} ELSE {kind(f)}
        OBVIOUS
      <4> DEFINE m == length(f)
      <4>1. m \in Nat
        BY <3>1
      <4> HIDE DEF m
      <4>2. LengthKinds(m) = (IF m > 63 THEN {"labelTooLong"} ELSE {})
                                \cup (IF m = 0 THEN {"emptyLabel"} ELSE {})
        BY <2>6, LimitAssumption DEF LengthKinds, When
      <4>3. LengthKinds(m) = IF m \in DNSLabelLengths THEN {}
                             ELSE {IF m = 0 THEN "emptyLabel" ELSE "labelTooLong"}
        BY <4>1, <4>2 DEF DNSLabelLengths
      <4> QED
        BY <4>3 DEF m
    <3>3. LabelKinds(starts) = UNION {{[at |-> f, kind |-> k] : k \in LengthKinds(length(f))} :
                                        f \in starts}
      BY DEF LabelKinds, LabelText
    <3>4. \A f \in starts : kind(f) \in {"labelTooLong", "emptyLabel"}
      OBVIOUS
    <3>5. NameKindsAtEnd
            = (IF name >= NameLimit THEN {[at |-> labelStart, kind |-> "nameTooLong"]} ELSE {})
              \cup (IF name = 0 THEN {[at |-> labelStart, kind |-> "emptyName"]} ELSE {})
      BY <2>6 DEF NameKindsAtEnd, NameKinds, When
    <3>6. name \in Nat
      BY <2>4
    <3> HIDE DEF starts, length, kind, name
    <3>7. LabelKinds(starts) = found
      BY <3>2, <3>3
    <3>8. ofLabels = found
      <4>1. \A e \in found : e.kind \in {"labelTooLong", "emptyLabel"}
        BY <3>4
      <4>2. \A e \in NameKindsAtEnd : e.kind \in {"nameTooLong", "emptyName"}
        BY <3>5
      <4>3. lengthErrors = found \cup NameKindsAtEnd
        BY <2>2, <3>7 DEF starts
      <4> HIDE DEF found
      <4> QED
        BY <4>1, <4>2, <4>3
    <3>9. name \notin DNSNameLengths => lengthErrors # ofLabels
      <4> SUFFICES ASSUME name \notin DNSNameLengths PROVE lengthErrors # ofLabels
        OBVIOUS
      <4>1. name = 0 \/ name >= NameLimit
        BY <3>6, LimitAssumption DEF DNSNameLengths
      <4>2. PICK other \in {"nameTooLong", "emptyName"} :
                [at |-> labelStart, kind |-> other] \in NameKindsAtEnd
        <5>1. CASE name = 0
          BY <3>5, <5>1
        <5>2. CASE name >= NameLimit
          BY <3>5, <5>2
        <5> QED
          BY <4>1, <5>1, <5>2
      <4> DEFINE e == [at |-> labelStart, kind |-> other]
      <4>3. e \in lengthErrors /\ e \notin ofLabels
        BY <2>2, <4>2
      <4> QED
        BY <4>3
    <3> QED
      BY <2>6, <3>8, <3>9 DEF LengthsJudged, starts, length, kind, name
  <2> QED
    BY <2>5, <2>6
<1> QED
  BY <1>1, ConversionInvariant, PTL

\* The state of a conversion keeps its types: the window stays on the scalars
\* of the text, and the label at hand starts inside of it.
THEOREM ConversionTypeCorrect == EncodesASCII => (ConversionSpec => []ConversionTypeOK)
<1>1. ConversionInv /\ TypeOK => ConversionTypeOK
  <2> SUFFICES ASSUME ConversionInv, TypeOK PROVE ConversionTypeOK
    OBVIOUS
  <2>1. Flow /\ Stored
    BY DEF ConversionInv
  <2>2. Processed \in Seq(Byte) /\ WholeScalars(Processed) /\ Len(Processed) \in Nat
    BY <2>1, ProcessedFacts, LenProperties DEF Flow
  <2>3. Len(Scalars) = Len(ScalarEnds(Processed)) /\ Len(Scalars) \in Nat
    BY <2>2, ScalarsFacts, LenProperties DEF Scalars
  <2>4. Len(WindowEnds) <= Len(Scalars) /\ Len(WindowEnds) \in Nat
    BY <2>3, EmptySeq DEF WindowEnds
  <2>5. window.startIndex \in 0 .. window.endIndex /\ window.endIndex \in 0 .. Len(Scalars)
    BY <2>1, <2>3, <2>4 DEF Flow, WindowKept, Window!WindowType
  <2>6. labelStart \in 0 .. Len(Processed)
    <3>1. CASE LoopBegun
      BY <2>1, <2>2, <3>1, StartsFacts DEF Flow, Place
    <3>2. CASE ~LoopBegun
      BY <2>1, <2>2, <3>2 DEF Flow, Place
    <3> QED
      BY <3>1, <3>2
  <2>7. convertedBytes \in Buffer /\ encoded \in Buffer \cup {NotMade}
    BY <2>1 DEF Stored, GoodBuffer, LooseBuffer
  <2> QED
    BY <2>1, <2>5, <2>6, <2>7 DEF ConversionTypeOK, Flow, Control, Stored
<1> QED
  BY <1>1, ConversionInvariant, MainImplemented, TypeCorrect, PTL

-----------------------------------------------------------------------------
(* The labels of a text put together again. *)

LEMMA OneByte ==
    ASSUME NEW s \in Seq(Byte), NEW k \in 1 .. Len(s)
    PROVE  SubSeq(s, k, k) = <<s[k]>>
<1> DEFINE p == SubSeq(s, k, k)
<1>1. Len(s) \in Nat /\ s[k] \in Byte
  BY LenProperties, ElementOfSeq
<1>2. k \in Int /\ \A j \in k .. k : s[j] \in Byte
  BY <1>1
<1>3. /\ p \in Seq(Byte) /\ Len(p) = IF k <= k THEN k - k + 1 ELSE 0
      /\ \A j \in 1 .. k - k + 1 : p[j] = s[k + j - 1]
  BY <1>2, SubSeqProperties
<1> HIDE DEF p
<1>4. k <= k /\ k - k + 1 = 1 /\ k + 1 - 1 = k
  BY <1>2
<1>5. Len(p) = 1 /\ p[1] = s[k]
  BY <1>3, <1>4
<1> DEFINE q == <<s[k]>>
<1>6. q \in Seq(Byte) /\ Len(q) = 1 /\ q[1] = s[k]
  BY <1>1
<1> HIDE DEF q
<1>7. \A j \in 1 .. Len(p) : p[j] = q[j]
  BY <1>5, <1>6
<1>8. p = q
  BY <1>3, <1>5, <1>6, <1>7, SeqEqual
<1> QED
  BY <1>8 DEF p, q

\* A text is its own labels, with the dots between them.
LEMMA OwnLabels ==
    ASSUME NEW s \in Seq(Byte)
    PROVE  JoinedUpTo([f \in LabelStarts(s) |-> LabelAt(s, f)], Max(LabelStarts(s))) = s
<1> DEFINE N == Len(s)
           S == LabelStarts(s)
           piece == [f \in S |-> LabelAt(s, f)]
           Whole(f) == JoinedUpTo(piece, f) = SubSeq(s, 1, LabelEnd(s, f))
           Fails == {f \in S : ~Whole(f)}
           last == Max(S)
<1>1. /\ N \in Nat /\ S \in SUBSET (0 .. N) /\ 0 \in S /\ S # {}
      /\ \A f : f \in S <=> f = 0 \/ (f \in 1 .. N /\ s[f] = Dot)
  BY StartsBefore
<1>2. DOMAIN piece = S /\ \A f \in S : piece[f] = SubSeq(s, f + 1, LabelEnd(s, f))
  BY DEF LabelAt
<1>3. \A f \in S : /\ LabelEnd(s, f) \in f .. N
                   /\ \A j \in f + 1 .. LabelEnd(s, f) : s[j] # Dot
                   /\ LabelEnd(s, f) = N \/ s[LabelEnd(s, f) + 1] = Dot
  BY EndMeans
<1> HIDE DEF N, S, piece
<1>4. /\ JoinedUpTo(piece, 0) = piece[0]
      /\ \A f \in S : f # 0 =>
            JoinedUpTo(piece, f)
                = JoinedUpTo(piece, Max({g \in S : g < f})) \o <<Dot>> \o piece[f]
  BY <1>1, <1>2, JoinedIsRecursive
<1>5. Fails = {}
  <2> SUFFICES ASSUME Fails # {} PROVE FALSE
    OBVIOUS
  <2>1. PICK f \in Fails : \A y \in Fails : f <= y
    <3>1. Fails \in SUBSET Nat
      <4>1. \A f \in S : f \in Nat
        BY <1>1
      <4> QED
        BY <4>1, Zenon
    <3> HIDE DEF Fails
    <3> QED
      BY <3>1, LeastFailure
  <2>2. f \in S /\ ~Whole(f) /\ f \in 0 .. N
    BY <1>1, <2>1
  <2>3. f # 0
    <3>1. piece[0] = SubSeq(s, 1, LabelEnd(s, 0))
      BY <1>1, <1>2
    <3> QED
      BY <1>4, <2>2, <3>1
  <2> DEFINE before == Max({g \in S : g < f})
             e == LabelEnd(s, before)
             end == LabelEnd(s, f)
  <2>4. before \in S /\ before < f /\ \A g \in S : g < f => g <= before
    BY <1>1, <2>2, <2>3, BeforeFacts
  <2>5. JoinedUpTo(piece, f) = JoinedUpTo(piece, before) \o <<Dot>> \o piece[f]
    BY <1>4, <2>2, <2>3, Zenon
  <2> HIDE DEF before
  <2>6. Whole(before)
    <3> SUFFICES ASSUME before \in Fails PROVE FALSE
      BY <2>4
    <3>1. f <= before /\ before \in 0 .. N
      BY <1>1, <2>1, <2>4
    <3> QED
      BY <2>2, <2>4, <3>1
  <2>7. /\ e \in before .. N /\ before \in 0 .. N
        /\ \A j \in before + 1 .. e : s[j] # Dot
        /\ e = N \/ s[e + 1] = Dot
        /\ end \in f .. N
        /\ f \in 1 .. N /\ s[f] = Dot
    BY <1>1, <1>3, <2>2, <2>3, <2>4
  <2> HIDE DEF e, end
  <2>8. e = f - 1
    <3>1. e < f
      <4> SUFFICES ASSUME f <= e PROVE FALSE
        BY <2>7
      <4>1. f \in before + 1 .. e
        BY <2>4, <2>7
      <4> QED
        BY <2>7, <4>1
    <3>2. ~(e + 1 < f)
      <4> SUFFICES ASSUME e + 1 < f PROVE FALSE
        OBVIOUS
      <4>1. e # N /\ e + 1 \in 1 .. N
        <5>1. N \in Nat /\ before \in 0 .. N /\ e \in before .. N /\ f \in 1 .. N /\ e + 1 < f
          BY <1>1, <2>7
        <5> QED
          BY <5>1
      <4>2. e + 1 \in S
        BY <1>1, <2>7, <4>1
      <4>3. e + 1 <= before
        BY <2>4, <4>2
      <4> QED
        BY <2>7, <4>3
    <3> QED
      BY <2>7, <3>1, <3>2
  <2>9. /\ f - 1 \in Nat /\ f \in Nat /\ f - 1 <= f /\ f <= N /\ (f - 1) + 1 = f
        /\ end \in Nat /\ f <= end /\ end <= N
    BY <2>7
  <2>10. SubSeq(s, 1, f - 1) \o SubSeq(s, (f - 1) + 1, f) = SubSeq(s, 1, f)
    BY <2>9, PartsMeet DEF N
  <2>11. SubSeq(s, (f - 1) + 1, f) = <<Dot>>
    <3>1. SubSeq(s, f, f) = <<s[f]>>
      BY <2>7, OneByte DEF N
    <3> QED
      BY <2>7, <2>9, <3>1
  <2>12. SubSeq(s, 1, f) \o SubSeq(s, f + 1, end) = SubSeq(s, 1, end)
    BY <2>9, PartsMeet DEF N
  <2>13. JoinedUpTo(piece, before) = SubSeq(s, 1, f - 1)
    BY <2>6, <2>8 DEF e
  <2>14. piece[f] = SubSeq(s, f + 1, end)
    BY <1>2, <2>2 DEF end
  <2>15. JoinedUpTo(piece, f) = SubSeq(s, 1, end)
    BY <2>5, <2>10, <2>11, <2>12, <2>13, <2>14, Zenon
  <2> QED
    BY <2>2, <2>15 DEF end
<1>6. last \in S /\ \A g \in S : g <= last
  BY <1>1, MaxFacts
<1> HIDE DEF last
<1>7. LabelEnd(s, last) = N
  <2> DEFINE e == LabelEnd(s, last)
  <2>1. e \in last .. N /\ last \in 0 .. N /\ (e = N \/ s[e + 1] = Dot)
    BY <1>1, <1>3, <1>6
  <2> HIDE DEF e
  <2>2. ~(e # N)
    <3> SUFFICES ASSUME e # N PROVE FALSE
      OBVIOUS
    <3>1. e + 1 \in 1 .. N /\ s[e + 1] = Dot
      <4>1. N \in Nat /\ last \in 0 .. N /\ e \in last .. N /\ e # N
        BY <1>1, <2>1
      <4> QED
        BY <2>1, <4>1
    <3>2. e + 1 \in S
      BY <1>1, <3>1
    <3>3. e + 1 <= last
      BY <1>6, <3>2
    <3> QED
      BY <2>1, <3>3
  <2> QED
    BY <2>2 DEF e
<1>8. SubSeq(s, 1, N) = s
  BY SubSeqFull DEF N
<1>9. Whole(last)
  BY <1>5, <1>6
<1>10. JoinedUpTo(piece, last) = s
  BY <1>7, <1>8, <1>9
<1> QED
  BY <1>10 DEF piece, last, S

\* A text mapped byte by byte.
LEMMA MapsOneByOne ==
    ASSUME NEW d \in Seq(UnicodeScalar), NEW e \in Seq(Byte), Len(e) = Len(d),
           \A j \in 1 .. Len(d) : MappedBytes(d[j]) = <<e[j]>>
    PROVE  MapText(d) = e
<1> DEFINE K == Len(d)
           piece == [k \in 1 .. Len(d) |-> MappedBytes(d[k])]
<1>1. K \in Nat /\ Len(e) = K
  BY LenProperties
<1>2. PICK text : MapText(d) = text[K] /\ Grows(text, K, piece)
  BY MapTextGrows
<1>3. \A k \in 1 .. K : piece[k] = <<e[k]>>
  OBVIOUS
<1> HIDE DEF K, piece
<1> DEFINE R == {k \in 0 .. K : text[k] = SubSeq(e, 1, k)}
<1>4. 0 \in R
  <2>1. text[0] = <<>>
    BY <1>2 DEF Grows
  <2>2. SubSeq(e, 1, 0) = <<>>
    <3>1. 1 \in Int /\ 0 \in Int /\ 0 < 1
      OBVIOUS
    <3> QED
      BY <3>1, SubSeqEmpty, Zenon
  <2>3. text[0] = SubSeq(e, 1, 0) /\ 0 \in 0 .. K
    BY <1>1, <2>1, <2>2
  <2> QED
    BY <2>3
<1>5. ASSUME NEW k \in 1 .. K, k - 1 \in R PROVE k \in R
  <2>1. text[k] = text[k - 1] \o piece[k]
    BY <1>2 DEF Grows
  <2>2. text[k - 1] = SubSeq(e, 1, k - 1)
    BY <1>5
  <2>3. k - 1 \in Nat /\ k \in Nat /\ k - 1 <= k /\ k <= Len(e) /\ (k - 1) + 1 = k
        /\ k \in 1 .. Len(e) /\ k \in 0 .. K
    BY <1>1
  <2>4. SubSeq(e, 1, k - 1) \o SubSeq(e, (k - 1) + 1, k) = SubSeq(e, 1, k)
    BY <2>3, PartsMeet
  <2>5. SubSeq(e, k, k) = <<e[k]>>
    BY <2>3, OneByte
  <2>6. text[k] = SubSeq(e, 1, k)
    BY <1>3, <2>1, <2>2, <2>3, <2>4, <2>5
  <2> QED
    BY <2>3, <2>6
<1>6. K \in R
  <2> HIDE DEF R
  <2>1. \A k \in 0 .. K : k \in R
    BY <1>1, <1>4, <1>5, InductionUpTo
  <2> QED
    BY <1>1, <2>1
<1>7. MapText(d) = SubSeq(e, 1, K)
  BY <1>2, <1>6
<1>8. SubSeq(e, 1, Len(e)) = e
  BY SubSeqFull
<1> QED
  BY <1>1, <1>7, <1>8

-----------------------------------------------------------------------------
(* There and back: what an accepted text is in ASCII. *)

\* A text of valid scalars has no wide separators: dots separate its labels.
LEMMA NoWideSeparator ==
    ASSUME ASCIIFits, NEW s \in Seq(Byte), InUTF8(s),
           \A j \in 1 .. Len(s) : s[j] # Continuation => For(s[j]).kind \in {"valid", "deviation"},
           NEW j \in 1 .. Len(s)
    PROVE  ~WideAt(s, j)
<1> SUFFICES ASSUME WideAt(s, j) PROVE FALSE
  OBVIOUS
<1>1. Len(s) \in Nat /\ j \in 1 .. Len(s) /\ j >= 3 /\ s[j - 2] \in WideSeparators
  BY LenProperties DEF WideAt
<1> DEFINE N == Len(s)
           i == j - 2
<1>2. N \in Nat /\ j \in 1 .. N /\ j >= 3
  BY <1>1
<1> HIDE DEF N
<1>3. i \in 1 .. N
  BY <1>2
<1>4. s[i] \in WideSeparators
  BY <1>1
<1> HIDE DEF i
<1>5. s[i] # Continuation
  BY <1>4, WideSeparatorsAssumption
<1>6. s[i] \in UnicodeScalar
  BY <1>3, <1>5, InUTF8Means DEF ScalarAt, N
<1>7. For(s[i]).kind \in {"valid", "deviation"}
  BY <1>3, <1>5 DEF N
<1> QED
  BY <1>4, <1>6, <1>7 DEF ASCIIFits

LEMMA DotsSeparate ==
    ASSUME NEW s \in Seq(Byte), \A j \in 1 .. Len(s) : ~WideAt(s, j)
    PROVE  /\ Starts(s) = LabelStarts(s)
           /\ \A from \in LabelStarts(s) : LabelUpToSeparator(s, from) = LabelAt(s, from)
<1>1. AllSeparators(s) = Dots(s, 0)
  <2>1. AllSeparators(s) = {j \in 1 .. Len(s) : s[j] = Dot}
    BY DEF AllSeparators
  <2> QED
    BY <2>1 DEF Dots
<1>2. Starts(s) = LabelStarts(s)
  BY <1>1 DEF Starts, LabelStarts
<1>3. ASSUME NEW from \in LabelStarts(s)
      PROVE  LabelUpToSeparator(s, from) = LabelAt(s, from)
  <2> DEFINE D == Dots(s, from)
             N == Len(s)
  <2>1. N \in Nat /\ from \in 0 .. N
    BY StartsBefore
  <2>2. {j \in AllSeparators(s) : j > from} = D
    <3>1. \A j : (j \in 0 + 1 .. N /\ j > from) <=> j \in from + 1 .. N
      <4> HIDE DEF N
      <4> QED
        BY <2>1
    <3> QED
      BY <1>1, <3>1 DEF Dots
  <2>3. LabelUpToSeparator(s, from)
            = IF D = {} THEN SubSeq(s, from + 1, Len(s))
              ELSE SubSeq(s, from + 1, Min(D) - IF s[Min(D)] = Dot THEN 1 ELSE 3)
    BY <2>2, Zenon DEF LabelUpToSeparator
  <2>4. LabelAt(s, from) = SubSeq(s, from + 1, IF D = {} THEN Len(s) ELSE Min(D) - 1)
    BY DEF LabelAt, LabelEnd
  <2>5. D # {} => s[Min(D)] = Dot
    <3> SUFFICES ASSUME D # {} PROVE s[Min(D)] = Dot
      OBVIOUS
    <3>1. D \in SUBSET Nat
      BY <2>1 DEF Dots
    <3>2. \A j \in D : s[j] = Dot
      BY DEF Dots
    <3> HIDE DEF D
    <3>3. Min(D) \in D
      BY <3>1, MinFacts
    <3> QED
      BY <3>2, <3>3
  <2> HIDE DEF D
  <2>6. CASE D = {}
    BY <2>3, <2>4, <2>6, Zenon
  <2>7. CASE D # {}
    <3>1. LabelUpToSeparator(s, from) = SubSeq(s, from + 1, Min(D) - 1)
      BY <2>3, <2>5, <2>7
    <3>2. LabelAt(s, from) = SubSeq(s, from + 1, Min(D) - 1)
      BY <2>4, <2>7
    <3> QED
      BY <3>1, <3>2, Zenon
  <2> QED
    BY <2>6, <2>7
<1> QED
  BY <1>2, <1>3

\* Settled labels, each with its ASCII form.
InASCII(form, piece, S) ==
    /\ 0 \in S /\ DOMAIN piece = S /\ piece \in [S -> Seq(Byte)] /\ form \in [S -> Seq(Byte)]
    /\ \A f \in S : Settled(piece[f]) /\ form[f] = ASCIILabel(piece[f])

\* The ASCII form of a text put together from settled labels: one by one.
LEMMA FormOfJoined ==
    ASSUME DataFits, ASCIIFits, NEW N \in Nat, NEW S \in SUBSET (0 .. N),
           NEW piece, NEW form, InASCII(form, piece, S), NEW last \in S
    PROVE  ASCIIForm(JoinedUpTo(piece, last)) = JoinedUpTo(form, last)
<1> USE DEF InASCII
<1> DEFINE h == [l \in Seq(Byte) |-> ASCIILabel(l)]
           C == JoinedUpTo(piece, last)
<1>1. Dot \in UnicodeScalar /\ Dot \in Byte /\ For(Dot).kind = "valid"
  BY ScalarBytesAssumption DEF DataFits, DotIsNeutral
<1>2. \A f \in S : piece[f] \in Seq(Byte) /\ InUTF8(piece[f]) /\ NoDot(piece[f])
  BY DEF Settled
<1>3. C \in Seq(Byte) /\ InUTF8(C)
  BY <1>1, <1>2, JoinedInUTF8
<1> HIDE DEF h
<1>4. ComesApart(piece, S, h, last)
  BY <1>1, <1>2, JoinedLabels
<1>5. /\ \A j \in 1 .. Len(C) :
            C[j] = Dot \/ \E f \in S : \E i \in 1 .. Len(piece[f]) : C[j] = piece[f][i]
      /\ JoinedUpTo(EachLabel(h, C), Max(LabelStarts(C)))
            = JoinedUpTo([f \in S |-> h[piece[f]]], last)
  BY <1>4, Zenon DEF ComesApart
<1> HIDE DEF C
<1>6. \A j \in 1 .. Len(C) : C[j] # Continuation => For(C[j]).kind \in {"valid", "deviation"}
  <2> SUFFICES ASSUME NEW j \in 1 .. Len(C), C[j] # Continuation
               PROVE  For(C[j]).kind \in {"valid", "deviation"}
    OBVIOUS
  <2>1. CASE C[j] = Dot
    BY <1>1, <2>1
  <2>2. CASE C[j] # Dot
    <3>1. PICK f \in S : \E i \in 1 .. Len(piece[f]) : C[j] = piece[f][i]
      BY <1>5, <2>2
    <3> QED
      BY <3>1 DEF Settled
  <2> QED
    BY <2>1, <2>2
<1>7. \A j \in 1 .. Len(C) : ~WideAt(C, j)
  BY <1>3, <1>6, NoWideSeparator
<1>8. /\ Starts(C) = LabelStarts(C)
      /\ \A from \in LabelStarts(C) : LabelUpToSeparator(C, from) = LabelAt(C, from)
  BY <1>3, <1>7, DotsSeparate
<1>9. \A f \in S : h[piece[f]] = ASCIILabel(piece[f])
  BY <1>2 DEF h
<1>10. \A g \in LabelStarts(C) : h[LabelAt(C, g)] = ASCIILabel(LabelAt(C, g))
  BY <1>3, LabelFacts DEF h
<1>11. EachLabel(h, C) = [f \in Starts(C) |-> ASCIILabel(LabelUpToSeparator(C, f))]
  BY <1>8, <1>10 DEF EachLabel
<1>12. ASCIIForm(C) = JoinedUpTo(EachLabel(h, C), Max(LabelStarts(C)))
  BY <1>8, <1>11 DEF ASCIIForm, ASCIIFormUpTo
<1>13. [f \in S |-> h[piece[f]]] = form
  <2>1. form = [f \in S |-> form[f]]
    OBVIOUS
  <2>2. \A f \in S : h[piece[f]] = form[f]
    BY <1>9
  <2> QED
    BY <2>1, <2>2, Zenon
<1> QED
  BY <1>5, <1>12, <1>13 DEF C

-----------------------------------------------------------------------------
(* A label in ASCII. *)

\* Nothing in it is mapped to anything else.
Plain(q) ==
    /\ q \in Seq(Byte) /\ AllASCII(q) /\ NoDot(q)
    /\ \A j \in 1 .. Len(q) : q[j] \in UnicodeScalar /\ ~IsUppercase(q[j])

LEMMA LowerByte ==
    ASSUME ASCIIFits, NEW b \in UnicodeScalar, b < ASCIILimit,
           For(b).kind \in {"valid", "deviation"}
    PROVE  ~IsUppercase(b)
<1>1. b \in Nat
  BY ScalarBytesAssumption, ByteAssumption
<1>2. MappedBytes(b) = <<b>>
  <2>1. b \in Nat /\ ASCIILimit \in Nat /\ b < ASCIILimit
    BY <1>1, ASCIILimitAssumption
  <2>2. UTF8(b) = <<b>>
    BY <2>1 DEF UTF8
  <2> QED
    BY <2>2 DEF MappedBytes
<1>3. MappedBytes(b) = <<Lowercased(b)>>
  BY DEF ASCIIFits
<1>4. Lowercased(b) = b
  BY <1>2, <1>3
<1> QED
  BY <1>1, <1>4 DEF Lowercased, IsUppercase

LEMMA SettledScalars ==
    ASSUME NEW p, Settled(p), NEW c \in ToSet(ScalarsOf(p))
    PROVE  c \in UnicodeScalar /\ c # Dot /\ For(c).kind \in {"valid", "deviation"}
<1>1. p \in Seq(Byte) /\ InUTF8(p) /\ NoDot(p)
      /\ \A j \in 1 .. Len(p) : p[j] # Continuation => For(p[j]).kind \in {"valid", "deviation"}
  BY DEF Settled
<1> DEFINE K == Len(ScalarEnds(p))
<1>2. PICK k \in 1 .. K : c = ScalarsOf(p)[k]
  <2>1. ScalarsOf(p) \in Seq(Byte) /\ Len(ScalarsOf(p)) = K
    BY <1>1, ScalarsFacts
  <2>2. DOMAIN ScalarsOf(p) = 1 .. K
    BY <2>1, LenProperties
  <2> QED
    BY <2>2 DEF ToSet
<1> DEFINE a == EndOf(ScalarEnds(p), k - 1)
           b == EndOf(ScalarEnds(p), k)
<1>3. /\ a \in Nat /\ b \in Nat /\ a < b /\ b <= Len(p)
      /\ p[a + 1] \in UnicodeScalar /\ p[a + 1] # Continuation
      /\ ScalarsOf(p)[k] = p[a + 1]
  BY <1>1, OneScalar
<1> HIDE DEF a, b
<1>4. a + 1 \in 1 .. Len(p)
  <2>1. Len(p) \in Nat
    BY <1>1, LenProperties
  <2> QED
    BY <1>3, <2>1
<1> QED
  BY <1>1, <1>2, <1>3, <1>4 DEF NoDot

LEMMA PlainLabel ==
    ASSUME EncodesASCII, EncodesPlainly, ASCIIFits, NEW p, Settled(p)
    PROVE  Plain(ASCIILabel(p))
<1>1. p \in Seq(Byte) /\ InUTF8(p) /\ NoDot(p)
      /\ \A j \in 1 .. Len(p) : p[j] # Continuation => For(p[j]).kind \in {"valid", "deviation"}
  BY DEF Settled
<1>2. CASE AllASCII(p)
  <2>1. ASSUME NEW j \in 1 .. Len(p) PROVE p[j] \in UnicodeScalar /\ ~IsUppercase(p[j])
    <3>1. p[j] \in Nat /\ p[j] < ASCIILimit /\ ASCIILimit \in Nat /\ Continuation \in Nat
      BY <1>1, <1>2, ElementOfSeq, ByteAssumption, ScalarBytesAssumption, ASCIILimitAssumption
      DEF AllASCII
    <3>2. p[j] # Continuation
      BY <3>1, WholeScalarsAssumption
    <3>3. p[j] \in UnicodeScalar
      BY <1>1, <3>2, InUTF8Means DEF ScalarAt
    <3> QED
      BY <1>1, <3>1, <3>2, <3>3, LowerByte
  <2>2. ASCIILabel(p) = p
    BY <1>2 DEF ASCIILabel
  <2> QED
    BY <1>1, <1>2, <2>1, <2>2 DEF Plain
<1>3. CASE ~AllASCII(p)
  <2> DEFINE e == Encode(ScalarsOf(p))
             q == Marker \o e
  <2>1. ScalarsOf(p) \in Seq(Byte)
    BY <1>1, ScalarsFacts
  <2>2. e \in Seq(Byte) /\ AllASCII(e) /\ Len(e) \in Nat
    BY <2>1, LenProperties DEF EncodesASCII
  <2>3. ASSUME NEW j \in 1 .. Len(e)
        PROVE  e[j] < ASCIILimit /\ e[j] \in UnicodeScalar /\ e[j] # Dot /\ ~IsUppercase(e[j])
    <3>1. e[j] < ASCIILimit
      BY <2>2 DEF AllASCII
    <3>2. CASE e[j] \in ToSet(ScalarsOf(p))
      BY <3>1, <3>2, SettledScalars, LowerByte
    <3>3. CASE e[j] \notin ToSet(ScalarsOf(p))
      BY <2>1, <3>1, <3>3 DEF EncodesPlainly
    <3> QED
      BY <3>2, <3>3
  <2> HIDE DEF e
  <2>4. Marker \in Seq(Byte) /\ Len(Marker) = 4
        /\ \A j \in 1 .. 4 : /\ Marker[j] < ASCIILimit /\ Marker[j] \in UnicodeScalar
                             /\ Marker[j] # Dot /\ ~IsUppercase(Marker[j])
    <3>1. \A j \in 1 .. 4 : Marker[j] \in {Hyphen, LetterX, LetterN}
      BY DEF Marker
    <3> QED
      BY <3>1, MarkerFacts, MarkerAssumption DEF ASCIIFits
  <2>5. q \in Seq(Byte) /\ Len(q) = 4 + Len(e)
        /\ \A j \in 1 .. 4 + Len(e) : q[j] = IF j <= 4 THEN Marker[j] ELSE e[j - 4]
    <3> DEFINE n == Len(Marker)
    <3>1. q \in Seq(Byte) /\ Len(q) = n + Len(e)
          /\ \A j \in 1 .. n + Len(e) : q[j] = IF j <= n THEN Marker[j] ELSE e[j - n]
      BY <2>2, <2>4, ConcatProperties
    <3>2. n = 4
      BY <2>4
    <3> HIDE DEF n, q
    <3> QED
      BY <3>1, <3>2
  <2> HIDE DEF q
  <2> DEFINE m == Len(e)
  <2>6. m \in Nat
    BY <2>2
  <2> HIDE DEF m
  <2>7. \A j \in 1 .. 4 + m : j \in 1 .. 4 \/ (~(j <= 4) /\ j - 4 \in 1 .. m)
    BY <2>6
  <2>8. \A j \in 1 .. Len(q) : /\ q[j] < ASCIILimit /\ q[j] \in UnicodeScalar
                               /\ q[j] # Dot /\ ~IsUppercase(q[j])
    <3> SUFFICES ASSUME NEW j \in 1 .. 4 + m
                 PROVE  /\ q[j] < ASCIILimit /\ q[j] \in UnicodeScalar
                        /\ q[j] # Dot /\ ~IsUppercase(q[j])
      BY <2>5 DEF m
    <3>1. CASE j \in 1 .. 4
      <4>1. q[j] = Marker[j]
        BY <2>5, <3>1 DEF m
      <4> QED
        BY <2>4, <3>1, <4>1
    <3>2. CASE ~(j <= 4) /\ j - 4 \in 1 .. m
      <4>1. q[j] = e[j - 4]
        BY <2>5, <3>2 DEF m
      <4> QED
        BY <2>3, <3>2, <4>1 DEF m
    <3> QED
      BY <2>7, <3>1, <3>2
  <2>9. Plain(q)
    BY <2>5, <2>8 DEF Plain, AllASCII, NoDot
  <2>10. ASCIILabel(p) = q
    BY <1>3 DEF ASCIILabel, q, e
  <2> QED
    BY <2>9, <2>10
<1> QED
  BY <1>2, <1>3

\* It decodes to the label, where the round trip of Punycode has it so.
LEMMA DecodedBack ==
    ASSUME EncodesASCII, NEW p, Settled(p),
           ~AllASCII(p) =>
                LET punycode == Encode(ScalarsOf(p))
                IN  /\ punycode \in DOMAIN Decoding
                    /\ Decoding[punycode].kind = "decoded" /\ Decoding[punycode].bytes = p
    PROVE  Converted(ASCIILabel(p)) = p
<1>1. CASE AllASCII(p)
  BY <1>1 DEF ASCIILabel, Settled
<1>2. CASE ~AllASCII(p)
  <2> DEFINE e == Encode(ScalarsOf(p))
             q == Marker \o e
  <2>1. e \in Seq(Byte) /\ Decoding[e].kind = "decoded" /\ Decoding[e].bytes = p
    <3>1. ScalarsOf(p) \in Seq(Byte)
      BY ScalarsFacts DEF Settled
    <3> QED
      BY <1>2, <3>1 DEF EncodesASCII
  <2>2. ASCIILabel(p) = q
    BY <1>2 DEF ASCIILabel
  <2> HIDE DEF e
  <2>3. Marker \in Seq(Byte) /\ Len(Marker) = 4
    BY MarkerFacts
  <2>4. SubSeq(q, 1, 4) = Marker /\ SubSeq(q, 5, Len(q)) = e /\ Len(q) >= 4
    <3>1. SubSeq(q, 1, Len(Marker)) = Marker /\ SubSeq(q, Len(Marker) + 1, Len(q)) = e
      BY <2>1, <2>3, ConcatFront, ConcatTail
    <3>2. Len(q) = Len(Marker) + Len(e) /\ Len(e) \in Nat
      BY <2>1, <2>3, ConcatProperties, LenProperties
    <3>3. Len(Marker) + 1 = 5
      BY <2>3
    <3> HIDE DEF q
    <3> QED
      BY <2>3, <3>1, <3>2, <3>3
  <2> HIDE DEF q
  <2>5. HasMarkerPrefix(q) /\ DropMarker(q) = e
    BY <2>4 DEF HasMarkerPrefix, DropMarker, Marker
  <2>6. Converted(q) = p
    BY <2>1, <2>5 DEF Converted, Undecodable
  <2> QED
    BY <2>2, <2>6
<1> QED
  BY <1>1, <1>2

-----------------------------------------------------------------------------
(* What the text comes from. *)

TextKept ==
    /\ pc = "normalise" => Text = MapText(domain)
    /\ pc \in {"label", "dot", "done", "undefined"} => Text = LongText

LEMMA InitText == Init => TextKept
  BY DEF Init, TextKept

LEMMA StepText == ASSUME IndInv, TextKept, [Next]_vars PROVE TextKept'
<1>1. CASE Map
  <2>1. Text' = MapText(domain) /\ pc' = "normalise" /\ domain' = domain
    BY <1>1, MapReads DEF Map, Text
  <2> QED
    BY <2>1 DEF TextKept
<1>2. CASE Normalise
  <2>1. Text' = NFC(Text) /\ Text = MapText(domain) /\ pc' = "label" /\ domain' = domain
    BY <1>2, EnsureNFCReads DEF IndInv, Storage, Normalise, Text, TextKept
  <2> QED
    BY <2>1 DEF TextKept, LongText
<1>3. CASE \/ KeepLabel \/ RefuseNonASCII \/ Decode \/ DecodeFails \/ DecodeUnwrapsNil
           \/ AppendDot \/ DotPastTuple
  <2>1. pc \in {"label", "dot"} /\ domain' = domain /\ newBytes' = newBytes
        /\ pc' \notin {"normalise"}
    BY <1>3 DEF KeepLabel, RefuseNonASCII, Decode, DecodeFails, EndLabel, DecodeUnwrapsNil,
                AppendDot, DotPastTuple
  <2> QED
    BY <2>1 DEF TextKept, Text, LongText
<1>4. CASE NormaliseStops
  BY <1>4 DEF NormaliseStops, TextKept
<1>5. CASE UNCHANGED vars
  BY <1>5 DEF vars, TextKept, Text, LongText
<1> QED
  BY <1>1, <1>2, <1>3, <1>4, <1>5 DEF Next, Finished

-----------------------------------------------------------------------------
(* What is returned, and what was found on the way. *)

Lowered == [j \in DOMAIN domain |-> Lowercased(domain[j])]

Answered ==
    /\ stage = "keep" => \A j \in DOMAIN domain : ~IsUppercase(domain[j])
    /\ stage = "end" /\ pc = "map" => AllASCII(domain) /\ result.bytes = Lowered
    /\ stage = "end" /\ pc = "done" /\ result.kind # "thrown" => errors = {}

LEMMA InitAnswered == ConversionInit => Answered
  BY DEF ConversionInit, Answered

LEMMA StepAnswered == ASSUME Flow, Answered, [ConversionNext]_allVars PROVE Answered'
<1>1. CASE CheckBytes
  <2>1. stage' # "keep" /\ stage' # "end"
    BY <1>1 DEF CheckBytes, SurelyLowercase, AccumulatorStart
  <2> QED
    BY <2>1 DEF Answered
<1>2. CASE SearchForUppercase
  BY <1>2 DEF SearchForUppercase, Answered, vars
<1>3. CASE KeepDomain
  <2>1. stage' = "end" /\ pc' = "map" /\ domain' = domain /\ AllASCII(domain)
        /\ result'.bytes = domain /\ \A j \in DOMAIN domain : ~IsUppercase(domain[j])
    BY <1>3 DEF KeepDomain, Return, Flow, Control, vars, Answered
  <2>2. Lowered = domain
    <3>1. DOMAIN domain = 1 .. Len(domain) /\ domain \in Seq(UnicodeScalar)
      <4>1. domain \in Seq(UnicodeScalar)
        BY DomainsAssumption DEF Flow, IndInv, Storage
      <4> QED
        BY <4>1, LenProperties
    <3>2. domain = [j \in DOMAIN domain |-> domain[j]]
      BY <3>1
    <3>3. \A j \in DOMAIN domain : Lowercased(domain[j]) = domain[j]
      BY <2>1 DEF Lowercased
    <3> QED
      BY <3>2, <3>3, Zenon DEF Lowered
  <2>3. Lowered' = Lowered
    BY <2>1 DEF Lowered
  <2> QED
    BY <2>1, <2>2, <2>3 DEF Answered
<1>4. CASE LowercaseDomain
  <2>1. stage' = "end" /\ pc' = "map" /\ domain' = domain /\ AllASCII(domain)
        /\ result'.bytes = Lowered
    BY <1>4 DEF LowercaseDomain, Return, Flow, Control, vars, Lowered
  <2>2. Lowered' = Lowered
    BY <2>1 DEF Lowered
  <2> QED
    BY <2>1, <2>2 DEF Answered
<1>5. CASE ConvertAnyway
  BY <1>5 DEF ConvertAnyway, Answered
<1>6. CASE MainStep
  <2>1. stage' = "process"
    BY <1>6 DEF MainStep, conversionVars
  <2> QED
    BY <2>1 DEF Answered
<1>7. CASE ReturnUnicode
  <2>1. stage' = "end" /\ pc' = "done" /\ errors' = errors
        /\ (errors # {} => result'.kind = "thrown")
    BY <1>7 DEF ReturnUnicode, Return, ReturnBytes, vars
  <2> QED
    BY <2>1 DEF Answered
<1>8. CASE ReturnASCII
  <2>1. stage' = "end" /\ pc' = "done" /\ errors' = errors
        /\ (errors # {} => result'.kind = "thrown")
    BY <1>8 DEF ReturnASCII, Return, ReturnBytes, Flow, Control, vars
  <2> QED
    BY <2>1 DEF Answered
<1>9. CASE StartLabels \/ AppendASCIILabel \/ AppendEncodedLabel \/ EncodePastTuple
  <2>1. stage' \in {"labels", "name", "undefined"}
    BY <1>9 DEF StartLabels, AppendASCIILabel, AppendEncodedLabel, LabelAppended, EncodePastTuple
  <2> QED
    BY <2>1 DEF Answered
<1>10. CASE UNCHANGED allVars
  BY <1>10, AllUnchanged DEF Answered, Lowered, vars
<1> QED
  BY <1>1, <1>2, <1>3, <1>4, <1>5, <1>6, <1>7, <1>8, <1>9, <1>10
  DEF ConversionNext, ConversionFinished

-----------------------------------------------------------------------------
(* There and back. *)

\* Pieces in ASCII, joined: nothing is left to map or to normalise.
LEMMA PlainJoined ==
    ASSUME DataFits, ASCIIFits, NEW N \in Nat, NEW S \in SUBSET (0 .. N), 0 \in S,
           NEW piece, DOMAIN piece = S, piece \in [S -> Seq(Byte)], \A f \in S : Plain(piece[f]),
           NEW last \in S, NEW R, R = JoinedUpTo(piece, last)
    PROVE  NFC(MapText(R)) = R
<1>1. Dot \in UnicodeScalar /\ Dot \in Byte /\ Dot \in Nat /\ Dot < ASCIILimit
      /\ For(Dot).kind = "valid"
  BY ScalarBytesAssumption, ByteAssumption, WholeScalarsAssumption DEF DataFits, DotIsNeutral
<1>2. ~IsUppercase(Dot)
  BY <1>1, LowerByte
<1>3. \A f \in S : NoDot(piece[f])
  BY DEF Plain
<1>4. ComesApart(piece, S, [l \in {} |-> l], last)
  BY <1>1, <1>3, JoinedLabels
<1>5. /\ R \in Seq(Byte)
      /\ \A j \in 1 .. Len(R) :
            R[j] = Dot \/ \E f \in S : \E i \in 1 .. Len(piece[f]) : R[j] = piece[f][i]
  BY <1>4, Zenon DEF ComesApart
<1>6. ASSUME NEW j \in 1 .. Len(R)
      PROVE  R[j] \in UnicodeScalar /\ R[j] < ASCIILimit /\ ~IsUppercase(R[j])
  <2>1. CASE R[j] = Dot
    BY <1>1, <1>2, <2>1
  <2>2. CASE R[j] # Dot
    <3>1. PICK f \in S : \E i \in 1 .. Len(piece[f]) : R[j] = piece[f][i]
      BY <1>5, <2>2
    <3> QED
      BY <3>1 DEF Plain, AllASCII
  <2> QED
    BY <2>1, <2>2
<1>7. R \in Seq(UnicodeScalar)
  <2>1. R = [j \in 1 .. Len(R) |-> R[j]] /\ Len(R) \in Nat
    BY <1>5, LenProperties
  <2>2. R \in [1 .. Len(R) -> UnicodeScalar]
    BY <1>6, <2>1
  <2> QED
    BY <2>1, <2>2, SeqDef
<1>8. \A j \in 1 .. Len(R) : MappedBytes(R[j]) = <<R[j]>>
  BY <1>6 DEF ASCIIFits, Lowercased
<1>9. MapText(R) = R
  BY <1>5, <1>7, <1>8, MapsOneByOne
<1>10. AllASCII(R)
  BY <1>6 DEF AllASCII
<1> QED
  BY <1>5, <1>9, <1>10, NFCFacts

\* What the strict setting accepts comes back, if its labels do.
LEMMA ComesBackAtEnd ==
    ASSUME EncodesASCII, EncodesPlainly, DataFits, ASCIIFits, LabelsComeBack,
           ConversionInv, Output, Readable, TextKept, Answered,
           Accepted, call = "toASCII", pc = "done", Strict,
           Unspoilt, ~DotMeetsFullBuffer(Text)
    PROVE  ConvertedText(NFC(MapText(result.bytes))) = ConvertedText(Text)
<1> DEFINE S == LabelStarts(Text)
           N == Len(Text)
           piece == [f \in S |-> Converted(LabelAt(Text, f))]
           plain == [f \in S |-> ASCIILabel(Converted(LabelAt(Text, f)))]
           h == [l \in Seq(Byte) |-> Converted(l)]
           C == ConvertedText(Text)
           R == ASCIIForm(C)
           last == Max(S)
<1>1. IndInv /\ ~config.ignoreInvalidPunycode /\ errors = {}
      /\ config \in Configurations /\ domain \in Domains
  BY DEF ConversionInv, Flow, IndInv, Storage, Strict, Answered, Accepted
<1>2. /\ Text \in Seq(Byte) /\ N \in Nat /\ S \in SUBSET (0 .. N) /\ 0 \in S
      /\ \A f \in S : LabelAt(Text, f) \in Seq(Byte)
  BY <1>1, ContentsType, StartsBefore, LabelFacts DEF IndInv, Storage, Text
<1>3. result.bytes = R
  <2>1. Processed = C
    BY <1>1, OutputAtEnd DEF Comparable, Processed
  <2>2. LoopBegun /\ stage = "end" /\ result.kind # "thrown"
    BY DEF LoopBegun, Accepted
  <2>3. result.bytes = ASCIIForm(Processed)
    BY <2>2 DEF ConversionInv, Returned, Labelwise
  <2> QED
    BY <2>1, <2>3
<1>4. ASSUME NEW f \in S
      PROVE  /\ Settled(piece[f]) /\ Plain(plain[f]) /\ Converted(plain[f]) = piece[f]
             /\ plain[f] = ASCIILabel(piece[f])
  <2> DEFINE l == LabelAt(Text, f)
             p == Converted(l)
  <2>1. Settled(p) /\ Verdict(l, config) = {}
    BY <1>1, LabelsSettle
  <2>2. l \in AcceptedLabels(NFC(MapText(domain)))
    <3>1. Text = NFC(MapText(domain))
      BY DEF TextKept, LongText
    <3>2. l \in {LabelAt(Text, from) : from \in S}
      OBVIOUS
    <3> HIDE DEF l
    <3> QED
      BY <1>1, <2>1, <3>1, <3>2 DEF AcceptedLabels
  <2>3. ~AllASCII(p) =>
            LET punycode == Encode(ScalarsOf(p))
            IN  /\ punycode \in DOMAIN Decoding
                /\ Decoding[punycode].kind = "decoded" /\ Decoding[punycode].bytes = p
    <3> HIDE DEF l
    <3> QED
      BY <1>1, <2>2 DEF LabelsComeBack
  <2>4. piece[f] = p /\ plain[f] = ASCIILabel(p)
    OBVIOUS
  <2> HIDE DEF p, piece, plain
  <2>5. Plain(ASCIILabel(p)) /\ Converted(ASCIILabel(p)) = p
    BY <2>1, <2>3, PlainLabel, DecodedBack
  <2> QED
    BY <2>1, <2>4, <2>5
<1>5. C = JoinedUpTo(piece, last)
  BY DEF ConvertedText, ConvertedUpTo
<1>6. last \in S
  <2> HIDE DEF S, N
  <2> QED
    BY <1>2, MaxFacts
<1>7. /\ DOMAIN piece = S /\ piece \in [S -> Seq(Byte)]
      /\ DOMAIN plain = S /\ plain \in [S -> Seq(Byte)]
  <2>1. \A f \in S : piece[f] \in Seq(Byte) /\ plain[f] \in Seq(Byte)
    BY <1>4 DEF Settled, Plain
  <2> QED
    BY <2>1
<1> HIDE DEF S, N, piece, plain, h, C, last, R
<1>8. R = JoinedUpTo(plain, last)
  <2>1. InASCII(plain, piece, S)
    BY <1>2, <1>4, <1>7 DEF InASCII
  <2>2. ASCIIForm(C) = JoinedUpTo(plain, last)
    BY <1>2, <1>5, <1>6, <2>1, FormOfJoined
  <2> QED
    BY <2>2 DEF R
<1>9. NFC(MapText(R)) = R
  BY <1>2, <1>4, <1>6, <1>7, <1>8, PlainJoined
<1>10. R \in Seq(Byte)
       /\ JoinedUpTo(EachLabel(h, R), Max(LabelStarts(R)))
            = JoinedUpTo([f \in S |-> h[plain[f]]], last)
  <2>1. \A f \in S : NoDot(plain[f])
    BY <1>4 DEF Plain
  <2>2. Dot \in Byte
    BY ScalarBytesAssumption
  <2>3. ComesApart(plain, S, h, last)
    BY <1>2, <1>6, <1>7, <2>1, <2>2, JoinedLabels
  <2> QED
    BY <1>8, <2>3, Zenon DEF ComesApart
<1>11. ConvertedText(R) = C
  <2>1. EachLabel(h, R) = [g \in LabelStarts(R) |-> Converted(LabelAt(R, g))]
    <3>1. \A g \in LabelStarts(R) : h[LabelAt(R, g)] = Converted(LabelAt(R, g))
      BY <1>10, LabelFacts DEF h
    <3> QED
      BY <3>1 DEF EachLabel
  <2>2. [f \in S |-> h[plain[f]]] = piece
    <3>1. \A f \in S : h[plain[f]] = piece[f]
      BY <1>4, <1>7 DEF h
    <3>2. piece = [f \in S |-> piece[f]]
      BY <1>7
    <3> QED
      BY <3>1, <3>2, Zenon
  <2>3. ConvertedText(R) = JoinedUpTo(EachLabel(h, R), Max(LabelStarts(R)))
    BY <2>1 DEF ConvertedText, ConvertedUpTo
  <2> QED
    BY <1>5, <1>10, <2>2, <2>3
<1> QED
  BY <1>3, <1>9, <1>11 DEF C

\* What ToASCII accepts under the strict setting comes back, whatever the
\* tables: the name in ASCII is mapped, normalised and decoded to what was
\* encoded.  Of the labels it takes that each comes back by itself, which is
\* RoundTrip of PunycodeRoundTrip.
THEOREM AcceptedAlwaysComesBack ==
    EncodesASCII /\ EncodesPlainly /\ DataFits /\ ASCIIFits /\ LabelsComeBack
    => (ConversionSpec => []ComesBack)
<1> SUFFICES ASSUME EncodesASCII, EncodesPlainly, DataFits, ASCIIFits, LabelsComeBack
             PROVE  ConversionSpec => []ComesBack
  OBVIOUS
<1>1. /\ ConversionInit => Init /\ Readable /\ TextKept /\ Answered
      /\ [ConversionNext]_allVars => [Next]_vars
  BY InitReadable, InitText, InitAnswered, MainSteps DEF ConversionInit
<1>2. /\ IndInv /\ Readable /\ [Next]_vars => Readable'
      /\ IndInv /\ TextKept /\ [Next]_vars => TextKept'
      /\ Flow /\ Answered /\ [ConversionNext]_allVars => Answered'
  BY StepReadable, StepText, StepAnswered DEF DataFits
<1>3. ConversionInv => Flow /\ IndInv
  BY DEF ConversionInv, Flow
<1>4. ConversionInv /\ Output /\ Readable /\ TextKept /\ Answered => ComesBack
  BY ComesBackAtEnd DEF ComesBack
<1> QED
  BY <1>1, <1>2, <1>3, <1>4, ConversionInvariant, MainImplemented, OutputInvariant, PTL
  DEF ConversionSpec

-----------------------------------------------------------------------------
(* The shortcuts for ASCII. *)

\* A label in ASCII that is accepted, converted and put in ASCII again.
LEMMA LabelGoesBack ==
    ASSUME DataFits, ~config.ignoreInvalidPunycode,
           NEW l \in Seq(Byte), InUTF8(l), NoDot(l), AllASCII(l), HasOutcome(l),
           Verdict(l, config) = {},
           HasMarkerPrefix(l) => Encode(ScalarsOf(Converted(l))) = DropMarker(l)
    PROVE  /\ Settled(Converted(l)) /\ ASCIILabel(Converted(l)) = l
           /\ ~HasMarkerPrefix(l) => Converted(l) = l
<1> DEFINE r == Converted(l)
<1>1. Settled(r)
  BY ConvertedSettles
<1>2. CASE ~HasMarkerPrefix(l)
  BY <1>1, <1>2 DEF Converted, ASCIILabel
<1>3. CASE HasMarkerPrefix(l)
  <2>1. ~AllASCII(r)
    <3> DEFINE judged == verifyValidLabel(r, config)
               more == checkInvalidPunycode(r, config)
    <3>1. Verdict(l, config) =
              IF ~AllASCII(l) THEN {"xnButNonASCII"}
              ELSE IF Undecodable(l) THEN {"decodeFailed"}
              ELSE more \cup judged
      BY <1>3, Zenon DEF Verdict
    <3>2. more = {}
      <4> HIDE DEF more, judged
      <4> QED
        BY <3>1
    <3>3. When(AllASCII(r), "onlyASCII") = {}
      <4> HIDE DEF r
      <4> QED
        BY <3>2 DEF checkInvalidPunycode
    <3> QED
      BY <3>3, Zenon DEF When
  <2>2. ASCIILabel(r) = Marker \o DropMarker(l)
    BY <1>3, <2>1 DEF ASCIILabel
  <2>3. Marker \o DropMarker(l) = l
    <3>1. Len(l) \in Nat /\ Len(l) >= 4 /\ SubSeq(l, 1, 4) = Marker
      BY <1>3, LenProperties DEF HasMarkerPrefix, Marker
    <3>2. 4 \in Nat /\ 4 <= Len(l) /\ Len(l) <= Len(l) /\ 4 + 1 = 5
      BY <3>1
    <3>3. SubSeq(l, 1, 4) \o SubSeq(l, 4 + 1, Len(l)) = SubSeq(l, 1, Len(l))
      BY <3>1, <3>2, PartsMeet
    <3>4. SubSeq(l, 1, Len(l)) = l
      BY SubSeqFull
    <3>5. SubSeq(l, 4 + 1, Len(l)) = DropMarker(l)
      BY <3>2 DEF DropMarker
    <3> QED
      BY <3>1, <3>3, <3>4, <3>5, Zenon
  <2> QED
    BY <1>1, <1>3, <2>2, <2>3
<1> QED
  BY <1>2, <1>3

\* ASCII is mapped to what the shortcut returns, and is in NFC.
LEMMA LoweredIsMapped ==
    ASSUME ASCIIFits, domain \in Seq(UnicodeScalar), AllASCII(domain)
    PROVE  /\ Lowered \in Seq(Byte) /\ AllASCII(Lowered)
           /\ MapText(domain) = Lowered /\ NFC(Lowered) = Lowered
<1> DEFINE N == Len(domain)
<1>1. N \in Nat /\ DOMAIN domain = 1 .. N /\ \A j \in 1 .. N : domain[j] \in UnicodeScalar
  BY LenProperties, ElementOfSeq
<1>2. \A j \in 1 .. N : MappedBytes(domain[j]) = <<Lowercased(domain[j])>>
  BY <1>1 DEF ASCIIFits, AllASCII
<1>3. \A j \in 1 .. N : /\ Lowercased(domain[j]) \in Byte
                        /\ Lowercased(domain[j]) < ASCIILimit
  <2> SUFFICES ASSUME NEW j \in 1 .. N
               PROVE  Lowercased(domain[j]) \in Byte /\ Lowercased(domain[j]) < ASCIILimit
    OBVIOUS
  <2>1. domain[j] \in UnicodeScalar /\ domain[j] < ASCIILimit /\ domain[j] \in Nat
    BY <1>1, ScalarBytesAssumption, ByteAssumption DEF AllASCII
  <2>2. <<Lowercased(domain[j])>> \in Seq(Byte)
    BY <1>2, <2>1, MappedFacts
  <2>3. Lowercased(domain[j]) \in Byte
    BY <2>2
  <2>4. Lowercased(domain[j]) < ASCIILimit
    BY <2>1, LowersASCII
  <2> QED
    BY <2>3, <2>4
<1>4. /\ Lowered = [j \in 1 .. N |-> Lowercased(domain[j])]
      /\ Lowered \in Seq(Byte) /\ Len(Lowered) = N
  <2>1. Lowered = [j \in 1 .. N |-> Lowercased(domain[j])]
    BY <1>1 DEF Lowered
  <2> HIDE DEF N
  <2>2. Lowered \in [1 .. N -> Byte]
    BY <1>3, <2>1
  <2>3. Lowered \in Seq(Byte)
    BY <1>1, <2>2, SeqDef
  <2>4. Len(Lowered) = N
    BY <1>1, <2>1, <2>3, LenProperties
  <2> QED
    BY <2>1, <2>3, <2>4
<1>5. AllASCII(Lowered)
  BY <1>3, <1>4 DEF AllASCII
<1>6. \A j \in 1 .. N : MappedBytes(domain[j]) = <<Lowered[j]>>
  BY <1>2, <1>4
<1>7. MapText(domain) = Lowered
  BY <1>4, <1>6, MapsOneByOne
<1> QED
  BY <1>4, <1>5, <1>7, NFCFacts

LEMMA ASCIILabels ==
    ASSUME NEW s \in Seq(Byte), AllASCII(s), NEW f \in LabelStarts(s)
    PROVE  AllASCII(LabelAt(s, f))
<1> DEFINE e == LabelEnd(s, f)
           N == Len(s)
           l == LabelAt(s, f)
<1>1. N \in Nat /\ f \in 0 .. N /\ e \in f .. N
  BY StartsBefore, EndMeans
<1> HIDE DEF e, N
<1>2. \A j \in f + 1 .. e : s[j] \in {b \in Byte : b < ASCIILimit}
  <2>1. \A j \in f + 1 .. e : j \in 1 .. N
    BY <1>1
  <2> QED
    BY <1>1, <2>1, ElementOfSeq DEF N, AllASCII
<1>3. f + 1 \in Int /\ e \in Int
  BY <1>1
<1>4. SubSeq(s, f + 1, e) \in Seq({b \in Byte : b < ASCIILimit})
  BY <1>2, <1>3, SubSeqProperties
<1>5. l \in Seq({b \in Byte : b < ASCIILimit})
  BY <1>4 DEF LabelAt, e
<1> HIDE DEF l
<1> QED
  BY <1>5, ElementOfSeq DEF AllASCII, l

\* The long way, where it accepts the name, gives what the shortcut gave.
LEMMA ShortcutAtEnd ==
    ASSUME DataFits, ASCIIFits, Flow, Answered,
           TookShortcut, Strict, LongWayAccepts,
           \A from \in LabelStarts(LongText) : GoesBack(LabelAt(LongText, from)),
           call = "toUnicode" => ~ContainsMarkerPrefix(LongText)
    PROVE  result.bytes = IF call = "toASCII" THEN ASCIIForm(ConvertedText(LongText))
                                              ELSE ConvertedText(LongText)
<1> DEFINE L == LongText
           S == LabelStarts(L)
           N == Len(L)
           own == [f \in S |-> LabelAt(L, f)]
           piece == [f \in S |-> Converted(LabelAt(L, f))]
           last == Max(S)
<1>1. /\ AllASCII(domain) /\ result.bytes = Lowered /\ ~config.ignoreInvalidPunycode
      /\ domain \in Domains /\ domain \in Seq(UnicodeScalar) /\ config \in Configurations
      /\ call \in {"toASCII", "toUnicode"}
  BY DomainsAssumption, CallsAssumption
  DEF Answered, TookShortcut, Strict, Flow, IndInv, Storage, Control
<1>2. Lowered = L /\ L \in Seq(Byte) /\ AllASCII(L) /\ InUTF8(L)
  BY <1>1, LoweredIsMapped, UTF8MapText DEF LongText, DataFits
<1>3. N \in Nat /\ S \in SUBSET (0 .. N) /\ 0 \in S
      /\ \A f \in S : LabelAt(L, f) \in Seq(Byte)
  BY <1>2, StartsBefore, LabelFacts
<1>4. ASSUME NEW f \in S
      PROVE  /\ Settled(piece[f]) /\ own[f] = ASCIILabel(piece[f])
             /\ ~HasMarkerPrefix(LabelAt(L, f)) => own[f] = piece[f]
  <2> DEFINE l == LabelAt(L, f)
  <2>1. /\ l \in Seq(Byte) /\ InUTF8(l) /\ NoDot(l) /\ AllASCII(l)
        /\ Verdict(l, config) = {} /\ GoesBack(l)
    BY <1>2, <1>3, UTF8Label, LabelHasNoDot, ASCIILabels DEF LongWayAccepts
  <2>2. own[f] = l /\ piece[f] = Converted(l)
    OBVIOUS
  <2> HIDE DEF l
  <2>3. /\ HasOutcome(l)
        /\ HasMarkerPrefix(l) => Encode(ScalarsOf(Converted(l))) = DropMarker(l)
    BY <2>1 DEF GoesBack, HasOutcome
  <2> HIDE DEF own, piece
  <2>4. /\ Settled(Converted(l)) /\ ASCIILabel(Converted(l)) = l
        /\ ~HasMarkerPrefix(l) => Converted(l) = l
    BY <1>1, <2>1, <2>3, LabelGoesBack
  <2> QED
    BY <2>2, <2>4 DEF l
<1>5. JoinedUpTo(own, last) = L
  BY <1>2, OwnLabels
<1>6. ConvertedText(L) = JoinedUpTo(piece, last)
  BY DEF ConvertedText, ConvertedUpTo
<1>7. last \in S
  <2> HIDE DEF S, N
  <2> QED
    BY <1>3, MaxFacts
<1>8. DOMAIN piece = S /\ DOMAIN own = S /\ own \in [S -> Seq(Byte)]
  BY <1>3
<1>9. call = "toUnicode" => \A f \in S : ~HasMarkerPrefix(LabelAt(L, f))
  BY DEF ContainsMarkerPrefix
<1> HIDE DEF L, S, N, own, piece, last
<1>10. CASE call = "toASCII"
  <2>1. piece \in [S -> Seq(Byte)]
    <3>1. \A f \in S : piece[f] \in Seq(Byte)
      BY <1>4 DEF Settled
    <3>2. piece = [f \in S |-> piece[f]]
      BY DEF piece
    <3> QED
      BY <3>1, <3>2
  <2>2. InASCII(own, piece, S)
    BY <1>3, <1>4, <1>8, <2>1 DEF InASCII
  <2>3. ASCIIForm(JoinedUpTo(piece, last)) = JoinedUpTo(own, last)
    BY <1>3, <1>7, <2>2, FormOfJoined
  <2> QED
    BY <1>1, <1>2, <1>5, <1>6, <1>10, <2>3 DEF L
<1>11. CASE call = "toUnicode"
  <2>1. piece = own
    <3>1. \A f \in S : own[f] = piece[f]
      BY <1>4, <1>9, <1>11
    <3>2. piece = [f \in S |-> piece[f]] /\ own = [f \in S |-> own[f]]
      BY DEF piece, own
    <3> QED
      BY <3>1, <3>2, Zenon
  <2> QED
    BY <1>1, <1>2, <1>5, <1>6, <1>11, <2>1 DEF L
<1> QED
  BY <1>1, <1>10, <1>11

\* The shortcuts agree with the long way, whatever the tables, the outcomes of
\* decode and what encode writes: of every name without one of the labels that
\* ShortcutAgrees leaves out by name, those whose number wraps among them.
THEOREM ShortcutAlwaysAgrees == DataFits /\ ASCIIFits => (ConversionSpec => []ShortcutAgrees)
<1> SUFFICES ASSUME DataFits, ASCIIFits
             PROVE  ConversionSpec => []ShortcutAgrees
  OBVIOUS
<1>1. ConversionInit => Flow /\ Answered
  BY FlowInit, InitAnswered
<1>2. Flow /\ Answered /\ [ConversionNext]_allVars => Flow' /\ Answered'
  BY FlowStep, StepAnswered
<1>3. Flow /\ Answered => ShortcutAgrees
  BY ShortcutAtEnd DEF ShortcutAgrees
<1> QED
  BY <1>1, <1>2, <1>3, PTL DEF ConversionSpec

=============================================================================
