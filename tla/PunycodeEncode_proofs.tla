----------------------- MODULE PunycodeEncode_proofs -----------------------
(***************************************************************************)
(* Theorems about PunycodeEncode, for every choice of the Bootstring       *)
(* parameters, word size, label, buffer sizes and earlier use of the       *)
(* buffer.                                                                 *)
(***************************************************************************)
EXTENDS PunycodeEncode, RFC3492_proofs, TinyBuffers_proofs, SequenceTheorems, FiniteSetTheorems

(***************************************************************************)
(* The inductive invariant.  What links the counter of scalars handled to  *)
(* the label is that they are the ASCII ones, those below n and, in a      *)
(* pass, those equal to n that were met: a pass that is begun then has one *)
(* left, n stays a scalar's value, and delta stays below the number of     *)
(* places there are up to n.                                               *)
(***************************************************************************)
InPass == {"scan", "digits", "adapt"}

\* The places of s handled when the scalars of value m up to place p are.
HandledIn(s, m, p) ==
    {j \in 1 .. Len(s) : IsASCII(s[j]) \/ s[j] < m \/ (s[j] = m /\ j <= p)}

ASCIIUpTo(s, p) == {j \in 1 .. Len(s) : IsASCII(s[j]) /\ j <= p}

Counted ==
    /\ pc = "basic" => Count(output) = Cardinality(ASCIIUpTo(label, pos))
    /\ pc = "pass" => handled = Cardinality(HandledIn(label, n, 0))
    /\ pc \in InPass => handled = Cardinality(HandledIn(label, n, pos))

InRange ==
    /\ pc \in {"start", "basic"} => n = InitialN /\ delta = 0
    /\ pc = "start" => pos = 0
    /\ pc = "pass" => n \in InitialN .. MaxScalar + 1
    /\ pc \in InPass => n \in InitialN .. MaxScalar
    /\ pc \in {"digits", "adapt"} => pos < Len(label) /\ label[pos + 1] = n

Bounded ==
    ShortEnough =>
        /\ pc = "pass" => delta <= (n - InitialN) * (Len(label) + 1)
        /\ pc \in InPass => delta <= (n - InitialN) * (Len(label) + 1) + pos

IndInv == TypeOK /\ Counted /\ InRange /\ Bounded

-----------------------------------------------------------------------------
(* Labels and buffers. *)

LEMMA LabelFacts ==
    ASSUME label \in Labels
    PROVE  /\ Len(label) \in Nat
           /\ \A j \in 1 .. Len(label) : label[j] \in 0 .. MaxScalar
<1>1. label \in Seq(Nat) /\ \A j \in 1 .. Len(label) : IsScalar(label[j])
  BY LabelsAssumption
<1> QED
  BY <1>1, LenProperties DEF IsScalar

LEMMA Constants ==
    /\ InitialN \in Nat /\ MaxScalar \in Nat /\ WordSize \in Nat
    /\ 1 <= InitialN /\ InitialN <= MaxScalar /\ MaxScalar + 1 < WordSize
    /\ Hyphen \in Byte
<1>1. /\ InitialN \in Nat /\ MaxScalar \in Nat /\ WordSize \in Nat
      /\ Hyphen \in 0 .. InitialN - 1 /\ InitialN <= MaxScalar
      /\ WordSize > 2 * MaxScalar
  BY CodePointAssumption, WordAssumption
<1> QED
  BY <1>1, EncodedBytesAssumption

\* The byte of a digit is ASCII.
LEMMA DigitBytes ==
    ASSUME NEW d \in 0 .. Base - 1
    PROVE  ByteOfDigit(d) \in Byte
<1>1. /\ InitialN \in Nat /\ {LetterA, LetterZ, Digit0, Digit9} \subseteq 0 .. InitialN - 1
      /\ Base = Letters + (Digit9 - Digit0 + 1) /\ Letters = LetterZ - LetterA + 1
      /\ LetterA <= LetterZ /\ Digit0 <= Digit9
  BY CodePointAssumption DEF Letters
<1>2. CASE d < Letters
  <2>1. LetterA + d \in 0 .. InitialN - 1
    BY <1>1, <1>2
  <2> QED
    BY <1>2, <2>1, EncodedBytesAssumption DEF ByteOfDigit
<1>3. CASE ~(d < Letters)
  <2>1. Digit0 + d - Letters \in 0 .. InitialN - 1
    BY <1>1, <1>3
  <2> QED
    BY <1>3, <2>1, EncodedBytesAssumption DEF ByteOfDigit
<1> QED
  BY <1>2, <1>3

\* A threshold is a digit that leaves room above it.
LEMMA ThresholdRange ==
    ASSUME NEW x \in Nat, NEW y \in Nat
    PROVE  T(x, y) \in 1 .. Base - 1
<1>1. /\ TMin \in Nat /\ TMax \in Nat /\ Base \in Nat
      /\ 1 <= TMin /\ TMin <= TMax /\ TMax < Base
  BY BootstringAssumption
<1> QED
  BY <1>1 DEF T

LEMMA CountType ==
    ASSUME NEW b \in Buffer
    PROVE  Count(b) \in Nat
<1>1. CASE b \in InlineBuffer
  <2>1. b.rep = "inline" /\ b.cells \in [0 .. InlineCapacity -> Byte]
    BY <1>1 DEF InlineBuffer, Cells
  <2>2. b.cells[InlineCapacity] \in Byte
    BY <2>1, InlineCapacityAssumption
  <2> QED
    BY <2>1, <2>2, ByteAssumption DEF Count, IsInline, CountCell
<1>2. CASE b \in HeapBuffer
  <2>1. b.rep = "heap" /\ b.bytes \in Seq(Byte)
    BY <1>2 DEF HeapBuffer
  <2> QED
    BY <2>1, LenProperties DEF Count, IsInline
<1> QED
  BY <1>1, <1>2 DEF Buffer

\* An unchecked append that is defined keeps the representation and counts
\* one byte more, be it that the count byte itself was stored to.
LEMMA AppendCounts ==
    ASSUME NEW b \in Buffer, NEW e \in Byte, ~WritesPastTuple(b)
    PROVE  AppendUnchecked(b, e) \in Buffer /\ Count(AppendUnchecked(b, e)) = Count(b) + 1
<1>1. CASE b \in InlineBuffer
  <2> DEFINE c == b.cells[InlineCapacity]
             cells == [b.cells EXCEPT ![c] = e, ![InlineCapacity] = c + 1]
  <2>1. b.rep = "inline" /\ b.cells \in [0 .. InlineCapacity -> Byte]
    BY <1>1 DEF InlineBuffer, Cells
  <2>2. c \in 0 .. InlineCapacity
    <3>1. c \in Byte
      BY <2>1, InlineCapacityAssumption
    <3> QED
      BY <2>1, <3>1, ByteAssumption, InlineCapacityAssumption
         DEF WritesPastTuple, IsInline, CountCell
  <2>3. c + 1 \in Byte
    <3>1. c + 1 \in 0 .. InlineCapacity + 1
      BY <2>2, InlineCapacityAssumption
    <3> QED
      BY <3>1, ByteAssumption
  <2>4. AppendUnchecked(b, e) = Inline(cells)
    BY <2>1 DEF AppendUnchecked, IsInline, CountCell
  <2> HIDE DEF c
  <2>5. cells \in [0 .. InlineCapacity -> Byte] /\ cells[InlineCapacity] = c + 1
    BY <2>1, <2>2, <2>3, InlineCapacityAssumption
  <2> HIDE DEF cells
  <2>6. Inline(cells) \in Buffer /\ Count(Inline(cells)) = c + 1
    BY <2>5 DEF Inline, Buffer, InlineBuffer, Cells, Count, IsInline, CountCell
  <2> QED
    BY <2>1, <2>4, <2>6 DEF Count, IsInline, CountCell, c
<1>2. CASE b \in HeapBuffer
  <2>1. b.rep = "heap" /\ b.bytes \in Seq(Byte) /\ b.capacity \in Nat
    BY <1>2 DEF HeapBuffer
  <2> DEFINE bytes == Append(b.bytes, e)
             capacity == GrownTo(b.capacity, Len(b.bytes) + 1)
  <2>2. bytes \in Seq(Byte) /\ Len(bytes) = Len(b.bytes) + 1
    BY <2>1, AppendProperties
  <2>3. capacity \in Nat
    BY <2>1, LenProperties DEF GrownTo
  <2>4. AppendUnchecked(b, e) = Heap(bytes, capacity)
    BY <2>1 DEF AppendUnchecked, IsInline
  <2> HIDE DEF bytes, capacity
  <2>5. Heap(bytes, capacity) \in Buffer /\ Count(Heap(bytes, capacity)) = Len(bytes)
    BY <2>2, <2>3 DEF Heap, Buffer, HeapBuffer, Count, IsInline
  <2> QED
    BY <2>1, <2>2, <2>4, <2>5 DEF Count, IsInline
<1> QED
  BY <1>1, <1>2 DEF Buffer

LEMMA RemoveCounts ==
    ASSUME NEW b \in Buffer
    PROVE  RemoveAll(b, TRUE) \in Buffer /\ Count(RemoveAll(b, TRUE)) = 0
<1>1. EmptyInline \in Buffer /\ Count(EmptyInline) = 0
  <2>1. 0 \in Byte /\ InlineCapacity \in 0 .. InlineCapacity
    BY ByteAssumption, InlineCapacityAssumption
  <2>2. [c \in 0 .. InlineCapacity |-> 0] \in [0 .. InlineCapacity -> Byte]
    BY <2>1
  <2>3. [c \in 0 .. InlineCapacity |-> 0][InlineCapacity] = 0
    BY <2>1
  <2> QED
    BY <2>2, <2>3 DEF EmptyInline, Inline, Buffer, InlineBuffer, Cells, Count, IsInline, CountCell
<1>2. CASE ~IsInline(b)
  <2>1. b.capacity \in Nat
    BY <1>2 DEF Buffer, InlineBuffer, HeapBuffer, IsInline
  <2>2. Heap(<<>>, b.capacity) \in Buffer /\ Count(Heap(<<>>, b.capacity)) = 0
    BY <2>1, EmptySeq DEF Heap, Buffer, HeapBuffer, Count, IsInline
  <2> QED
    BY <1>2, <2>2 DEF RemoveAll
<1> QED
  BY <1>1, <1>2 DEF RemoveAll

\* The two outcomes of an append, as the actions see them.
LEMMA PutOutcomes ==
    ASSUME NEW e \in Byte, NEW next, output \in Buffer, Put(e, next)
    PROVE  \/ pc' = "undefined" /\ output' = output
           \/ pc' = next /\ output' \in Buffer /\ Count(output') = Count(output) + 1
<1>1. CASE WritesPastTuple(output)
  BY <1>1 DEF Put
<1>2. CASE ~WritesPastTuple(output)
  BY <1>2, AppendCounts DEF Put
<1> QED
  BY <1>1, <1>2

-----------------------------------------------------------------------------
(* Counting. *)

\* Which places the actions add.
LEMMA Places ==
    ASSUME NEW s, Len(s) \in Nat, \A j \in 1 .. Len(s) : s[j] \in Nat,
           NEW m \in Nat, NEW p \in 0 .. Len(s)
    PROVE  /\ HandledIn(s, m, p) \in SUBSET (1 .. Len(s))
           /\ ASCIIUpTo(s, p) \in SUBSET (1 .. Len(s))
           /\ ASCIIUpTo(s, 0) = {}
           /\ ASCIIUpTo(s, Len(s)) = HandledIn(s, InitialN, 0)
           /\ HandledIn(s, m + 1, 0) = HandledIn(s, m, Len(s))
           /\ p < Len(s) => p + 1 \in 1 .. Len(s) /\ p + 1 \notin ASCIIUpTo(s, p)
           /\ p < Len(s) /\ IsASCII(s[p + 1]) =>
                    ASCIIUpTo(s, p + 1) = ASCIIUpTo(s, p) \cup {p + 1}
           /\ p < Len(s) /\ ~IsASCII(s[p + 1]) => ASCIIUpTo(s, p + 1) = ASCIIUpTo(s, p)
           /\ p < Len(s) /\ s[p + 1] # m => HandledIn(s, m, p + 1) = HandledIn(s, m, p)
           /\ p < Len(s) /\ s[p + 1] = m /\ m >= InitialN =>
                    /\ p + 1 \notin HandledIn(s, m, p)
                    /\ HandledIn(s, m, p + 1) = HandledIn(s, m, p) \cup {p + 1}
<1> DEFINE L == Len(s)
<1>1. L \in Nat /\ \A j \in 1 .. L : s[j] \in Nat
  OBVIOUS
<1>2. InitialN \in Nat /\ 1 <= InitialN
  BY Constants
<1>3. /\ HandledIn(s, m, p) = {j \in 1 .. L : s[j] < InitialN \/ s[j] < m \/ (s[j] = m /\ j <= p)}
      /\ HandledIn(s, m, L) = {j \in 1 .. L : s[j] < InitialN \/ s[j] < m \/ (s[j] = m /\ j <= L)}
      /\ HandledIn(s, m, p + 1)
            = {j \in 1 .. L : s[j] < InitialN \/ s[j] < m \/ (s[j] = m /\ j <= p + 1)}
      /\ HandledIn(s, m + 1, 0)
            = {j \in 1 .. L : s[j] < InitialN \/ s[j] < m + 1 \/ (s[j] = m + 1 /\ j <= 0)}
      /\ HandledIn(s, InitialN, 0)
            = {j \in 1 .. L : s[j] < InitialN \/ s[j] < InitialN \/ (s[j] = InitialN /\ j <= 0)}
  BY DEF HandledIn, IsASCII
<1>4. /\ ASCIIUpTo(s, p) = {j \in 1 .. L : s[j] < InitialN /\ j <= p}
      /\ ASCIIUpTo(s, 0) = {j \in 1 .. L : s[j] < InitialN /\ j <= 0}
      /\ ASCIIUpTo(s, L) = {j \in 1 .. L : s[j] < InitialN /\ j <= L}
      /\ ASCIIUpTo(s, p + 1) = {j \in 1 .. L : s[j] < InitialN /\ j <= p + 1}
  BY DEF ASCIIUpTo, IsASCII
<1>5. p \in 0 .. L /\ m \in Nat
  OBVIOUS
<1> HIDE DEF L
<1>6. HandledIn(s, m, p) \in SUBSET (1 .. L) /\ ASCIIUpTo(s, p) \in SUBSET (1 .. L)
  BY <1>3, <1>4
<1>7. ASCIIUpTo(s, 0) = {}
  BY <1>1, <1>4
<1>8. ASCIIUpTo(s, L) = HandledIn(s, InitialN, 0)
  BY <1>1, <1>3, <1>4
<1>9. HandledIn(s, m + 1, 0) = HandledIn(s, m, L)
  BY <1>1, <1>3, <1>5
<1>10. ASSUME p < L
       PROVE  /\ p + 1 \in 1 .. L /\ p + 1 \notin ASCIIUpTo(s, p)
              /\ s[p + 1] < InitialN => ASCIIUpTo(s, p + 1) = ASCIIUpTo(s, p) \cup {p + 1}
              /\ ~(s[p + 1] < InitialN) => ASCIIUpTo(s, p + 1) = ASCIIUpTo(s, p)
  <2>1. p + 1 \in 1 .. L /\ \A j \in 1 .. L : j <= p + 1 <=> (j <= p \/ j = p + 1)
    BY <1>1, <1>5, <1>10
  <2> QED
    BY <1>1, <1>4, <1>5, <2>1
<1>11. ASSUME p < L, s[p + 1] # m
       PROVE  HandledIn(s, m, p + 1) = HandledIn(s, m, p)
  <2>1. \A j \in 1 .. L : (s[j] = m /\ j <= p + 1) <=> (s[j] = m /\ j <= p)
    BY <1>1, <1>5, <1>11
  <2> QED
    BY <1>3, <2>1
<1>12. ASSUME p < L, s[p + 1] = m, m >= InitialN
       PROVE  /\ p + 1 \notin HandledIn(s, m, p)
              /\ HandledIn(s, m, p + 1) = HandledIn(s, m, p) \cup {p + 1}
  <2>1. p + 1 \in 1 .. L /\ \A j \in 1 .. L : j <= p + 1 <=> (j <= p \/ j = p + 1)
    BY <1>1, <1>5, <1>12
  <2> QED
    BY <1>1, <1>2, <1>3, <1>5, <1>12, <2>1
<1> QED
  BY <1>6, <1>7, <1>8, <1>9, <1>10, <1>11, <1>12 DEF L, IsASCII

-----------------------------------------------------------------------------
(* The next code point. *)

LEMMA LeastNatural ==
    ASSUME NEW S \in SUBSET Nat, S # {}
    PROVE  Min(S) \in S /\ \A y \in S : Min(S) <= y
<1> DEFINE R == OpToRel(<, Nat)
<1>1. IsWellFoundedOn(R, Nat)
  BY NatLessThanWellFounded
<1> HIDE DEF R
<1>2. PICK x \in S : \A y \in S : ~(<<y, x>> \in R)
  BY <1>1, WFMin
<1>3. \A y \in S : x <= y
  <2> SUFFICES ASSUME NEW y \in S PROVE x <= y
    OBVIOUS
  <2>1. x \in Nat /\ y \in Nat /\ ~(<<y, x>> \in R)
    BY <1>2
  <2>2. ~(y < x)
    BY <2>1 DEF R, OpToRel
  <2> QED
    BY <2>1, <2>2
<1> QED
  BY <1>2, <1>3 DEF Min

LEMMA NextCodePointFacts ==
    ASSUME label \in Labels, n \in Nat, Unhandled # {}
    PROVE  /\ NextCodePoint \in n .. MaxScalar
           /\ HandledIn(label, NextCodePoint, 0) = HandledIn(label, n, 0)
<1> DEFINE S == {label[j] : j \in Unhandled}
<1>1. /\ Len(label) \in Nat /\ \A j \in 1 .. Len(label) : label[j] \in 0 .. MaxScalar
      /\ MaxScalar \in Nat /\ InitialN \in Nat
  BY LabelFacts, Constants
<1>2. S \in SUBSET Nat /\ S # {}
  <2>1. \A j \in Unhandled : label[j] \in Nat
    BY <1>1 DEF Unhandled
  <2>2. PICK j \in Unhandled : TRUE
    OBVIOUS
  <2> QED
    BY <2>1, <2>2
<1>3. NextCodePoint = Min(S)
  BY DEF NextCodePoint
<1> HIDE DEF S
<1>4. NextCodePoint \in S /\ \A y \in S : NextCodePoint <= y
  BY <1>2, <1>3, LeastNatural
<1> DEFINE m == NextCodePoint
<1> HIDE DEF m
<1>5. m \in n .. MaxScalar
  BY <1>1, <1>4 DEF m, S, Unhandled
<1>6. \A j \in 1 .. Len(label) : ~IsASCII(label[j]) => (label[j] < m <=> label[j] < n)
  <2> SUFFICES ASSUME NEW j \in 1 .. Len(label), ~IsASCII(label[j])
               PROVE  label[j] < m <=> label[j] < n
    OBVIOUS
  <2>1. label[j] \in Nat
    BY <1>1
  <2>2. label[j] >= n => m <= label[j]
    BY <1>4 DEF S, Unhandled, m
  <2> QED
    BY <1>5, <2>1, <2>2
<1>7. \A j \in 1 .. Len(label) : ~(j <= 0)
  BY <1>1
<1>8. HandledIn(label, m, 0) = HandledIn(label, n, 0)
  BY <1>6, <1>7 DEF HandledIn
<1> QED
  BY <1>5, <1>8 DEF m

\* A pass that is begun has a scalar left: otherwise all would be counted.
LEMMA ScalarLeft ==
    ASSUME IndInv, pc = "pass", handled < Len(label)
    PROVE  Unhandled # {}
<1> SUFFICES ASSUME Unhandled = {} PROVE FALSE
  OBVIOUS
<1>1. /\ Len(label) \in Nat /\ \A j \in 1 .. Len(label) : label[j] \in Nat
      /\ n \in Nat
  BY LabelFacts, Constants DEF IndInv, TypeOK, Word
<1>2. \A j \in 1 .. Len(label) : IsASCII(label[j]) \/ label[j] < n
  BY <1>1 DEF Unhandled
<1>3. HandledIn(label, n, 0) = 1 .. Len(label)
  BY <1>2 DEF HandledIn
<1>4. Cardinality(1 .. Len(label)) = Len(label)
  <2>1. Cardinality(1 .. Len(label)) = IF 1 > Len(label) THEN 0 ELSE Len(label) - 1 + 1
    BY <1>1, FS_Interval
  <2> QED
    BY <1>1, <2>1
<1> QED
  BY <1>1, <1>3, <1>4 DEF IndInv, Counted

LEMMA HandledRange ==
    ASSUME IndInv, pc = "pass" \/ pc \in InPass
    PROVE  handled \in 0 .. Len(label)
<1>1. /\ Len(label) \in Nat /\ \A j \in 1 .. Len(label) : label[j] \in Nat
      /\ n \in Nat /\ pos \in 0 .. Len(label) /\ 0 \in 0 .. Len(label)
  BY LabelFacts, Constants DEF IndInv, TypeOK, Word
<1>2. /\ HandledIn(label, n, 0) \in SUBSET (1 .. Len(label))
      /\ HandledIn(label, n, pos) \in SUBSET (1 .. Len(label))
  BY <1>1, Places
<1>3. /\ Cardinality(HandledIn(label, n, 0)) \in 0 .. Len(label)
      /\ Cardinality(HandledIn(label, n, pos)) \in 0 .. Len(label)
  BY <1>1, <1>2, SubsetCount
<1> QED
  BY <1>3 DEF IndInv, Counted

-----------------------------------------------------------------------------
(* Words that do not wrap. *)

LEMMA ProductMonotone ==
    ASSUME NEW a \in Nat, NEW b \in Nat, NEW c \in Nat, a <= b
    PROVE  /\ c * a \in Nat /\ c * b \in Nat /\ c * a <= c * b
           /\ a * c \in Nat /\ b * c \in Nat /\ a * c <= b * c
<1>1. PICK d \in Nat : b = a + d
  <2>1. b - a \in Nat /\ b = a + (b - a)
    OBVIOUS
  <2> QED
    BY <2>1
<1>2. c * a \in Nat /\ c * d \in Nat /\ c * b = c * a + c * d
  BY <1>1, Products
<1>3. a * c = c * a /\ b * c = c * b
  OBVIOUS
<1> QED
  BY <1>2, <1>3

LEMMA DeltaGrows ==
    ASSUME NEW a \in Nat, NEW x \in Nat, NEW d \in Nat, NEW h \in Nat, NEW L \in Nat,
           a <= x * L, h <= L
    PROVE  d * h \in Nat /\ a + d * h <= (x + d) * L
<1>1. d * h \in Nat /\ d * L \in Nat /\ d * h <= d * L
  BY ProductMonotone
<1>2. (x + d) * L = x * L + d * L /\ x * L \in Nat
  BY Products
<1> QED
  BY <1>1, <1>2

LEMMA NoWrapInPass ==
    ASSUME IndInv, ShortEnough, pc = "pass", handled < Len(label)
    PROVE  LET sum == delta + (NextCodePoint - n) * (handled + 1)
           IN  /\ sum \in Nat /\ sum < WordSize
               /\ sum <= (NextCodePoint - InitialN) * (Len(label) + 1)
               /\ WAdd(delta, WMul((NextCodePoint - n) % WordSize, handled + 1)) = sum
<1> DEFINE x == n - InitialN
           d == NextCodePoint - n
           h == handled + 1
           L == Len(label) + 1
           M == MaxScalar - InitialN
<1>1. NextCodePoint \in n .. MaxScalar
  BY ScalarLeft, NextCodePointFacts, Constants DEF IndInv, TypeOK, Word
<1>2. /\ n \in InitialN .. MaxScalar + 1 /\ InitialN \in Nat /\ MaxScalar \in Nat
      /\ WordSize \in Nat /\ MaxScalar + 1 < WordSize /\ Len(label) \in Nat
      /\ delta \in Nat /\ handled \in Nat /\ delta <= x * L
  BY Constants, LabelFacts DEF IndInv, TypeOK, InRange, Bounded, Word
<1>3. /\ x \in Nat /\ d \in Nat /\ h \in Nat /\ L \in Nat /\ M \in Nat
      /\ h <= L /\ x + d <= M /\ d < WordSize /\ x + d = NextCodePoint - InitialN
  BY <1>1, <1>2
<1>4. (M + 1) * L < WordSize
  BY <1>2 DEF ShortEnough
<1> HIDE DEF x, d, h, L, M
<1>5. d * h \in Nat /\ delta + d * h <= (x + d) * L
  BY <1>2, <1>3, DeltaGrows
<1>6. (x + d) * L \in Nat /\ (x + d) * L <= (M + 1) * L /\ (M + 1) * L \in Nat
  BY <1>3, ProductMonotone
<1>7. delta + d * h \in Nat /\ delta + d * h < WordSize /\ d * h < WordSize
  BY <1>2, <1>4, <1>5, <1>6
<1>8. d % WordSize = d
  BY <1>2, <1>3
<1>9. WMul(d, h) = d * h
  <2> DEFINE p == d * h
  <2>1. p \in Nat /\ p < WordSize
    BY <1>5, <1>7
  <2> HIDE DEF p
  <2>2. p % WordSize = p
    BY <1>2, <2>1
  <2> QED
    BY <2>2 DEF WMul, p
<1>10. WAdd(delta, d * h) = delta + d * h
  <2> DEFINE p == delta + d * h
  <2>1. p \in Nat /\ p < WordSize
    BY <1>7
  <2> HIDE DEF p
  <2>2. p % WordSize = p
    BY <1>2, <2>1
  <2> QED
    BY <2>2 DEF WAdd, p
<1>11. WAdd(delta, WMul(d % WordSize, h)) = delta + d * h
  BY <1>8, <1>9, <1>10
<1>12. delta + d * h <= (NextCodePoint - InitialN) * L
  BY <1>3, <1>5
<1> QED
  BY <1>7, <1>11, <1>12 DEF d, h, L

LEMMA NoWrapInScan ==
    ASSUME IndInv, ShortEnough, pc = "scan"
    PROVE  /\ delta + 1 < WordSize /\ WAdd(delta, 1) = delta + 1
           /\ delta + 1 <= (n + 1 - InitialN) * (Len(label) + 1)
<1> DEFINE x == n - InitialN
           L == Len(label) + 1
           M == MaxScalar - InitialN
<1>1. /\ n \in InitialN .. MaxScalar /\ InitialN \in Nat /\ MaxScalar \in Nat
      /\ WordSize \in Nat /\ Len(label) \in Nat /\ pos \in 0 .. Len(label)
      /\ delta \in Nat /\ delta <= x * L + pos
  BY Constants, LabelFacts DEF IndInv, TypeOK, InRange, Bounded, Word, InPass
<1>2. /\ x \in Nat /\ L \in Nat /\ M \in Nat /\ x + 1 <= M + 1 /\ pos + 1 <= L
      /\ x + 1 = n + 1 - InitialN
  BY <1>1
<1>3. (M + 1) * L < WordSize
  BY <1>1 DEF ShortEnough
<1> HIDE DEF x, L, M
<1>4. (x + 1) * L = x * L + L /\ x * L \in Nat
  BY <1>2, Products
<1>5. (x + 1) * L <= (M + 1) * L /\ (x + 1) * L \in Nat /\ (M + 1) * L \in Nat
  BY <1>2, ProductMonotone
<1>6. delta + 1 <= (x + 1) * L /\ delta + 1 < WordSize
  BY <1>1, <1>2, <1>3, <1>4, <1>5
<1>7. (delta + 1) % WordSize = delta + 1
  BY <1>1, <1>6
<1>8. delta + 1 <= (n + 1 - InitialN) * L
  BY <1>2, <1>6
<1> QED
  BY <1>6, <1>7, <1>8 DEF WAdd, L

-----------------------------------------------------------------------------
(* The invariant. *)

LEMMA InitInv == Init => IndInv
<1> SUFFICES ASSUME Init PROVE IndInv
  OBVIOUS
<1>1. /\ InitialN \in Nat /\ InitialN < WordSize /\ WordSize \in Nat
      /\ Base \in Nat /\ InitialBias \in Nat /\ Len(label) \in Nat
  BY Constants, BootstringAssumption, LabelFacts DEF Init
<1>2. TypeOK
  BY <1>1, ReusedAssumption DEF Init, TypeOK, PCs, Final, Word
<1>3. pc \notin {"basic", "pass", "scan", "digits", "adapt"}
  BY DEF Init
<1>4. Counted /\ InRange /\ Bounded
  BY <1>3 DEF Init, Counted, InRange, Bounded, InPass
<1> QED
  BY <1>2, <1>4 DEF IndInv

\* What every action's step may use.
LEMMA Before ==
    ASSUME IndInv
    PROVE  /\ Len(label) \in Nat /\ pos \in 0 .. Len(label)
           /\ \A j \in 1 .. Len(label) : label[j] \in 0 .. MaxScalar /\ label[j] \in Nat
           /\ n \in Nat /\ delta \in Nat /\ bias \in Nat /\ basics \in Nat /\ handled \in Nat
           /\ q \in Nat /\ k \in Nat /\ spread \in Nat /\ kAdapt \in Nat
           /\ n < WordSize /\ delta < WordSize
           /\ output \in Buffer /\ label \in Labels /\ pc \in PCs
           /\ InitialN \in Nat /\ 1 <= InitialN /\ InitialN <= MaxScalar /\ MaxScalar \in Nat
           /\ WordSize \in Nat /\ MaxScalar + 1 < WordSize
           /\ pos < Len(label) => CodePoint = label[pos + 1] /\ CodePoint \in 0 .. MaxScalar
<1>1. /\ Len(label) \in Nat /\ \A j \in 1 .. Len(label) : label[j] \in 0 .. MaxScalar
      /\ MaxScalar \in Nat /\ pos \in 0 .. Len(label) /\ WordSize \in Nat
  BY LabelFacts, Constants DEF IndInv, TypeOK
<1>2. pos < Len(label) => pos + 1 \in 1 .. Len(label)
  BY <1>1
<1> QED
  BY <1>1, <1>2, Constants DEF IndInv, TypeOK, Word, CodePoint

LEMMA WordSum ==
    ASSUME NEW a \in Nat, NEW b \in Nat
    PROVE  WAdd(a, b) \in Word /\ WAdd(a, b) \in Nat
<1>1. WAdd(a, b) \in Nat /\ WAdd(a, b) < WordSize
  BY WordOps
<1> QED
  BY <1>1, Constants DEF Word

LEMMA StartStep == IndInv /\ Start => IndInv'
<1> SUFFICES ASSUME IndInv, Start PROVE IndInv'
  OBVIOUS
<1>1. output' \in Buffer /\ Count(output') = 0
  BY Before, RemoveCounts DEF Start
<1>2. TypeOK'
  BY <1>1 DEF IndInv, TypeOK, Start, PCs, Final
<1>3. pos = 0 /\ n = InitialN /\ delta = 0
  BY DEF IndInv, InRange, Start
<1>4. Cardinality(ASCIIUpTo(label, 0)) = 0
  <2>1. 0 \in 0 .. Len(label)
    BY Before
  <2>2. ASCIIUpTo(label, 0) = {}
    BY <2>1, Before, Places
  <2> QED
    BY <2>2, FS_EmptySet
<1>5. Counted' /\ InRange' /\ Bounded'
  BY <1>1, <1>3, <1>4 DEF Start, Counted, InRange, Bounded, InPass, ShortEnough
<1> QED
  BY <1>2, <1>5 DEF IndInv

LEMMA CopyASCIIStep == IndInv /\ CopyASCII => IndInv'
<1> SUFFICES ASSUME IndInv, CopyASCII PROVE IndInv'
  OBVIOUS
<1>1. pos < Len(label) /\ CodePoint = label[pos + 1] /\ IsASCII(label[pos + 1])
  BY Before DEF CopyASCII, Scanning
<1>2. CodePoint \in Byte
  <2>1. CodePoint \in 0 .. InitialN - 1
    BY <1>1, Before DEF IsASCII
  <2> QED
    BY <2>1, EncodedBytesAssumption
<1>3. \/ pc' = "undefined" /\ output' = output
      \/ pc' = "basic" /\ output' \in Buffer /\ Count(output') = Count(output) + 1
  BY <1>2, Before, PutOutcomes DEF CopyASCII
<1>4. pos + 1 \in 0 .. Len(label)
  BY <1>1, Before
<1>5. TypeOK'
  BY <1>3, <1>4 DEF IndInv, TypeOK, CopyASCII, PCs, Final
<1>6. Cardinality(ASCIIUpTo(label, pos + 1)) = Cardinality(ASCIIUpTo(label, pos)) + 1
  <2>1. /\ ASCIIUpTo(label, pos) \in SUBSET (1 .. Len(label))
        /\ pos + 1 \notin ASCIIUpTo(label, pos)
        /\ ASCIIUpTo(label, pos + 1) = ASCIIUpTo(label, pos) \cup {pos + 1}
    BY <1>1, Before, Places
  <2> QED
    BY <2>1, Before, OneMore
<1>7. Counted' /\ InRange' /\ Bounded'
  BY <1>3, <1>6 DEF IndInv, CopyASCII, Counted, InRange, Bounded, InPass, ShortEnough
<1> QED
  BY <1>5, <1>7 DEF IndInv

LEMMA SkipNonASCIIStep == IndInv /\ SkipNonASCII => IndInv'
<1> SUFFICES ASSUME IndInv, SkipNonASCII PROVE IndInv'
  OBVIOUS
<1>1. pos < Len(label) /\ ~IsASCII(label[pos + 1])
  BY Before DEF SkipNonASCII, Scanning
<1>2. pos + 1 \in 0 .. Len(label)
  BY <1>1, Before
<1>3. TypeOK'
  BY <1>2 DEF IndInv, TypeOK, SkipNonASCII
<1>4. ASCIIUpTo(label, pos + 1) = ASCIIUpTo(label, pos)
  BY <1>1, Before, Places
<1>5. Counted' /\ InRange' /\ Bounded'
  BY <1>4 DEF IndInv, SkipNonASCII, Counted, InRange, Bounded, InPass, ShortEnough
<1> QED
  BY <1>3, <1>5 DEF IndInv

LEMMA EndASCIIStep == IndInv /\ EndASCII => IndInv'
<1> SUFFICES ASSUME IndInv, EndASCII PROVE IndInv'
  OBVIOUS
<1>1. pos = Len(label) /\ pc = "basic" /\ Count(output) \in Nat
  BY Before, CountType DEF EndASCII, Scanning
<1>2. \/ pc' = "undefined" /\ output' = output
      \/ pc' = "pass" /\ output' \in Buffer
  BY Before, Constants, PutOutcomes DEF EndASCII
<1>3. TypeOK'
  BY <1>1, <1>2 DEF IndInv, TypeOK, EndASCII, PCs, Final
<1>4. n = InitialN /\ delta = 0
  BY <1>1 DEF IndInv, InRange
<1>5. Count(output) = Cardinality(HandledIn(label, InitialN, 0))
  <2>1. ASCIIUpTo(label, Len(label)) = HandledIn(label, InitialN, 0)
    BY <1>1, Before, Places
  <2> QED
    BY <1>1, <2>1 DEF IndInv, Counted
<1>6. InitialN \in InitialN .. MaxScalar + 1 /\ (InitialN - InitialN) * (Len(label) + 1) = 0
  BY Before
<1>7. Counted' /\ InRange' /\ Bounded'
  BY <1>2, <1>4, <1>5, <1>6 DEF EndASCII, Counted, InRange, Bounded, InPass, ShortEnough
<1> QED
  BY <1>3, <1>7 DEF IndInv

LEMMA BeginPassStep == IndInv /\ BeginPass => IndInv'
<1> SUFFICES ASSUME IndInv, BeginPass PROVE IndInv'
  OBVIOUS
<1>1. pc = "pass" /\ handled < Len(label) /\ Unhandled # {}
  BY ScalarLeft DEF BeginPass
<1>2. NextCodePoint \in n .. MaxScalar /\ HandledIn(label, NextCodePoint, 0) = HandledIn(label, n, 0)
  BY <1>1, Before, NextCodePointFacts
<1>3. n \in InitialN .. MaxScalar + 1
  BY <1>1 DEF IndInv, InRange
<1>4. NextCodePoint \in InitialN .. MaxScalar /\ NextCodePoint \in Word /\ 0 \in 0 .. Len(label)
  BY <1>2, <1>3, Before DEF Word
<1>5. delta' \in Word
  <2>1. NextCodePoint - n \in Nat /\ handled + 1 \in Nat
    BY <1>2, Before
  <2>2. (NextCodePoint - n) % WordSize \in Nat
    <3> DEFINE d == NextCodePoint - n
    <3>1. d \in Nat /\ WordSize \in Nat /\ WordSize # 0
      BY <2>1, Before
    <3> HIDE DEF d
    <3>2. d % WordSize \in 0 .. WordSize - 1
      BY <3>1, DivMod
    <3> QED
      BY <3>1, <3>2 DEF d
  <2>3. WMul((NextCodePoint - n) % WordSize, handled + 1) \in Nat
    BY <2>1, <2>2, WordOps
  <2> QED
    BY <2>3, Before, WordSum DEF BeginPass
<1>6. TypeOK'
  BY <1>4, <1>5 DEF IndInv, TypeOK, BeginPass, PCs
<1>7. handled = Cardinality(HandledIn(label, NextCodePoint, 0))
  BY <1>1, <1>2 DEF IndInv, Counted
<1>8. ShortEnough => delta' <= (NextCodePoint - InitialN) * (Len(label) + 1) + 0
  <2> SUFFICES ASSUME ShortEnough
               PROVE  delta' <= (NextCodePoint - InitialN) * (Len(label) + 1) + 0
    OBVIOUS
  <2> DEFINE p == (NextCodePoint - InitialN) * (Len(label) + 1)
  <2>1. delta' <= p
    BY <1>1, NoWrapInPass DEF BeginPass
  <2>2. p \in Nat
    <3>1. NextCodePoint - InitialN \in Nat /\ Len(label) + 1 \in Nat
      BY <1>4, Before
    <3> QED
      BY <3>1, Products
  <2> HIDE DEF p
  <2>3. delta' <= p + 0
    BY <2>1, <2>2
  <2> QED
    BY <2>3 DEF p
<1>9. Counted' /\ InRange'
  BY <1>4, <1>7 DEF BeginPass, Counted, InRange, InPass
<1>10. Bounded'
  BY <1>8 DEF BeginPass, Bounded, InPass, ShortEnough
<1> QED
  BY <1>6, <1>9, <1>10 DEF IndInv

\* The two outcomes of looking at a scalar.
LEMMA PassedOverFacts ==
    ASSUME IndInv, pc = "scan", pos < Len(label)
    PROVE  /\ PassedOver \in Word
           /\ ShortEnough => PassedOver <= delta + 1
           /\ CodePoint = n => PassedOver = delta
<1>1. delta \in Word /\ WAdd(delta, 1) \in Word /\ n \in InitialN .. MaxScalar
  <2>1. WAdd(delta, 1) \in Word
    BY Before, WordSum
  <2> QED
    BY <2>1 DEF IndInv, TypeOK, InRange, InPass
<1>2. ShortEnough => WAdd(delta, 1) = delta + 1
  BY NoWrapInScan
<1>3. CodePoint = n => ~(CodePoint < n) /\ ~IsASCII(CodePoint)
  BY <1>1, Before DEF IsASCII
<1> QED
  BY <1>1, <1>2, <1>3, Before DEF PassedOver

LEMMA PassStep == IndInv /\ Pass => IndInv'
<1> SUFFICES ASSUME IndInv, Pass PROVE IndInv'
  OBVIOUS
<1>1. pc = "scan" /\ pos < Len(label) /\ label[pos + 1] # n /\ pos + 1 \in 0 .. Len(label)
  BY Before DEF Pass, Scanning
<1>2. delta' \in Word /\ (ShortEnough => delta' <= delta + 1) /\ delta' \in Nat
  BY <1>1, PassedOverFacts, Before DEF Pass, Word
<1>3. TypeOK'
  BY <1>1, <1>2 DEF IndInv, TypeOK, Pass
<1>4. HandledIn(label, n, pos + 1) = HandledIn(label, n, pos)
  BY <1>1, Before, Places
<1>5. Counted' /\ InRange'
  BY <1>1, <1>4 DEF IndInv, Pass, Counted, InRange, InPass
<1>6. ShortEnough => delta' <= (n - InitialN) * (Len(label) + 1) + (pos + 1)
  <2> DEFINE p == (n - InitialN) * (Len(label) + 1)
  <2>1. p \in Nat
    <3>1. n \in InitialN .. MaxScalar
      BY <1>1 DEF IndInv, InRange, InPass
    <3>2. n - InitialN \in Nat /\ Len(label) + 1 \in Nat
      BY <3>1, Before
    <3> QED
      BY <3>2, Products
  <2>2. ShortEnough => delta <= p + pos
    BY <1>1 DEF IndInv, Bounded, InPass
  <2>3. delta \in Nat /\ pos \in Nat
    BY Before
  <2> HIDE DEF p
  <2>4. ShortEnough => delta' <= p + (pos + 1)
    BY <1>2, <2>1, <2>2, <2>3
  <2> QED
    BY <2>4 DEF p
<1>7. Bounded'
  BY <1>1, <1>6 DEF Pass, Bounded, InPass, ShortEnough
<1> QED
  BY <1>3, <1>5, <1>7 DEF IndInv

LEMMA MeetStep == IndInv /\ Meet => IndInv'
<1> SUFFICES ASSUME IndInv, Meet PROVE IndInv'
  OBVIOUS
<1>1. pc = "scan" /\ pos < Len(label) /\ label[pos + 1] = n
  BY Before DEF Meet, Scanning
<1>2. delta' = delta
  BY <1>1, PassedOverFacts, Before DEF Meet
<1>3. Base \in Nat
  BY BootstringAssumption
<1>4. TypeOK'
  BY <1>2, <1>3, Before DEF IndInv, TypeOK, Meet, PCs
<1>5. Counted' /\ InRange' /\ Bounded'
  BY <1>1, <1>2 DEF IndInv, Meet, Counted, InRange, Bounded, InPass, ShortEnough
<1> QED
  BY <1>4, <1>5 DEF IndInv

LEMMA EndPassStep == IndInv /\ EndPass => IndInv'
<1> SUFFICES ASSUME IndInv, EndPass PROVE IndInv'
  OBVIOUS
<1>1. pc = "scan" /\ pos = Len(label) /\ n \in InitialN .. MaxScalar
  BY Before DEF EndPass, Scanning, IndInv, InRange, InPass
<1>2. WAdd(n, 1) = n + 1 /\ n + 1 \in InitialN .. MaxScalar + 1 /\ n + 1 \in Word
  <2>1. n + 1 < WordSize /\ n + 1 \in Nat
    BY <1>1, Before
  <2>2. (n + 1) % WordSize = n + 1
    <3> DEFINE m == n + 1
    <3>1. m \in Nat /\ m < WordSize /\ WordSize \in Nat
      BY <2>1, Before
    <3> HIDE DEF m
    <3>2. m % WordSize = m
      BY <3>1
    <3> QED
      BY <3>2 DEF m
  <2> QED
    BY <1>1, <2>1, <2>2, Before DEF WAdd, Word
<1>3. WAdd(delta, 1) \in Word
  BY Before, WordSum
<1>4. TypeOK'
  BY <1>2, <1>3 DEF IndInv, TypeOK, EndPass, PCs
<1>5. HandledIn(label, n + 1, 0) = HandledIn(label, n, Len(label))
  BY <1>1, Before, Places
<1>6. ShortEnough => WAdd(delta, 1) <= (n + 1 - InitialN) * (Len(label) + 1)
  BY <1>1, NoWrapInScan
<1>7. Counted' /\ InRange'
  BY <1>1, <1>2, <1>5 DEF IndInv, EndPass, Counted, InRange, InPass
<1>8. Bounded'
  BY <1>2, <1>6, Before DEF EndPass, Bounded, InPass, ShortEnough
<1> QED
  BY <1>4, <1>7, <1>8 DEF IndInv

\* A digit that is not the last one, and what is left of the integer.
LEMMA DigitInRange ==
    ASSUME IndInv, WriteDigit
    PROVE  Digit \in 0 .. Base - 1 /\ Quotient \in Nat
<1> DEFINE t == T(k, bias)
           rest == q - t
           room == Base - t
<1>1. t \in 1 .. Base - 1 /\ Base \in Nat
  BY Before, ThresholdRange, BootstringAssumption
<1>2. rest \in Nat /\ room \in Nat /\ room # 0 /\ t + room = Base
  <2>1. q \in Nat /\ q >= t
    BY Before DEF WriteDigit
  <2> HIDE DEF t
  <2> QED
    BY <1>1, <2>1
<1>3. Digit = t + (rest % room) /\ Quotient = rest \div room
  BY DEF Digit, Quotient
<1> HIDE DEF t, rest, room
<1>4. rest % room \in 0 .. room - 1 /\ rest \div room \in Nat
  BY <1>2, DivMod
<1> QED
  BY <1>1, <1>2, <1>3, <1>4

LEMMA WriteDigitStep == IndInv /\ WriteDigit => IndInv'
<1> SUFFICES ASSUME IndInv, WriteDigit PROVE IndInv'
  OBVIOUS
<1>1. Digit \in 0 .. Base - 1 /\ Quotient \in Nat
  BY DigitInRange
<1>2. Base \in Nat
  BY BootstringAssumption
<1>3. \/ pc' = "undefined" /\ output' = output
      \/ pc' = "digits" /\ output' \in Buffer
  BY <1>1, DigitBytes, Before, PutOutcomes DEF WriteDigit
<1>4. k + Base \in Nat
  BY <1>2, Before
<1>5. TypeOK'
  BY <1>1, <1>3, <1>4, Before DEF IndInv, TypeOK, WriteDigit, PCs, Final
<1>6. Counted' /\ InRange' /\ Bounded'
  BY <1>3 DEF IndInv, WriteDigit, Counted, InRange, Bounded, InPass, ShortEnough
<1> QED
  BY <1>5, <1>6 DEF IndInv

LEMMA WriteLastDigitStep == IndInv /\ WriteLastDigit => IndInv'
<1> SUFFICES ASSUME IndInv, WriteLastDigit PROVE IndInv'
  OBVIOUS
<1>1. q \in 0 .. Base - 1
  <2>1. T(k, bias) \in 1 .. Base - 1 /\ Base \in Nat
    BY Before, ThresholdRange, BootstringAssumption
  <2> QED
    BY <2>1, Before DEF WriteLastDigit
<1>2. \/ pc' = "undefined" /\ output' = output
      \/ pc' = "adapt" /\ output' \in Buffer
  BY <1>1, DigitBytes, Before, PutOutcomes DEF WriteLastDigit
<1>3. spread' \in Nat
  <2>1. handled + 1 \in Nat /\ handled + 1 # 0 /\ (handled = basics) \in BOOLEAN
    BY Before
  <2> QED
    BY <2>1, Before, SpreadType DEF WriteLastDigit
<1>4. TypeOK'
  BY <1>2, <1>3, Before DEF IndInv, TypeOK, WriteLastDigit, PCs, Final
<1>5. Counted' /\ InRange' /\ Bounded'
  BY <1>2 DEF IndInv, WriteLastDigit, Counted, InRange, Bounded, InPass, ShortEnough
<1> QED
  BY <1>4, <1>5 DEF IndInv

LEMMA AdaptLoopStep == IndInv /\ AdaptLoop => IndInv'
<1> SUFFICES ASSUME IndInv, AdaptLoop PROVE IndInv'
  OBVIOUS
<1>1. spread' \in Nat /\ kAdapt' \in Nat
  <2>1. kAdapt + Base \in Nat
    <3>1. Base \in Nat
      BY BootstringAssumption
    <3> QED
      BY <3>1, Before
  <2> QED
    BY <2>1, Before, AdaptLoopType DEF AdaptLoop
<1>2. TypeOK'
  BY <1>1 DEF IndInv, TypeOK, AdaptLoop
<1>3. Counted' /\ InRange' /\ Bounded'
  BY DEF IndInv, AdaptLoop, Counted, InRange, Bounded, InPass, ShortEnough
<1> QED
  BY <1>2, <1>3 DEF IndInv

LEMMA AdaptedStep == IndInv /\ Adapted => IndInv'
<1> SUFFICES ASSUME IndInv, Adapted PROVE IndInv'
  OBVIOUS
<1>1. /\ pc = "adapt" /\ pos < Len(label) /\ label[pos + 1] = n
      /\ n \in InitialN .. MaxScalar /\ pos + 1 \in 0 .. Len(label)
  <2>1. pc = "adapt"
    BY DEF Adapted
  <2>2. pos < Len(label) /\ label[pos + 1] = n /\ n \in InitialN .. MaxScalar
    BY <2>1 DEF IndInv, InRange, InPass
  <2> QED
    BY <2>1, <2>2, Before
<1>2. bias' \in Nat /\ 0 \in Word /\ handled + 1 \in Nat
  <2>1. 0 \in Word /\ handled + 1 \in Nat
    BY Before DEF Word
  <2> QED
    BY <2>1, Before, AdaptedBiasType DEF Adapted
<1>3. TypeOK'
  BY <1>1, <1>2 DEF IndInv, TypeOK, Adapted, PCs
<1>4. handled + 1 = Cardinality(HandledIn(label, n, pos + 1))
  <2>1. /\ HandledIn(label, n, pos) \in SUBSET (1 .. Len(label))
        /\ pos + 1 \notin HandledIn(label, n, pos)
        /\ HandledIn(label, n, pos + 1) = HandledIn(label, n, pos) \cup {pos + 1}
    <3>1. n >= InitialN /\ Len(label) \in Nat /\ n \in Nat /\ pos \in 0 .. Len(label)
          /\ \A j \in 1 .. Len(label) : label[j] \in Nat
      BY <1>1, Before
    <3> QED
      BY <1>1, <3>1, Places
  <2>2. Cardinality(HandledIn(label, n, pos + 1)) = Cardinality(HandledIn(label, n, pos)) + 1
    BY <2>1, Before, OneMore
  <2> QED
    BY <1>1, <2>2 DEF IndInv, Counted, InPass
<1>5. 0 <= (n - InitialN) * (Len(label) + 1) + (pos + 1)
  <2> DEFINE p == (n - InitialN) * (Len(label) + 1)
  <2>1. n - InitialN \in Nat /\ Len(label) + 1 \in Nat
    BY <1>1, Before
  <2>2. p \in Nat
    BY <2>1, Products
  <2> HIDE DEF p
  <2>3. 0 <= p + (pos + 1)
    BY <2>2, Before
  <2> QED
    BY <2>3 DEF p
<1>6. Counted' /\ InRange' /\ Bounded'
  BY <1>1, <1>4, <1>5 DEF IndInv, Adapted, Counted, InRange, Bounded, InPass, ShortEnough
<1> QED
  BY <1>3, <1>6 DEF IndInv

LEMMA ReturnStep == IndInv /\ Return => IndInv'
<1> SUFFICES ASSUME IndInv, Return PROVE IndInv'
  OBVIOUS
<1>1. TypeOK'
  BY DEF IndInv, TypeOK, Return, PCs, Final
<1>2. Counted' /\ InRange' /\ Bounded'
  BY DEF Return, Counted, InRange, Bounded, InPass, ShortEnough
<1> QED
  BY <1>1, <1>2 DEF IndInv

LEMMA StutterStep == IndInv /\ UNCHANGED vars => IndInv'
  BY DEF IndInv, TypeOK, Counted, InRange, Bounded, InPass, ShortEnough, vars

LEMMA StepInv == IndInv /\ [Next]_vars => IndInv'
  BY StartStep, CopyASCIIStep, SkipNonASCIIStep, EndASCIIStep, BeginPassStep, PassStep,
     MeetStep, EndPassStep, WriteDigitStep, WriteLastDigitStep, AdaptLoopStep, AdaptedStep,
     ReturnStep, StutterStep
  DEF Next

THEOREM Invariant == Spec => []IndInv
  BY InitInv, StepInv, PTL DEF Spec

-----------------------------------------------------------------------------

\* The state keeps its types: in particular what is appended always leaves
\* a buffer in one of its representations, until an append past the tuple.
THEOREM TypeCorrect == Spec => []TypeOK
<1>1. IndInv => TypeOK
  BY DEF IndInv
<1> QED
  BY <1>1, Invariant, PTL

\* A pass of `encode` that is begun finds a scalar that is not handled yet,
\* whatever the label: UInt32.max, with which the search for the lowest
\* starts, is never taken for one.
THEOREM PassAlwaysFindsScalar == Spec => []PassFindsScalar
<1>1. IndInv => PassFindsScalar
  BY ScalarLeft DEF PassFindsScalar
<1> QED
  BY <1>1, Invariant, PTL

\* No addition to delta wraps while MaxScalar - InitialN + 1 times the
\* label's length and one stays below the word.
THEOREM DeltaDoesNotWrap == Spec => []DeltaNeverWraps
<1>1. IndInv => DeltaNeverWraps
  BY NoWrapInPass, NoWrapInScan DEF DeltaNeverWraps
<1> QED
  BY <1>1, Invariant, PTL

-----------------------------------------------------------------------------
(* The scalars of a label that are handled, place by place. *)

LEMMA KeptAll ==
    ASSUME NEW S, NEW s \in Seq(S)
    PROVE  Kept(s, 1 .. Len(s))[Len(s)] = s
<1> DEFINE K == Kept(s, 1 .. Len(s))
           Whole == {j \in 0 .. Len(s) : Len(K[j]) = j /\ \A l \in 1 .. j : K[j][l] = s[l]}
<1>1. Len(s) \in Nat /\ \A j \in 1 .. Len(s) : s[j] \in S
  BY LenProperties, ElementOfSeq
<1>2. K[0] = <<>> /\ \A j \in 0 .. Len(s) : j + 1 <= Len(s) => K[j + 1] = Append(K[j], s[j + 1])
  <2>1. \A j \in 0 .. Len(s) : j + 1 <= Len(s) => j + 1 \in 1 .. Len(s)
    BY <1>1
  <2> QED
    BY <1>1, <2>1, KeptIs
<1>3. \A j \in 0 .. Len(s) : K[j] \in Seq(S)
  BY <1>1, KeptType
<1> HIDE DEF K
<1>4. 0 \in Whole
  BY <1>1, <1>2
<1>5. \A j \in 0 .. Len(s) : j + 1 <= Len(s) /\ j \in Whole => j + 1 \in Whole
  <2> SUFFICES ASSUME NEW j \in 0 .. Len(s), j + 1 <= Len(s), Len(K[j]) = j,
                      \A l \in 1 .. j : K[j][l] = s[l]
               PROVE  j + 1 \in Whole
    OBVIOUS
  <2>1. K[j] \in Seq(S) /\ s[j + 1] \in S /\ j + 1 \in 0 .. Len(s)
    BY <1>1, <1>3
  <2>2. /\ Len(Append(K[j], s[j + 1])) = j + 1
        /\ \A l \in 1 .. j : Append(K[j], s[j + 1])[l] = K[j][l]
        /\ Append(K[j], s[j + 1])[j + 1] = s[j + 1]
    BY <2>1, AppendProperties
  <2>3. \A l \in 1 .. j + 1 : l \in 1 .. j \/ l = j + 1
    OBVIOUS
  <2> QED
    BY <1>2, <2>1, <2>2, <2>3
<1> HIDE DEF Whole
<1>6. \A j \in 0 .. Len(s) : j \in Whole
  BY <1>1, <1>4, <1>5, StepByStep
<1>7. Len(K[Len(s)]) = Len(s) /\ \A l \in 1 .. Len(s) : K[Len(s)][l] = s[l]
  BY <1>1, <1>6 DEF Whole
<1>8. K[Len(s)] \in Seq(S)
  BY <1>1, <1>3
<1>9. K[Len(s)] = s
  BY <1>7, <1>8, SeqEqual
<1> QED
  BY <1>9 DEF K

\* One place more inserts its scalar.
LEMMA KeptInsert ==
    ASSUME NEW S, NEW s \in Seq(S), NEW P, NEW x \in 1 .. Len(s), x \notin P
    PROVE  /\ Kept(s, P \cup {x})[x] = Append(Kept(s, P)[x], s[x])
           /\ Kept(s, P \cup {x})[Len(s)]
                = Splice(Kept(s, P)[Len(s)], Len(Kept(s, P)[x]), <<s[x]>>)
           /\ Len(Kept(s, P)[x]) \in 0 .. Len(Kept(s, P)[Len(s)])
           /\ Kept(s, P)[x] = Kept(s, P)[x - 1]
<1> DEFINE Q == P \cup {x}
           at == Len(Kept(s, P)[x])
           t == <<s[x]>>
           Spliced == {j \in x .. Len(s) : Kept(s, Q)[j] = Splice(Kept(s, P)[j], at, t)}
<1>1. Len(s) \in Nat /\ \A j \in 1 .. Len(s) : s[j] \in S
  BY LenProperties, ElementOfSeq
<1>2. \A j \in 0 .. Len(s) : Kept(s, P)[j] \in Seq(S) /\ Len(Kept(s, P)[j]) \in Nat
  BY <1>1, KeptType, LenProperties
<1>3. \A j \in x .. Len(s) : at \in 0 .. Len(Kept(s, P)[j])
  <2>1. x \in 0 .. Len(s)
    OBVIOUS
  <2>2. \A j \in x .. Len(s) : at <= Len(Kept(s, P)[j])
    BY <2>1, KeptGrows
  <2>3. \A j \in x .. Len(s) : j \in 0 .. Len(s)
    BY <1>1
  <2> QED
    BY <1>2, <2>1, <2>2, <2>3
<1>4. /\ Kept(s, P)[x] = Kept(s, P)[x - 1]
      /\ Kept(s, Q)[x] = Append(Kept(s, P)[x], s[x])
  <2>1. x - 1 \in 0 .. Len(s) /\ (x - 1) + 1 = x /\ x <= Len(s) /\ x \in Q
    BY <1>1
  <2>2. Kept(s, P)[x] = Kept(s, P)[x - 1]
    BY <1>1, <2>1, KeptIs
  <2>3. Kept(s, Q)[x] = Append(Kept(s, Q)[x - 1], s[x])
    <3> HIDE DEF Q
    <3> DEFINE y == x - 1
    <3>1. y \in 0 .. Len(s) /\ y + 1 = x /\ y + 1 <= Len(s)
      BY <2>1
    <3> HIDE DEF y
    <3>2. Kept(s, Q)[y + 1] = IF y + 1 \in Q THEN Append(Kept(s, Q)[y], s[y + 1]) ELSE Kept(s, Q)[y]
      BY <1>1, <3>1, KeptIs
    <3>3. Kept(s, Q)[x] = Append(Kept(s, Q)[y], s[x])
      BY <2>1, <3>1, <3>2
    <3> QED
      BY <3>3 DEF y
  <2>4. Kept(s, Q)[x - 1] = Kept(s, P)[x - 1]
    <3> DEFINE y == x - 1
    <3>1. y \in 0 .. Len(s) /\ \A j \in 1 .. y : j \in Q <=> j \in P
      BY <1>1, <2>1
    <3> HIDE DEF Q, y
    <3>2. Kept(s, Q)[y] = Kept(s, P)[y]
      BY <1>1, <3>1, KeptSame
    <3> QED
      BY <3>2 DEF y
  <2> QED
    BY <2>2, <2>3, <2>4
<1>5. \A j \in x .. Len(s) : s[x] \in S
  BY <1>1
<1>6. x \in Spliced
  <2>1. x \in x .. Len(s) /\ Kept(s, P)[x] \in Seq(S) /\ s[x] \in S
    BY <1>1, <1>2
  <2>2. at \in 0 .. at
    BY <1>1, <1>2
  <2>3. Splice(Kept(s, P)[x], at, t) = Append(Kept(s, P)[x], s[x])
    BY <2>1, <2>2, SpliceAppend
  <2> QED
    BY <1>4, <2>1, <2>3
<1>7. \A j \in x .. Len(s) : j + 1 <= Len(s) /\ j \in Spliced => j + 1 \in Spliced
  <2> SUFFICES ASSUME NEW j \in x .. Len(s), j + 1 <= Len(s),
                      Kept(s, Q)[j] = Splice(Kept(s, P)[j], at, t)
               PROVE  j + 1 \in Spliced
    OBVIOUS
  <2>1. j \in 0 .. Len(s) /\ j + 1 \in x .. Len(s) /\ s[j + 1] \in S /\ s[x] \in S /\ j + 1 # x
    BY <1>1
  <2>2. j + 1 \in Q <=> j + 1 \in P
    BY <2>1
  <2>3. /\ Kept(s, P)[j + 1] = IF j + 1 \in P THEN Append(Kept(s, P)[j], s[j + 1])
                               ELSE Kept(s, P)[j]
        /\ Kept(s, Q)[j + 1] = IF j + 1 \in Q THEN Append(Kept(s, Q)[j], s[j + 1])
                               ELSE Kept(s, Q)[j]
    <3> HIDE DEF Q
    <3> QED
      BY <1>1, <2>1, KeptIs
  <2>4. Append(Splice(Kept(s, P)[j], at, t), s[j + 1]) = Splice(Append(Kept(s, P)[j], s[j + 1]), at, t)
    <3>1. at \in 0 .. Len(Kept(s, P)[j]) /\ Kept(s, P)[j] \in Seq(S)
      BY <1>2, <1>3, <2>1
    <3> DEFINE u == Kept(s, P)[j]
               c == s[x]
               d == s[j + 1]
    <3>2. u \in Seq(S) /\ at \in 0 .. Len(u) /\ c \in S /\ d \in S
      BY <2>1, <3>1
    <3> HIDE DEF at, u, c, d
    <3>3. Append(Splice(u, at, <<c>>), d) = Splice(Append(u, d), at, <<c>>)
      BY <3>2, SpliceAppend
    <3> QED
      BY <3>3 DEF u, c, d
  <2> HIDE DEF Q, at, t
  <2>5. Kept(s, Q)[j + 1] = Splice(Kept(s, P)[j + 1], at, t)
    BY <2>2, <2>3, <2>4
  <2> QED
    BY <2>1, <2>5
<1> HIDE DEF Spliced
<1>8. \A j \in x .. Len(s) : j \in Spliced
  <2>1. x \in Nat
    BY <1>1
  <2> QED
    BY <1>1, <1>6, <1>7, <2>1, StepByStep
<1>9. Len(s) \in x .. Len(s)
  BY <1>1
<1> QED
  BY <1>3, <1>4, <1>8, <1>9 DEF Spliced

-----------------------------------------------------------------------------
(***************************************************************************)
(* The call and the RFC's decoder.  What is written so far, read by the    *)
(* RFC's decoder, brings it to the state it inserts the next scalar from:  *)
(* delta is what is missing to the places up to n and the scalar at hand,  *)
(* and in the middle of an integer q at the weight reached is.             *)
(***************************************************************************)
Written == Contents(output)
Skipped == IF basics = 0 THEN 0 ELSE basics + 1
Reached == RFCState(Written, Skipped)[Len(Written)]

InOrder(m, p) == Kept(label, HandledIn(label, m, p))

\* The ASCII code points and a delimiter, if there are any, and digits.
LaidOut ==
    /\ Skipped <= Len(Written)
    /\ \A j \in 1 .. Len(Written) : IsASCII(Written[j])
    /\ basics # 0 => Written[Skipped] = Hyphen
    /\ \A j \in Skipped + 1 .. Len(Written) : Written[j] # Hyphen

\* Between two integers.
Rests(st, scalars) ==
    st.kind = "reading" /\ st.oldi = st.i /\ st.w = 1 /\ st.k = Base /\ st.out = scalars

\* Ready to insert; the delta of the first insertion is damped more.
Ready(st) ==
    /\ st.n <= n /\ st.bias = bias /\ Len(st.out) = handled
    /\ basics <= handled /\ (st.oldi = 0 <=> handled = basics)

\* The places from the state up to the value n and the place `at`.
Distance(st, at) == (n - st.n) * (handled + 1) + at

BeforePass(st) ==
    /\ Ready(st) /\ Rests(st, InOrder(n, 0)[Len(label)])
    /\ st.i + delta = Distance(st, 0)

InScan(st) ==
    /\ Ready(st) /\ Rests(st, InOrder(n, pos)[Len(label)])
    /\ st.i + delta = Distance(st, Len(InOrder(n, pos)[pos]))

AmongDigits(st) ==
    /\ Ready(st) /\ st.kind = "reading" /\ st.k = k
    /\ st.out = InOrder(n, pos)[Len(label)]
    /\ st.oldi + delta = Distance(st, Len(InOrder(n, pos)[pos]))
    /\ st.i + q * st.w = st.oldi + delta

Inserted(st) ==
    /\ Rests(st, InOrder(n, pos + 1)[Len(label)])
    /\ st.n = n /\ st.i = Len(InOrder(n, pos)[pos]) + 1
    /\ st.bias = kAdapt + RFCReduce(spread)
    /\ Len(st.out) = handled + 1 /\ basics <= handled

Arrived ==
    /\ pc = "pass" => BeforePass(Reached)
    /\ pc = "scan" => InScan(Reached)
    /\ pc = "digits" => AmongDigits(Reached)
    /\ pc = "adapt" => Inserted(Reached)
    /\ pc = "done" => Rests(Reached, label)

Follows ==
    /\ pc \in {"start", "basic"} => bias = InitialBias
    /\ CountInBounds(output) =>
        /\ pc # "start" => GoodBuffer(output)
        /\ pc = "basic" => Written = InOrder(0, 0)[pos]
        /\ pc \in {"pass", "done"} \cup InPass => LaidOut /\ (ShortEnough => Arrived)

-----------------------------------------------------------------------------
(* What an append does to the bytes and to the decoder that reads them. *)

LEMMA PutReads ==
    ASSUME IndInv, CountInBounds(output) => GoodBuffer(output),
           NEW e \in Byte, NEW next, Put(e, next), CountInBounds(output')
    PROVE  /\ pc' = next /\ CountInBounds(output) /\ GoodBuffer(output')
           /\ Written' = Append(Written, e)
           /\ Written \in Seq(Byte) /\ Len(Written) = Count(output)
<1>1. output \in Buffer
  BY Before
<1>2. ~WritesPastTuple(output)
  <2>1. WritesPastTuple(output) => output' = output
    BY DEF Put
  <2>2. WritesPastTuple(output) => ~CountInBounds(output)
    <3> SUFFICES ASSUME IsInline(output), output.cells[CountCell] > InlineCapacity,
                        output.cells[CountCell] <= InlineCapacity
                 PROVE  FALSE
      BY DEF WritesPastTuple, CountInBounds
    <3>1. Count(output) \in Nat /\ Count(output) = output.cells[CountCell]
      BY <1>1, CountType DEF Count
    <3> QED
      BY <3>1, InlineCapacityAssumption
  <2> QED
    BY <2>1, <2>2
<1>3. pc' = next /\ output' = AppendUnchecked(output, e)
  BY <1>2 DEF Put
<1>4. Count(output') = Count(output) + 1 /\ Count(output) \in Nat
  BY <1>1, <1>2, <1>3, AppendCounts, CountType
<1>5. IsInline(output) <=> IsInline(output')
  BY <1>3 DEF AppendUnchecked, IsInline, Inline, Heap
<1>6. CountInBounds(output) /\ HasRoomForOne(output)
  <2>1. IsInline(output) => /\ Count(output) = output.cells[CountCell]
                            /\ Count(output') = output'.cells[CountCell]
    BY <1>5 DEF Count
  <2>2. IsInline(output) => output'.cells[CountCell] <= InlineCapacity
    BY <1>5 DEF CountInBounds
  <2>3. IsInline(output) => output.cells[CountCell] < InlineCapacity
    BY <1>4, <2>1, <2>2, InlineCapacityAssumption
  <2> QED
    BY <1>4, <2>1, <2>3, InlineCapacityAssumption DEF CountInBounds, HasRoomForOne
<1>7. GoodBuffer(output)
  BY <1>6
<1> DEFINE t == <<e>>
<1>8. t \in Seq(Byte) /\ Len(t) = 1 /\ t[1] = e
  OBVIOUS
<1>9. Contents(output) \in Seq(Byte) /\ Count(output) = Len(Contents(output))
  BY <1>7, ContentsType
<1>10. Contents(output) \o t = Append(Contents(output), e)
  BY <1>9, AppendIsConcat
<1> HIDE DEF t
<1>11. GoodBuffer(AppendUnchecked(output, t[1]))
       /\ Contents(AppendUnchecked(output, t[1])) = Contents(output) \o t
  BY <1>6, <1>7, <1>8, AppendUncheckedReads
<1> QED
  BY <1>3, <1>6, <1>8, <1>9, <1>10, <1>11 DEF Written

\* The state reached is one the RFC's decoder can be in.
LEMMA ReachedFacts ==
    ASSUME IndInv, GoodBuffer(output), LaidOut
    PROVE  /\ GoodState(Reached) /\ Skipped \in 0 .. Len(Written)
           /\ Written \in Seq(Byte) /\ Written \in Seq(Nat) /\ Len(Written) \in Nat
<1>1. Written \in Seq(Byte)
  BY ContentsType DEF Written
<1>2. Written \in Seq(Nat) /\ Len(Written) \in Nat
  <2>1. Len(Written) \in Nat /\ Written = [j \in 1 .. Len(Written) |-> Written[j]]
    BY <1>1, LenProperties
  <2>2. \A j \in 1 .. Len(Written) : Written[j] \in Nat
    BY <1>1, ElementOfSeq, ByteAssumption
  <2> QED
    BY <2>1, <2>2
<1>3. Skipped \in 0 .. Len(Written)
  BY <1>2, Before DEF LaidOut, Skipped
<1>4. GoodState(Reached)
  <2>1. Len(Written) \in Skipped .. Len(Written)
    BY <1>2, <1>3
  <2> QED
    BY <1>2, <1>3, <2>1, StatesAreGood DEF Reached
<1> QED
  BY <1>1, <1>2, <1>3, <1>4

\* A digit written is read.
LEMMA DigitRuns ==
    ASSUME IndInv, Follows, pc = "digits", NEW d \in 0 .. Base - 1, NEW next,
           Put(ByteOfDigit(d), next), basics' = basics, CountInBounds(output')
    PROVE  /\ pc' = next /\ CountInBounds(output) /\ GoodBuffer(output)
           /\ GoodBuffer(output') /\ LaidOut /\ LaidOut'
           /\ Reached' = RFCRead(Reached, ByteOfDigit(d))
<1> DEFINE e == ByteOfDigit(d)
<1>1. e \in Byte /\ e \in Nat /\ e # Hyphen /\ IsASCII(e)
  <2>1. e \in 0 .. InitialN - 1 /\ InitialN \in Nat
    BY DigitComesBack, Constants
  <2>2. IsASCII(e) /\ e \in Nat
    <3> HIDE DEF e
    <3> QED
      BY <2>1 DEF IsASCII
  <2> QED
    BY <2>2, DigitBytes, DigitComesBack
<1>2. CountInBounds(output) => GoodBuffer(output)
  BY DEF Follows
<1> HIDE DEF e
<1>3. /\ pc' = next /\ CountInBounds(output) /\ GoodBuffer(output')
      /\ Written' = Append(Written, e)
  <2>1. Put(e, next)
    BY DEF e
  <2> QED
    BY <1>1, <1>2, <2>1, PutReads
<1>4. GoodBuffer(output) /\ LaidOut
  BY <1>3 DEF Follows, InPass
<1>5. Skipped \in 0 .. Len(Written) /\ Written \in Seq(Nat) /\ Len(Written) \in Nat
  BY <1>4, ReachedFacts
<1>6. Skipped' = Skipped
  BY DEF Skipped
<1>7. /\ Len(Append(Written, e)) = Len(Written) + 1
      /\ Append(Written, e)[Len(Written) + 1] = e
      /\ \A j \in 1 .. Len(Written) : Append(Written, e)[j] = Written[j]
  BY <1>1, <1>5, AppendProperties
<1>8. Reached' = RFCRead(Reached, e)
  <2>1. RFCState(Append(Written, e), Skipped)[Len(Written) + 1]
          = RFCRead(RFCState(Written, Skipped)[Len(Written)], e)
    BY <1>1, <1>5, StateOfAppended
  <2>2. Reached' = RFCState(Written', Skipped')[Len(Written')]
    BY DEF Reached
  <2> QED
    BY <1>3, <1>6, <1>7, <2>1, <2>2 DEF Reached
<1>9. LaidOut'
  <2> DEFINE W == Append(Written, e)
             s == Skipped
             b == basics
  <2>1. s <= Len(W) /\ (b # 0 => s # 0)
    <3>1. b # 0 => s # 0
      BY Before DEF Skipped
    <3> QED
      BY <1>5, <1>7, <3>1
  <2>2. \A j \in 1 .. Len(W) : IsASCII(W[j])
    <3>1. \A j \in 1 .. Len(W) : j \in 1 .. Len(Written) \/ j = Len(Written) + 1
      BY <1>5, <1>7
    <3> QED
      BY <1>1, <1>4, <1>7, <3>1 DEF LaidOut
  <2>3. b # 0 => W[s] = Hyphen
    <3>1. b # 0 => s \in 1 .. Len(Written)
      BY <1>5, <2>1
    <3> QED
      BY <1>4, <1>7, <3>1 DEF LaidOut
  <2>4. \A j \in s + 1 .. Len(W) : W[j] # Hyphen
    <3> SUFFICES ASSUME NEW j \in s + 1 .. Len(W) PROVE W[j] # Hyphen
      OBVIOUS
    <3>1. \/ j = Len(Written) + 1
          \/ j \in s + 1 .. Len(Written) /\ j \in 1 .. Len(Written)
      BY <1>5, <1>7
    <3> QED
      BY <1>1, <1>4, <1>7, <3>1 DEF LaidOut
  <2> HIDE DEF W, s, b
  <2>5. Written' = W /\ Skipped' = s /\ basics' = b
    BY <1>3, <1>6 DEF W, s, b
  <2> QED
    BY <2>1, <2>2, <2>3, <2>4, <2>5 DEF LaidOut
<1> QED
  BY <1>3, <1>4, <1>8, <1>9 DEF e

\* Where nothing is written, nothing is read.
LEMMA NothingWritten ==
    ASSUME output' = output, basics' = basics
    PROVE  /\ Written' = Written /\ Skipped' = Skipped /\ Reached' = Reached
           /\ LaidOut' <=> LaidOut
<1>1. Written' = Written /\ Skipped' = Skipped
  BY DEF Written, Skipped
<1> QED
  BY <1>1 DEF Reached, LaidOut

-----------------------------------------------------------------------------
(* Numbers. *)

\* The quotient and the remainder of a sum that is written out.
LEMMA WrittenOut ==
    ASSUME NEW x \in Nat, NEW m \in Nat, NEW at \in 0 .. m - 1
    PROVE  /\ x * m + at \in Nat
           /\ (x * m + at) \div m = x /\ (x * m + at) % m = at
<1> DEFINE s == x * m + at
           d == s \div m
           r == s % m
<1>1. m # 0 /\ x * m \in Nat
  BY Products
<1>2. s \in Nat
  BY <1>1
<1> HIDE DEF s
<1>3. d \in Nat /\ r \in 0 .. m - 1 /\ s = m * d + r
  BY <1>1, <1>2
<1> HIDE DEF d, r
<1>4. m * d \in Nat /\ x * m + at = m * d + r
  BY <1>3, Products DEF s
<1>5. ~(x < d)
  <2> SUFFICES ASSUME x + 1 <= d PROVE FALSE
    BY <1>3
  <2>1. (x + 1) * m <= d * m
    BY <1>3, ProductMonotone
  <2>2. (x + 1) * m = x * m + m /\ d * m = m * d
    BY <1>3
  <2> QED
    BY <1>1, <1>3, <1>4, <2>1, <2>2
<1>6. ~(d < x)
  <2> SUFFICES ASSUME d + 1 <= x PROVE FALSE
    BY <1>3
  <2>1. (d + 1) * m <= x * m
    BY <1>3, ProductMonotone
  <2>2. (d + 1) * m = m * d + m
    BY <1>3
  <2> QED
    BY <1>1, <1>3, <1>4, <2>1, <2>2
<1>7. d = x
  BY <1>3, <1>5, <1>6
<1>8. r = at
  <2>1. m * d = x * m
    BY <1>7
  <2> QED
    BY <1>1, <1>3, <1>4, <2>1
<1> QED
  BY <1>2, <1>7, <1>8 DEF s, d, r

\* What a digit that is not the last takes off.
LEMMA DigitAndRest ==
    ASSUME NEW x \in Nat, NEW t \in Nat, NEW room \in Nat, room # 0, t <= x, NEW w0 \in Nat
    PROVE  LET d == t + ((x - t) % room)
               rest == (x - t) \div room
           IN  /\ d \in t .. t + room - 1 /\ rest \in Nat
               /\ d * w0 + rest * (w0 * room) = x * w0
<1> DEFINE y == x - t
           r == y % room
           rest == y \div room
<1>1. y \in Nat /\ x = t + y
  OBVIOUS
<1> HIDE DEF y
<1>2. r \in 0 .. room - 1 /\ rest \in Nat /\ y = room * rest + r
  BY <1>1
<1> HIDE DEF r, rest
<1>3. rest * (w0 * room) = (room * rest) * w0 /\ room * rest \in Nat
  BY <1>2, Products
<1> DEFINE p == room * rest
<1> HIDE DEF p
<1>4. (t + r) * w0 + p * w0 = (t + r + p) * w0
  <2>1. p \in Nat /\ t + r \in Nat
    BY <1>2, <1>3 DEF p
  <2> DEFINE a == t + r
  <2> HIDE DEF a
  <2>2. a * w0 + p * w0 = (a + p) * w0
    BY <2>1 DEF a
  <2> QED
    BY <2>2 DEF a
<1>5. t + r + p = x
  BY <1>1, <1>2, <1>3 DEF p
<1>6. t + r \in t .. t + room - 1
  BY <1>2
<1>7. (t + r) * w0 + rest * (w0 * room) = x * w0
  BY <1>3, <1>4, <1>5 DEF p
<1> QED
  BY <1>2, <1>6, <1>7 DEF y, r, rest

LEMMA Distribute ==
    ASSUME NEW a \in Nat, NEW b \in Nat, NEW c \in Nat
    PROVE  (a + b) * c = a * c + b * c /\ a * c \in Nat /\ b * c \in Nat
  BY Products

-----------------------------------------------------------------------------
(* The places of a label. *)

LEMMA LabelSeq ==
    ASSUME IndInv
    PROVE  label \in Seq(Nat) /\ \A j \in 1 .. Len(label) : IsScalar(label[j])
  BY LabelsAssumption DEF IndInv, TypeOK

\* The scalars handled, when the one at hand is, and as one is added.
LEMMA InOrderFacts ==
    ASSUME IndInv, NEW m \in Nat, NEW p \in 0 .. Len(label)
    PROVE  /\ InOrder(m, p)[0] = <<>>
           /\ InOrder(m, p)[Len(label)] \in Seq(Nat)
           /\ Len(InOrder(m, p)[p]) \in 0 .. Len(InOrder(m, p)[Len(label)])
           /\ p < Len(label) /\ label[p + 1] # m =>
                /\ InOrder(m, p + 1) = InOrder(m, p)
                /\ Len(InOrder(m, p)[p + 1])
                     = Len(InOrder(m, p)[p])
                       + (IF label[p + 1] < m \/ IsASCII(label[p + 1]) THEN 1 ELSE 0)
           /\ p < Len(label) /\ label[p + 1] = m /\ m >= InitialN =>
                /\ InOrder(m, p + 1)[Len(label)]
                     = Splice(InOrder(m, p)[Len(label)], Len(InOrder(m, p)[p]), <<m>>)
                /\ Len(InOrder(m, p + 1)[p + 1]) = Len(InOrder(m, p)[p]) + 1
<1> DEFINE P == HandledIn(label, m, p)
<1>1. /\ Len(label) \in Nat /\ label \in Seq(Nat)
      /\ \A j \in 1 .. Len(label) : label[j] \in Nat
  BY Before, LabelSeq
<1>2. \A j \in 0 .. Len(label) : Kept(label, P)[j] \in Seq(Nat) /\ Len(Kept(label, P)[j]) \in Nat
  <2>1. \A j \in 1 .. Len(label) : j \in P => label[j] \in Nat
    BY <1>1
  <2> HIDE DEF P
  <2> QED
    BY <1>1, <2>1, KeptType, LenProperties
<1>3. Kept(label, P)[0] = <<>>
  BY <1>1, KeptIs
<1>4. Len(Kept(label, P)[p]) \in 0 .. Len(Kept(label, P)[Len(label)])
  <2>1. Len(label) \in p .. Len(label) /\ Len(label) \in 0 .. Len(label)
    BY <1>1
  <2> HIDE DEF P
  <2>2. Len(Kept(label, P)[p]) <= Len(Kept(label, P)[Len(label)])
    BY <1>1, <2>1, KeptGrows
  <2> QED
    BY <1>2, <2>1, <2>2
<1>5. ASSUME p < Len(label), label[p + 1] # m
      PROVE  /\ InOrder(m, p + 1) = InOrder(m, p)
             /\ Len(InOrder(m, p)[p + 1])
                  = Len(InOrder(m, p)[p])
                    + (IF label[p + 1] < m \/ IsASCII(label[p + 1]) THEN 1 ELSE 0)
  <2>1. HandledIn(label, m, p + 1) = P
    BY <1>1, <1>5, Places
  <2>2. p + 1 \in P <=> label[p + 1] < m \/ IsASCII(label[p + 1])
    <3>1. p + 1 \in 1 .. Len(label)
      BY <1>1, <1>5
    <3> QED
      BY <1>5, <3>1 DEF HandledIn
  <2> HIDE DEF P
  <2>3. Kept(label, P)[p + 1] = IF p + 1 \in P THEN Append(Kept(label, P)[p], label[p + 1])
                                ELSE Kept(label, P)[p]
    <3>1. p + 1 <= Len(label)
      BY <1>1, <1>5
    <3> QED
      BY <1>1, <3>1, KeptIs
  <2>4. Len(Append(Kept(label, P)[p], label[p + 1])) = Len(Kept(label, P)[p]) + 1
    <3>1. p + 1 \in 1 .. Len(label)
      BY <1>1, <1>5
    <3>2. label[p + 1] \in Nat /\ Kept(label, P)[p] \in Seq(Nat)
      BY <1>1, <1>2, <3>1
    <3> QED
      BY <3>2, AppendProperties
  <2>5. Len(Kept(label, P)[p + 1])
          = Len(Kept(label, P)[p])
            + (IF label[p + 1] < m \/ IsASCII(label[p + 1]) THEN 1 ELSE 0)
    <3>1. Len(Kept(label, P)[p]) \in Nat
      BY <1>2
    <3>2. CASE p + 1 \in P
      BY <2>2, <2>3, <2>4, <3>2
    <3>3. CASE p + 1 \notin P
      <4>1. Len(Kept(label, P)[p + 1]) = Len(Kept(label, P)[p]) + 0
        BY <2>3, <3>1, <3>3
      <4> QED
        BY <2>2, <3>3, <4>1
    <3> QED
      BY <3>2, <3>3
  <2> QED
    BY <2>1, <2>5 DEF InOrder, P
<1>6. ASSUME p < Len(label), label[p + 1] = m, m >= InitialN
      PROVE  /\ InOrder(m, p + 1)[Len(label)]
                  = Splice(InOrder(m, p)[Len(label)], Len(InOrder(m, p)[p]), <<m>>)
             /\ Len(InOrder(m, p + 1)[p + 1]) = Len(InOrder(m, p)[p]) + 1
  <2> DEFINE x == p + 1
  <2>1. x \in 1 .. Len(label) /\ x - 1 = p
    BY <1>1, <1>6
  <2>2. x \notin P /\ HandledIn(label, m, x) = P \cup {x}
    BY <1>1, <1>6, Places
  <2> HIDE DEF P, x
  <2>3. /\ Kept(label, P \cup {x})[x] = Append(Kept(label, P)[x], label[x])
        /\ Kept(label, P \cup {x})[Len(label)]
             = Splice(Kept(label, P)[Len(label)], Len(Kept(label, P)[x]), <<label[x]>>)
    BY <1>1, <2>1, <2>2, KeptInsert
  <2>6. Kept(label, P)[x] = Kept(label, P)[p]
    <3>1. Kept(label, P)[p + 1] = IF p + 1 \in P THEN Append(Kept(label, P)[p], label[p + 1])
                                  ELSE Kept(label, P)[p]
      <4>1. p + 1 <= Len(label)
        BY <1>1, <1>6
      <4> QED
        BY <1>1, <4>1, KeptIs
    <3> QED
      BY <2>2, <3>1 DEF x
  <2>4. label[x] = m
    BY <1>6 DEF x
  <2>5. Len(Append(Kept(label, P)[p], m)) = Len(Kept(label, P)[p]) + 1
    BY <1>2, AppendProperties
  <2> QED
    BY <2>1, <2>2, <2>3, <2>4, <2>5, <2>6 DEF InOrder, P, x
<1>7. Kept(label, P)[Len(label)] \in Seq(Nat)
  BY <1>1, <1>2
<1> QED
  BY <1>3, <1>4, <1>5, <1>6, <1>7 DEF InOrder, P

-----------------------------------------------------------------------------
(* Step by step. *)

LEMMA InitFollows == Init => Follows
  BY DEF Init, Follows, InPass

LEMMA StartFollows == ASSUME IndInv, Follows, Start PROVE Follows'
<1>1. /\ pos = 0 /\ output \in Buffer /\ bias' = InitialBias
      /\ output' = RemoveAll(output, TRUE) /\ pc' = "basic"
      /\ label' = label /\ pos' = pos
  BY Before DEF Start, IndInv, InRange, Follows
<1>2. GoodBuffer(output') /\ Contents(output') = <<>>
  <2>1. CASE IsInline(output)
    BY <1>1, <2>1, EmptyReads DEF RemoveAll
  <2>2. CASE ~IsInline(output)
    <3>1. output.capacity \in Nat
      BY <1>1, <2>2 DEF Buffer, InlineBuffer, HeapBuffer, IsInline
    <3> DEFINE c == output.capacity
    <3>2. RemoveAll(output, TRUE) = Heap(<<>>, c)
      BY <2>2 DEF RemoveAll
    <3>3. c \in Nat /\ <<>> \in Seq(Byte) /\ Len(<<>>) <= c
      BY <3>1, EmptySeq
    <3> HIDE DEF c
    <3>4. GoodBuffer(Heap(<<>>, c)) /\ Contents(Heap(<<>>, c)) = <<>>
      BY <3>3, HeapReads
    <3> QED
      BY <1>1, <3>2, <3>4
  <2> QED
    BY <2>1, <2>2
<1>3. InOrder(0, 0)[0] = <<>>
  BY Before, KeptIs DEF InOrder
<1>4. InOrder(0, 0)'[0] = <<>>
  BY <1>1, <1>3 DEF InOrder
<1>5. Written' = InOrder(0, 0)'[pos']
  BY <1>1, <1>2, <1>4 DEF Written
<1> QED
  BY <1>1, <1>2, <1>5 DEF Follows, InPass

\* What is copied are the ASCII scalars up to the place.
LEMMA ASCIIKept ==
    ASSUME IndInv, pos < Len(label)
    PROVE  /\ InOrder(0, 0)[pos + 1]
                = IF IsASCII(label[pos + 1]) THEN Append(InOrder(0, 0)[pos], label[pos + 1])
                  ELSE InOrder(0, 0)[pos]
<1> DEFINE P == HandledIn(label, 0, 0)
<1>1. pos + 1 \in 1 .. Len(label) /\ pos + 1 <= Len(label) /\ Len(label) \in Nat
      /\ label[pos + 1] \in Nat
  BY Before
<1>2. pos + 1 \in P <=> IsASCII(label[pos + 1])
  BY <1>1 DEF HandledIn
<1> HIDE DEF P
<1>3. Kept(label, P)[pos + 1] = IF pos + 1 \in P THEN Append(Kept(label, P)[pos], label[pos + 1])
                                ELSE Kept(label, P)[pos]
  BY <1>1, Before, KeptIs
<1> QED
  BY <1>2, <1>3 DEF InOrder, P

LEMMA CopyASCIIFollows == ASSUME IndInv, Follows, CopyASCII PROVE Follows'
<1>1. /\ pc = "basic" /\ pos < Len(label) /\ IsASCII(label[pos + 1])
      /\ Put(label[pos + 1], "basic") /\ pos' = pos + 1 /\ label' = label
      /\ bias' = bias /\ bias = InitialBias
  BY DEF CopyASCII, Scanning, CodePoint, Follows
<1>2. label[pos + 1] \in Byte
  <2>1. label[pos + 1] \in 0 .. InitialN - 1
    BY <1>1, Before DEF IsASCII, CodePoint
  <2> QED
    BY <2>1, EncodedBytesAssumption
<1>3. ASSUME CountInBounds(output')
      PROVE  pc' = "basic" /\ GoodBuffer(output') /\ Written' = InOrder(0, 0)'[pos']
  <2>1. CountInBounds(output) => GoodBuffer(output) /\ Written = InOrder(0, 0)[pos]
    BY <1>1 DEF Follows
  <2>2. /\ pc' = "basic" /\ CountInBounds(output) /\ GoodBuffer(output')
        /\ Written' = Append(Written, label[pos + 1])
    BY <1>1, <1>2, <1>3, <2>1, PutReads
  <2>3. Written' = InOrder(0, 0)[pos + 1]
    BY <1>1, <2>1, <2>2, ASCIIKept
  <2>4. InOrder(0, 0)'[pos'] = InOrder(0, 0)[pos + 1]
    BY <1>1 DEF InOrder
  <2> QED
    BY <2>2, <2>3, <2>4
<1> QED
  BY <1>1, <1>3 DEF Follows, InPass

LEMMA SkipNonASCIIFollows == ASSUME IndInv, Follows, SkipNonASCII PROVE Follows'
<1>1. /\ pc = "basic" /\ pc' = pc /\ pos < Len(label) /\ ~IsASCII(label[pos + 1])
      /\ pos' = pos + 1 /\ label' = label /\ output' = output
      /\ bias' = bias /\ bias = InitialBias
  BY DEF SkipNonASCII, Scanning, CodePoint, Follows
<1>2. InOrder(0, 0)'[pos'] = InOrder(0, 0)[pos]
  BY <1>1, ASCIIKept DEF InOrder
<1> QED
  BY <1>1, <1>2 DEF Follows, InPass, Written

\* The decoder that has read the ASCII code points starts where the first
\* pass does.
LEMMA EndASCIIReads ==
    ASSUME IndInv, Follows, EndASCII, CountInBounds(output')
    PROVE  /\ pc' = "pass" /\ GoodBuffer(output') /\ GoodBuffer(output)
           /\ Written = InOrder(0, 0)[Len(label)] /\ Written \in Seq(Byte)
           /\ Len(Written) = Count(output) /\ Count(output) \in Nat
           /\ Written' = IF Count(output) = 0 THEN Written ELSE Append(Written, Hyphen)
           /\ Skipped' = (IF Count(output) = 0 THEN 0 ELSE Count(output) + 1)
           /\ Len(Written') = Skipped'
           /\ Reached' = RFCInitial(Written)
<1> DEFINE b == Count(output)
           W == Written
<1>1. /\ pc = "basic" /\ pos = Len(label) /\ basics' = b
      /\ b = 0 => pc' = "pass" /\ output' = output
      /\ b # 0 => Put(Hyphen, "pass")
  BY Before DEF EndASCII, Scanning
<1>2. CountInBounds(output) => GoodBuffer(output) /\ W = InOrder(0, 0)[Len(label)]
  BY <1>1 DEF Follows
<1>3. /\ pc' = "pass" /\ GoodBuffer(output') /\ GoodBuffer(output)
      /\ Written' = IF b = 0 THEN W ELSE Append(W, Hyphen)
      /\ W \in Seq(Byte) /\ Len(W) = b /\ b \in Nat
  <2>0. b \in Nat
    BY Before, CountType
  <2>1. CASE b = 0
    <3>1. pc' = "pass" /\ output' = output
      BY <1>1, <2>1
    <3>2. GoodBuffer(output)
      BY <1>2, <3>1
    <3>3. W \in Seq(Byte) /\ Len(W) = b
      BY <3>2, ContentsType DEF Written
    <3> QED
      BY <2>0, <2>1, <3>1, <3>2, <3>3 DEF Written
  <2>2. CASE b # 0
    <3>1. Hyphen \in Byte /\ Put(Hyphen, "pass")
      BY <1>1, <2>2, Constants
    <3>2. CountInBounds(output) => GoodBuffer(output)
      BY <1>2
    <3>3. /\ pc' = "pass" /\ CountInBounds(output) /\ GoodBuffer(output')
          /\ Written' = Append(Written, Hyphen)
          /\ Written \in Seq(Byte) /\ Len(Written) = Count(output)
      BY <3>1, <3>2, PutReads
    <3> QED
      BY <1>2, <2>0, <2>2, <3>3
  <2> QED
    BY <2>1, <2>2
<1>4. W = InOrder(0, 0)[Len(label)]
  BY <1>2, <1>3 DEF GoodBuffer
<1> HIDE DEF b
<1>5. \A j \in 1 .. Len(W) : Append(W, Hyphen)[j] = W[j]
  BY <1>3, Constants, AppendProperties
<1>6. Len(Append(W, Hyphen)) = b + 1 /\ Append(W, Hyphen)[b + 1] = Hyphen
  BY <1>3, Constants, AppendProperties
<1>7. Skipped' = (IF b = 0 THEN 0 ELSE b + 1) /\ Len(Written') = Skipped'
  BY <1>1, <1>3, <1>6 DEF Skipped
<1>8. Reached' = RFCInitial(W)
  <2>1. Reached' = RFCState(Written', Skipped')[Len(Written')]
    BY DEF Reached
  <2> DEFINE w == Written'
  <2>2. Len(w) \in Nat /\ Len(w) \in 0 .. Len(w) /\ w \in Seq(Byte)
    BY <1>3, <1>7, Constants, AppendProperties
  <2>3. Len(w) - 1 = (IF b = 0 THEN -1 ELSE b)
    BY <1>3, <1>7
  <2>4. SubSeq(w, 1, Len(w) - 1) = W
    <3>1. CASE b = 0
      <4>1. w = <<>> /\ W = <<>> /\ Len(w) - 1 = -1
        BY <1>3, <2>3, <3>1, EmptySeq
      <4>2. SubSeq(<<>>, 1, -1) = <<>>
        OBVIOUS
      <4> QED
        BY <4>1, <4>2
    <3>2. CASE b # 0
      <4>1. w = Append(W, Hyphen) /\ Len(w) - 1 = b
        BY <1>3, <2>3, <3>2
      <4>2. SubSeq(Append(W, Hyphen), 1, Len(W)) = W
        BY <1>3, Constants
      <4> QED
        BY <1>3, <4>1, <4>2
    <3> QED
      BY <3>1, <3>2
  <2> HIDE DEF w
  <2>5. RFCState(w, Len(w))[Len(w)] = RFCInitial(SubSeq(w, 1, Len(w) - 1))
    BY <2>2, StateIsRead
  <2> QED
    BY <1>7, <2>1, <2>4, <2>5 DEF w
<1> QED
  BY <1>3, <1>4, <1>7, <1>8 DEF b

LEMMA EndASCIIFollows == ASSUME IndInv, Follows, EndASCII PROVE Follows'
<1> DEFINE b == Count(output)
           W == Written
<1>1. /\ pc = "basic" /\ pos = Len(label) /\ label' = label /\ bias' = bias /\ n' = n
      /\ delta' = delta /\ basics' = b /\ handled' = b
      /\ b = 0 => pc' = "pass" /\ output' = output
      /\ b # 0 => Put(Hyphen, "pass")
      /\ n = InitialN /\ delta = 0 /\ bias = InitialBias
  BY Before DEF EndASCII, Scanning, IndInv, InRange, Follows
<1> SUFFICES ASSUME CountInBounds(output')
             PROVE  GoodBuffer(output') /\ pc' = "pass" /\ LaidOut' /\ Arrived'
  BY <1>1, CountType, Before DEF Follows, InPass, Put
<1>3. /\ pc' = "pass" /\ GoodBuffer(output') /\ GoodBuffer(output)
      /\ Written' = IF b = 0 THEN W ELSE Append(W, Hyphen)
      /\ W \in Seq(Byte) /\ Len(W) = b /\ b \in Nat
      /\ W = InOrder(0, 0)[Len(label)]
  BY EndASCIIReads
<1>4. W = InOrder(InitialN, 0)[Len(label)] /\ \A j \in 1 .. Len(W) : IsASCII(W[j])
  <2>1. HandledIn(label, 0, 0) = HandledIn(label, InitialN, 0)
    <3>1. \A j \in 1 .. Len(label) : label[j] \in Nat /\ ~(j <= 0) /\ ~(label[j] < 0)
      BY Before
    <3> QED
      BY <3>1 DEF HandledIn, IsASCII
  <2> DEFINE P == HandledIn(label, 0, 0)
  <2>2. W = Kept(label, P)[Len(label)]
    BY <1>3 DEF InOrder
  <2>3. \A j \in 1 .. Len(label) : j \in P => label[j] \in 0 .. InitialN - 1
    <3> SUFFICES ASSUME NEW j \in 1 .. Len(label), j \in P
                 PROVE  label[j] \in 0 .. InitialN - 1
      OBVIOUS
    <3>1. label[j] \in Nat /\ ~(j <= 0) /\ InitialN \in Nat
      BY Before
    <3>2. label[j] < InitialN
      BY <3>1 DEF HandledIn, IsASCII
    <3> QED
      BY <3>1, <3>2
  <2> HIDE DEF P
  <2>4. Kept(label, P)[Len(label)] \in Seq(0 .. InitialN - 1)
    <3>1. Len(label) \in Nat /\ Len(label) \in 0 .. Len(label)
      BY Before
    <3> QED
      BY <2>3, <3>1, KeptType
  <2>5. \A j \in 1 .. Len(W) : W[j] \in 0 .. InitialN - 1
    BY <2>2, <2>4, ElementOfSeq
  <2>6. \A j \in 1 .. Len(W) : IsASCII(W[j])
    BY <2>5, Constants DEF IsASCII
  <2> QED
    BY <2>1, <2>2, <2>6 DEF InOrder, P
<1> HIDE DEF b
<1>5. \A j \in 1 .. Len(W) : Append(W, Hyphen)[j] = W[j]
  BY <1>3, Constants, AppendProperties
<1>6. Len(Append(W, Hyphen)) = b + 1 /\ Append(W, Hyphen)[b + 1] = Hyphen
  BY <1>3, Constants, AppendProperties
<1>7. Skipped' = (IF b = 0 THEN 0 ELSE b + 1) /\ Len(Written') = Skipped'
  BY EndASCIIReads DEF b
<1>8. Reached' = RFCInitial(W)
  BY EndASCIIReads
<1>9. LaidOut'
  <2>1. Skipped' <= Len(Written')
    BY <1>3, <1>7
  <2>2. \A j \in 1 .. Len(Written') : IsASCII(Written'[j])
    <3> SUFFICES ASSUME NEW j \in 1 .. Len(Written') PROVE IsASCII(Written'[j])
      OBVIOUS
    <3>1. b # 0 /\ (j \in 1 .. Len(W) \/ j = b + 1)
      BY <1>3, <1>7
    <3>2. IsASCII(Hyphen)
      BY CodePointAssumption DEF IsASCII
    <3> QED
      BY <1>3, <1>4, <1>5, <1>6, <3>1, <3>2
  <2>3. basics' # 0 => Written'[Skipped'] = Hyphen
    BY <1>1, <1>3, <1>6, <1>7
  <2>4. \A j \in Skipped' + 1 .. Len(Written') : Written'[j] # Hyphen
    BY <1>3, <1>7
  <2> QED
    BY <2>1, <2>2, <2>3, <2>4 DEF LaidOut
<1>10. BeforePass(Reached)'
  <2> DEFINE st == RFCInitial(W)
  <2>1. /\ st.kind = "reading" /\ st.n = InitialN /\ st.i = 0 /\ st.oldi = 0 /\ st.w = 1
        /\ st.k = Base /\ st.bias = InitialBias /\ st.out = W
    BY DEF RFCInitial
  <2> HIDE DEF st
  <2>2. InOrder(n, 0)' = InOrder(InitialN, 0) /\ n' = InitialN /\ delta' = 0 /\ label' = label
    BY <1>1 DEF InOrder
  <2>3. Ready(Reached)'
    BY <1>1, <1>3, <1>8, <2>1, <2>2, Constants DEF Ready, st
  <2>4. Rests(Reached, InOrder(n, 0)[Len(label)])'
    BY <1>4, <1>8, <2>1, <2>2 DEF Rests, st
  <2>5. (Reached.i + delta = Distance(Reached, 0))'
    <3>1. (InitialN - InitialN) * (handled' + 1) + 0 = 0
      BY <1>1, <1>3, Constants
    <3>2. Reached'.n = InitialN /\ Reached'.i = 0
      BY <1>8, <2>1 DEF st
    <3> QED
      BY <2>2, <3>1, <3>2 DEF Distance
  <2> QED
    BY <2>3, <2>4, <2>5 DEF BeforePass
<1>11. Arrived'
  BY <1>3, <1>10 DEF Arrived
<1> QED
  BY <1>3, <1>9, <1>11

\* What is known of the state reached while nothing is written.
LEMMA FollowedFacts ==
    ASSUME IndInv, Follows, CountInBounds(output), ShortEnough, pc \in {"pass", "done"} \cup InPass
    PROVE  /\ GoodBuffer(output) /\ LaidOut /\ Arrived
           /\ GoodState(Reached) /\ Reached.n \in InitialN .. MaxScalar
           /\ Reached.i \in Nat /\ Reached.oldi \in Nat /\ Reached.w \in Nat
           /\ Reached.k \in Nat /\ Reached.n \in Nat /\ Reached.bias \in Nat
           /\ Reached.out \in Seq(Nat) /\ Len(Reached.out) \in Nat
<1>1. GoodBuffer(output) /\ LaidOut /\ Arrived
  BY DEF Follows, InPass
<1>2. GoodState(Reached)
  BY <1>1, ReachedFacts
<1>3. Reached \in States
  BY <1>2 DEF GoodState
<1>4. /\ Reached.n \in InitialN .. MaxScalar
      /\ Reached.i \in Nat /\ Reached.oldi \in Nat /\ Reached.w \in Nat
      /\ Reached.k \in Nat /\ Reached.bias \in Nat /\ Reached.out \in Seq(Nat)
  BY <1>3 DEF States
<1> QED
  BY <1>1, <1>2, <1>4, Constants, LenProperties

\* A step that writes nothing follows if the state it leads to is as far.
LEMMA QuietFollows ==
    ASSUME IndInv, Follows, output' = output, basics' = basics, label' = label,
           pc \in {"pass", "done"} \cup InPass, pc' \in {"pass", "done"} \cup InPass,
           CountInBounds(output) /\ ShortEnough => Arrived'
    PROVE  Follows'
<1>1. LaidOut' <=> LaidOut
  BY NothingWritten
<1>2. ShortEnough' <=> ShortEnough
  BY DEF ShortEnough
<1>3. CountInBounds(output) => GoodBuffer(output) /\ LaidOut
  BY DEF Follows, InPass
<1>4. pc' \notin {"start", "basic"}
  BY DEF InPass
<1> QED
  BY <1>1, <1>2, <1>3, <1>4 DEF Follows

LEMMA BeginPassFollows == ASSUME IndInv, Follows, BeginPass PROVE Follows'
<1>1. /\ pc = "pass" /\ pc' = "scan" /\ handled < Len(label) /\ n' = NextCodePoint /\ pos' = 0
      /\ delta' = WAdd(delta, WMul((NextCodePoint - n) % WordSize, handled + 1))
      /\ UNCHANGED <<label, bias, basics, handled, output>>
  BY DEF BeginPass
<1> SUFFICES ASSUME CountInBounds(output), ShortEnough PROVE Arrived'
  BY <1>1, QuietFollows DEF InPass
<1> DEFINE st == Reached
           np == NextCodePoint
<1>2. BeforePass(st) /\ Len(st.out) \in Nat /\ st.i \in Nat /\ st.n \in Nat
  BY <1>1, FollowedFacts DEF Arrived
<1>3. /\ np \in n .. MaxScalar /\ HandledIn(label, np, 0) = HandledIn(label, n, 0)
  BY <1>1, ScalarLeft, Before, NextCodePointFacts
<1>4. delta' = delta + (np - n) * (handled + 1)
  BY <1>1, NoWrapInPass
<1>5. Reached' = st
  BY <1>1, NothingWritten
<1> HIDE DEF st, np
<1>6. InOrder(np, 0) = InOrder(n, 0)
  BY <1>3 DEF InOrder
<1>7. InOrder(np, 0)[0] = <<>>
  BY Before, KeptIs DEF InOrder
<1>8. InOrder(n, pos)' = InOrder(n, 0) /\ InOrder(n, pos)'[0] = <<>>
  <2>1. InOrder(n, pos)' = InOrder(np, 0)
    BY <1>1 DEF InOrder, np
  <2> QED
    BY <1>6, <1>7, <2>1
<1>9. st.n <= n'
  <2>1. n \in Nat /\ np \in Nat /\ np >= n /\ st.n <= n
    BY <1>2, <1>3, Before DEF BeforePass, Ready
  <2>2. st.n <= np
    BY <1>2, <2>1
  <2> QED
    BY <1>1, <2>2 DEF np
<1>10. st.i + delta' = (np - st.n) * (handled + 1) + 0
  <2>1. st.i + delta = (n - st.n) * (handled + 1) + 0
    BY <1>2 DEF BeforePass, Distance
  <2> DEFINE x == n - st.n
             d == np - n
             h == handled + 1
  <2>2. x \in Nat /\ d \in Nat /\ h \in Nat /\ np - st.n = x + d /\ delta \in Nat
    <3>1. n \in Nat /\ np \in Nat /\ np >= n /\ handled \in Nat /\ delta \in Nat
      BY <1>3, Before
    <3>2. st.n <= n
      BY <1>2 DEF BeforePass, Ready
    <3> QED
      BY <1>2, <3>1, <3>2
  <2>3. st.i + delta = x * h + 0 /\ delta' = delta + d * h
    BY <1>4, <2>1 DEF np
  <2> HIDE DEF x, d, h
  <2>4. (x + d) * h = x * h + d * h /\ x * h \in Nat /\ d * h \in Nat
    BY <2>2, Distribute
  <2>5. st.i + delta' = (x + d) * h + 0
    BY <1>2, <2>2, <2>3, <2>4
  <2> QED
    BY <2>2, <2>5 DEF h
<1>11. InScan(Reached)'
  <2>1. Rests(st, InOrder(n, 0)[Len(label)])
    BY <1>2 DEF BeforePass
  <2>2. Rests(Reached, InOrder(n, pos)[Len(label)])'
    BY <1>1, <1>5, <1>8, <2>1 DEF Rests
  <2>3. (Reached.i + delta = Distance(Reached, Len(InOrder(n, pos)[pos])))'
    BY <1>1, <1>5, <1>8, <1>10 DEF Distance, np
  <2>4. Ready(Reached)'
    BY <1>1, <1>2, <1>5, <1>9 DEF BeforePass, Ready
  <2> QED
    BY <2>2, <2>3, <2>4 DEF InScan
<1> QED
  BY <1>1, <1>11 DEF Arrived

LEMMA PassFollows == ASSUME IndInv, Follows, Pass PROVE Follows'
<1>1. /\ pc = "scan" /\ pc' = pc /\ pos < Len(label) /\ label[pos + 1] # n
      /\ delta' = PassedOver /\ pos' = pos + 1
      /\ UNCHANGED <<label, n, bias, basics, handled, output>>
  BY Before DEF Pass, Scanning
<1> SUFFICES ASSUME CountInBounds(output), ShortEnough PROVE Arrived'
  BY <1>1, QuietFollows DEF InPass
<1> DEFINE st == Reached
           at == Len(InOrder(n, pos)[pos])
           one == IF label[pos + 1] < n \/ IsASCII(label[pos + 1]) THEN 1 ELSE 0
<1>2. InScan(st) /\ st.i \in Nat /\ st.n \in Nat
  BY <1>1, FollowedFacts DEF Arrived, InPass
<1>3. delta' = delta + one
  <2>1. WAdd(delta, 1) = delta + 1
    BY <1>1, NoWrapInScan
  <2>2. delta' = IF label[pos + 1] < n \/ IsASCII(label[pos + 1]) THEN delta + 1 ELSE delta
    BY <1>1, <2>1 DEF PassedOver, CodePoint
  <2> QED
    BY <2>2, Before
<1>4. /\ at \in Nat /\ InOrder(n, pos + 1) = InOrder(n, pos)
      /\ Len(InOrder(n, pos)[pos + 1]) = at + one
  <2>1. n \in Nat /\ pos \in 0 .. Len(label)
    BY Before
  <2>2. /\ InOrder(n, pos)[Len(label)] \in Seq(Nat)
        /\ at \in 0 .. Len(InOrder(n, pos)[Len(label)])
        /\ InOrder(n, pos + 1) = InOrder(n, pos)
        /\ Len(InOrder(n, pos)[pos + 1]) = at + one
    BY <1>1, <2>1, InOrderFacts
  <2> QED
    BY <2>2
<1>5. one \in Nat
  OBVIOUS
<1>6. Reached' = st
  BY <1>1, NothingWritten
<1> HIDE DEF st, one
<1>7. InOrder(n, pos)' = InOrder(n, pos) /\ Len(InOrder(n, pos)'[pos']) = at + one
  <2>1. InOrder(n, pos)' = InOrder(n, pos + 1)
    BY <1>1 DEF InOrder
  <2> QED
    BY <1>1, <1>4, <2>1
<1>8. st.i + delta' = (n - st.n) * (handled + 1) + (at + one)
  <2>1. st.i + delta = (n - st.n) * (handled + 1) + at
    BY <1>2 DEF InScan, Distance
  <2> DEFINE p == (n - st.n) * (handled + 1)
  <2>2. p \in Int /\ delta \in Nat
    <3>1. st.n <= n
      BY <1>2 DEF InScan, Ready
    <3>2. n \in Nat /\ handled \in Nat /\ delta \in Nat
      BY Before
    <3>3. n - st.n \in Nat /\ handled + 1 \in Nat /\ delta \in Nat
      BY <1>2, <3>1, <3>2
    <3> QED
      BY <3>3, Products
  <2>3. st.i + delta = p + at
    BY <2>1
  <2> HIDE DEF p, at
  <2>4. st.i + delta' = p + (at + one)
    BY <1>2, <1>3, <1>4, <1>5, <2>2, <2>3
  <2> QED
    BY <2>4 DEF p
<1> HIDE DEF at
<1>9. InScan(Reached)'
  <2>1. Ready(Reached)'
    BY <1>1, <1>2, <1>6 DEF InScan, Ready
  <2>2. Rests(Reached, InOrder(n, pos)[Len(label)])'
    BY <1>1, <1>2, <1>6, <1>7 DEF InScan, Rests
  <2>3. (Reached.i + delta = Distance(Reached, Len(InOrder(n, pos)[pos])))'
    BY <1>1, <1>6, <1>7, <1>8 DEF Distance
  <2> QED
    BY <2>1, <2>2, <2>3 DEF InScan
<1> QED
  BY <1>1, <1>9 DEF Arrived

LEMMA MeetFollows == ASSUME IndInv, Follows, Meet PROVE Follows'
<1>1. /\ pc = "scan" /\ pc' = "digits" /\ pos < Len(label) /\ CodePoint = n
      /\ delta' = PassedOver /\ q' = delta' /\ k' = Base
      /\ UNCHANGED <<label, pos, n, bias, basics, handled, output>>
  BY DEF Meet, Scanning
<1> SUFFICES ASSUME CountInBounds(output), ShortEnough PROVE Arrived'
  BY <1>1, QuietFollows DEF InPass
<1>2. delta' = delta /\ q' = delta /\ delta \in Nat
  BY <1>1, PassedOverFacts, Before
<1>3. InScan(Reached) /\ Reached.i \in Nat
  BY <1>1, FollowedFacts DEF Arrived, InPass
<1>4. Reached' = Reached
  BY <1>1, NothingWritten
<1>5. InOrder(n, pos)' = InOrder(n, pos)
  BY <1>1 DEF InOrder
<1>6. AmongDigits(Reached)'
  <2>1. Ready(Reached)'
    BY <1>1, <1>3, <1>4 DEF InScan, Ready
  <2>2. Reached'.kind = "reading" /\ Reached'.k = k' /\ Reached'.out = InOrder(n, pos)'[Len(label')]
    BY <1>1, <1>3, <1>4, <1>5 DEF InScan, Rests
  <2>3. (Reached.oldi + delta = Distance(Reached, Len(InOrder(n, pos)[pos])))'
    BY <1>1, <1>2, <1>3, <1>4, <1>5 DEF InScan, Rests, Distance
  <2>4. (Reached.i + q * Reached.w = Reached.oldi + delta)'
    <3>1. Reached.w = 1 /\ Reached.oldi = Reached.i /\ delta * 1 = delta
      BY <1>2, <1>3 DEF InScan, Rests
    <3> QED
      BY <1>2, <1>4, <3>1
  <2> QED
    BY <2>1, <2>2, <2>3, <2>4 DEF AmongDigits
<1> QED
  BY <1>1, <1>6 DEF Arrived

LEMMA EndPassFollows == ASSUME IndInv, Follows, EndPass PROVE Follows'
<1>1. /\ pc = "scan" /\ pc' = "pass" /\ pos = Len(label)
      /\ delta' = WAdd(delta, 1) /\ n' = WAdd(n, 1)
      /\ UNCHANGED <<label, pos, bias, basics, handled, output>>
  BY Before DEF EndPass, Scanning
<1> SUFFICES ASSUME CountInBounds(output), ShortEnough PROVE Arrived'
  BY <1>1, QuietFollows DEF InPass
<1> DEFINE st == Reached
<1>2. InScan(st) /\ st.i \in Nat /\ st.n \in Nat
  BY <1>1, FollowedFacts DEF Arrived, InPass
<1>3. delta' = delta + 1
  BY <1>1, NoWrapInScan
<1>4. n' = n + 1 /\ n \in Nat
  <2>1. n \in InitialN .. MaxScalar
    BY <1>1 DEF IndInv, InRange, InPass
  <2> DEFINE m == n + 1
  <2>2. m \in Nat /\ m < WordSize /\ WordSize \in Nat /\ n \in Nat
    BY <2>1, Before
  <2> HIDE DEF m
  <2>3. m % WordSize = m
    BY <2>2
  <2> QED
    BY <1>1, <2>2, <2>3 DEF WAdd, m
<1>5. Reached' = st
  BY <1>1, NothingWritten
<1> HIDE DEF st
<1>6. InOrder(n, 0)' = InOrder(n, pos)
  <2>1. HandledIn(label, n + 1, 0) = HandledIn(label, n, Len(label))
    BY <1>1, Before, Places
  <2> QED
    BY <1>1, <1>4, <2>1 DEF InOrder
<1> DEFINE m == n + 1
<1>7. st.i + delta' = (m - st.n) * (handled + 1) + 0
  <2>1. st.i + delta = (n - st.n) * (handled + 1) + Len(InOrder(n, pos)[pos])
    BY <1>2 DEF InScan, Distance
  <2>2. Len(InOrder(n, pos)[pos]) = handled
    BY <1>1, <1>2 DEF InScan, Rests, Ready
  <2> DEFINE x == n - st.n
             h == handled + 1
  <2>3. x \in Nat /\ h \in Nat /\ m - st.n = x + 1 /\ delta \in Nat /\ handled \in Nat
    <3>1. st.n <= n /\ delta \in Nat /\ handled \in Nat
      BY <1>2, Before DEF InScan, Ready
    <3> QED
      BY <1>2, <1>4, <3>1
  <2>4. st.i + delta = x * h + handled
    BY <2>1, <2>2
  <2>5. h = handled + 1
    OBVIOUS
  <2> HIDE DEF x, h, m
  <2>6. (x + 1) * h = x * h + h /\ x * h \in Nat
    BY <2>3, Distribute
  <2>7. st.i + delta' = (x + 1) * h + 0
    BY <1>2, <1>3, <2>3, <2>4, <2>5, <2>6
  <2> QED
    BY <2>3, <2>7 DEF h
<1> HIDE DEF m
<1>8. BeforePass(Reached)'
  <2>1. Ready(Reached)'
    BY <1>1, <1>2, <1>4, <1>5 DEF InScan, Ready
  <2>2. Rests(Reached, InOrder(n, 0)[Len(label)])'
    BY <1>1, <1>2, <1>5, <1>6 DEF InScan, Rests
  <2>3. (Reached.i + delta = Distance(Reached, 0))'
    <3>1. n' = m
      BY <1>4 DEF m
    <3> QED
      BY <1>1, <1>5, <1>7, <3>1 DEF Distance
  <2> QED
    BY <2>1, <2>2, <2>3 DEF BeforePass
<1> QED
  BY <1>1, <1>8 DEF Arrived

\* A step that writes follows if the decoder that has read the byte is as far.
LEMMA WriteFollows ==
    ASSUME IndInv, Follows, pc = "digits", NEW d \in 0 .. Base - 1, NEW next,
           next \in {"digits", "adapt"}, Put(ByteOfDigit(d), next),
           basics' = basics, label' = label,
           /\ CountInBounds(output) /\ ShortEnough /\ GoodBuffer(output) /\ LaidOut
           /\ Reached' = RFCRead(Reached, ByteOfDigit(d)) /\ pc' = next
           => Arrived'
    PROVE  Follows'
<1>1. pc' \in {"digits", "adapt", "undefined"}
  BY DEF Put
<1>2. ASSUME CountInBounds(output')
      PROVE  GoodBuffer(output') /\ LaidOut' /\ (ShortEnough => Arrived')
  <2>1. /\ pc' = next /\ CountInBounds(output) /\ GoodBuffer(output)
        /\ GoodBuffer(output') /\ LaidOut /\ LaidOut'
        /\ Reached' = RFCRead(Reached, ByteOfDigit(d))
    BY <1>2, DigitRuns
  <2> QED
    BY <2>1
<1>3. ShortEnough' <=> ShortEnough
  BY DEF ShortEnough
<1> QED
  BY <1>1, <1>2, <1>3 DEF Follows

LEMMA WriteDigitFollows == ASSUME IndInv, Follows, WriteDigit PROVE Follows'
<1> DEFINE t == T(k, bias)
           room == Base - t
           d == t + ((q - t) % room)
           rest == (q - t) \div room
<1>1. /\ pc = "digits" /\ t <= q /\ Put(ByteOfDigit(d), "digits")
      /\ q' = rest /\ k' = k + Base
      /\ UNCHANGED <<label, pos, n, delta, bias, basics, handled>>
  <2>1. q >= t /\ q \in Nat /\ t \in Nat
    <3>1. t \in 1 .. Base - 1 /\ Base \in Nat
      BY Before, ThresholdRange, BootstringAssumption
    <3> QED
      BY <3>1, Before DEF WriteDigit
  <2>2. t <= q
    <3> HIDE DEF t
    <3> QED
      BY <2>1
  <2> QED
    BY <2>2 DEF WriteDigit, Digit, Quotient
<1>2. t \in Nat /\ room \in Nat /\ room # 0 /\ q \in Nat /\ t + room = Base /\ Base \in Nat
  <2>1. t \in 1 .. Base - 1 /\ Base \in Nat
    BY Before, ThresholdRange, BootstringAssumption
  <2> HIDE DEF t
  <2> QED
    BY <2>1, Before
<1>3. \A w0 \in Nat : /\ d \in t .. t + room - 1 /\ rest \in Nat
                      /\ d * w0 + rest * (w0 * room) = q * w0
  <2> HIDE DEF t, room
  <2> TAKE w0 \in Nat
  <2>1. t <= q
    BY <1>1
  <2>2. LET dd == t + ((q - t) % room)
            rr == (q - t) \div room
        IN  /\ dd \in t .. t + room - 1 /\ rr \in Nat
            /\ dd * w0 + rr * (w0 * room) = q * w0
    <3>1. t \in Nat /\ room \in Nat /\ room # 0 /\ q \in Nat
      BY <1>2
    <3> QED
      BY <3>1, <2>1, DigitAndRest, ZenonT(30)
  <2> QED
    BY <2>2
<1> HIDE DEF d, rest
<1>4. d \in 0 .. Base - 1 /\ d \in t .. Base - 1
  <2>1. 0 \in Nat
    OBVIOUS
  <2>2. d \in t .. t + room - 1
    BY <1>3, <2>1
  <2> HIDE DEF t, room
  <2> QED
    BY <1>2, <2>2
<1>5. ASSUME CountInBounds(output), ShortEnough, GoodBuffer(output), LaidOut,
             Reached' = RFCRead(Reached, ByteOfDigit(d)), pc' = "digits"
      PROVE  Arrived'
  <2> DEFINE st == Reached
             c == ByteOfDigit(d)
  <2>1. /\ AmongDigits(st) /\ GoodState(st) /\ st.w \in Nat /\ st.i \in Nat
        /\ st.oldi \in Nat
    BY <1>1, <1>5, FollowedFacts DEF Arrived, InPass
  <2>2. IsDigit(c) /\ DigitOf(c) = d
    BY <1>4, DigitComesBack
  <2>3. st.kind = "reading" /\ st.k = k /\ st.bias = bias
    BY <2>1 DEF AmongDigits, Ready
  <2>4. ~(d < t)
    <3> HIDE DEF t
    <3> QED
      BY <1>2, <1>4
  <2> HIDE DEF st, c
  <2>5. RFCRead(st, c) = [st EXCEPT !.i = SumWith(st, d), !.w = st.w * room, !.k = k + Base]
    BY <2>2, <2>3, <2>4, DigitRead
  <2>6. st \in States
    BY <2>1 DEF GoodState
  <2> DEFINE after == RFCRead(st, c)
             w1 == st.w * room
  <2>7. /\ after.kind = "reading" /\ after.n = st.n /\ after.oldi = st.oldi
        /\ after.i = st.i + d * st.w /\ after.w = w1
        /\ after.k = k + Base /\ after.bias = st.bias /\ after.out = st.out
    <3> HIDE DEF room, w1
    <3> QED
      BY <2>3, <2>5, <2>6 DEF States, SumWith, w1
  <2>8. (st.i + d * st.w) + rest * w1 = st.oldi + delta
    <3>1. d * st.w + rest * w1 = q * st.w
      BY <1>3, <2>1 DEF st
    <3>2. st.i + q * st.w = st.oldi + delta
      BY <2>1 DEF AmongDigits
    <3> DEFINE x == d * st.w
               y == rest * w1
               z == q * st.w
    <3>3. x \in Nat /\ y \in Nat
      <4>1. d \in Nat /\ st.w \in Nat /\ rest \in Nat
        BY <1>3, <1>4, <2>1 DEF st
      <4>2. w1 \in Nat
        BY <1>2, <4>1, Products
      <4> HIDE DEF w1
      <4> QED
        BY <4>1, <4>2, Products
    <3>4. x + y = z /\ st.i + z = st.oldi + delta /\ st.i \in Nat
      BY <2>1, <3>1, <3>2 DEF st
    <3> HIDE DEF x, y, z
    <3>5. (st.i + x) + y = st.oldi + delta
      BY <3>3, <3>4
    <3> QED
      BY <3>5 DEF x, y
  <2>9. Reached' = after
    BY <1>5 DEF st, c
  <2>10. AmongDigits(st)
    BY <2>1 DEF st
  <2> HIDE DEF after, w1
  <2>11. Reached'.n = st.n /\ Reached'.bias = st.bias /\ Reached'.out = st.out
         /\ Reached'.oldi = st.oldi /\ Reached'.i = st.i + d * st.w /\ Reached'.w = w1
         /\ Reached'.kind = "reading" /\ Reached'.k = k + Base
    BY <2>7, <2>9
  <2>12. InOrder(n, pos)' = InOrder(n, pos)
    BY <1>1 DEF InOrder
  <2>13. Ready(Reached)'
    BY <1>1, <2>10, <2>11 DEF AmongDigits, Ready
  <2>14. Reached'.out = InOrder(n, pos)'[Len(label')]
    BY <1>1, <2>10, <2>11, <2>12 DEF AmongDigits
  <2>15. (Reached.oldi + delta = Distance(Reached, Len(InOrder(n, pos)[pos])))'
    BY <1>1, <2>10, <2>11, <2>12 DEF AmongDigits, Distance
  <2>16. (Reached.i + q * Reached.w = Reached.oldi + delta)'
    BY <1>1, <2>8, <2>11
  <2>17. AmongDigits(Reached)'
    BY <1>1, <2>11, <2>13, <2>14, <2>15, <2>16 DEF AmongDigits
  <2> QED
    BY <1>5, <2>17 DEF Arrived
<1> QED
  BY <1>1, <1>4, <1>5, WriteFollows

\* The places up to a scalar of a short label fit the word.
LEMMA PlacesFit ==
    ASSUME IndInv, ShortEnough, pc \in InPass, NEW m \in InitialN .. n, NEW at \in 0 .. handled
    PROVE  /\ n - m \in Nat /\ at \in Nat /\ handled + 1 \in Nat
           /\ (n - m) * (handled + 1) + at < WordSize
<1> DEFINE x == n - m
           h == handled + 1
           L == Len(label) + 1
           M == MaxScalar - InitialN
<1>1. /\ n \in InitialN .. MaxScalar /\ InitialN \in Nat /\ MaxScalar \in Nat
      /\ WordSize \in Nat /\ Len(label) \in Nat /\ handled \in 0 .. Len(label)
  BY Before, HandledRange DEF IndInv, InRange, InPass
<1>2. /\ x \in Nat /\ h \in Nat /\ L \in Nat /\ M \in Nat /\ at \in Nat
      /\ h <= L /\ at < L /\ x <= M
  BY <1>1
<1>3. (M + 1) * L < WordSize
  BY <1>1 DEF ShortEnough
<1> HIDE DEF x, h, L, M
<1>4. x * h \in Nat /\ x * L \in Nat /\ x * h <= x * L
  BY <1>2, ProductMonotone
<1>5. x * L <= M * L /\ M * L \in Nat
  BY <1>2, ProductMonotone
<1>6. (M + 1) * L = M * L + L
  BY <1>2, <1>5
<1>7. x * h + at < WordSize
  BY <1>1, <1>2, <1>3, <1>4, <1>5, <1>6
<1> QED
  BY <1>2, <1>7 DEF x, h

LEMMA WriteLastDigitFollows == ASSUME IndInv, Follows, WriteLastDigit PROVE Follows'
<1>1. /\ pc = "digits" /\ q < T(k, bias) /\ Put(ByteOfDigit(q), "adapt")
      /\ spread' = Spread(delta, handled + 1, handled = basics) /\ kAdapt' = 0
      /\ UNCHANGED <<label, pos, n, delta, bias, basics, handled>>
  BY DEF WriteLastDigit
<1>2. q \in 0 .. Base - 1
  <2>1. T(k, bias) \in 1 .. Base - 1 /\ Base \in Nat
    BY Before, ThresholdRange, BootstringAssumption
  <2> QED
    BY <1>1, <2>1, Before
<1>3. ASSUME CountInBounds(output), ShortEnough, GoodBuffer(output), LaidOut,
             Reached' = RFCRead(Reached, ByteOfDigit(q)), pc' = "adapt"
      PROVE  Arrived'
  <2> DEFINE st == Reached
             c == ByteOfDigit(q)
             at == Len(InOrder(n, pos)[pos])
             S == InOrder(n, pos)[Len(label)]
  <2>1. /\ AmongDigits(st) /\ GoodState(st) /\ st.w \in Nat /\ st.i \in Nat
        /\ st.oldi \in Nat /\ st.n \in InitialN .. MaxScalar
    BY <1>1, <1>3, FollowedFacts DEF Arrived, InPass
  <2>2. c \in Nat /\ IsDigit(c) /\ DigitOf(c) = q
    <3>1. c \in 0 .. InitialN - 1
      BY <1>2, DigitComesBack
    <3> QED
      BY <1>2, <3>1, DigitComesBack
  <2>3. /\ st.kind = "reading" /\ st.k = k /\ st.bias = bias /\ st.n <= n
        /\ Len(st.out) = handled /\ basics <= handled /\ (st.oldi = 0 <=> handled = basics)
        /\ st.out = S
        /\ st.oldi + delta = (n - st.n) * (handled + 1) + at
        /\ st.i + q * st.w = st.oldi + delta
    BY <2>1 DEF AmongDigits, Ready, Distance
  <2>4. /\ n \in Nat /\ n >= InitialN /\ pos < Len(label) /\ label[pos + 1] = n
        /\ pos \in 0 .. Len(label) /\ n \in InitialN .. MaxScalar
        /\ handled \in Nat /\ delta \in Nat
    BY <1>1, Before DEF IndInv, InRange, InPass
  <2>5. /\ S \in Seq(Nat) /\ at \in 0 .. Len(S)
        /\ InOrder(n, pos + 1)[Len(label)] = Splice(S, at, <<n>>)
    BY <2>4, InOrderFacts
  <2>6. IsScalar(n)
    <3>1. pos + 1 \in 1 .. Len(label)
      BY <2>4, Before
    <3> QED
      BY <2>4, <3>1, LabelSeq
  <2> HIDE DEF st, c, at, S
  <2>7. at \in 0 .. handled /\ st.n \in InitialN .. n
    BY <2>1, <2>3, <2>4, <2>5, Constants DEF st
  <2> DEFINE x == n - st.n
             h == handled + 1
             sum == SumWith(st, q)
  <2>8. /\ x \in Nat /\ h \in Nat /\ x * h + at < WordSize
    BY <1>1, <1>3, <2>7, PlacesFit DEF InPass
  <2>9. sum = x * h + at /\ sum = st.oldi + delta
    BY <2>3 DEF SumWith
  <2>10. at \in 0 .. h - 1
    BY <2>4, <2>7
  <2>11. st.n + x = n
    BY <2>4, <2>7, Constants
  <2>12. sum - st.oldi = delta
    <3> HIDE DEF sum, x, h
    <3> QED
      BY <2>1, <2>4, <2>9 DEF st
  <2> HIDE DEF x
  <2>13. (x * h + at) \div h = x /\ (x * h + at) % h = at
    <3> HIDE DEF h
    <3> QED
      BY <2>8, <2>10, WrittenOut
  <2>14. sum \div h = x /\ sum % h = at /\ sum < WordSize
    <3> HIDE DEF sum, h
    <3> QED
      BY <2>8, <2>9, <2>13
  <2>15. Len(st.out) + 1 = h
    BY <2>3
  <2>16. ScalarWith(st, q) = n
    <3> HIDE DEF sum, h
    <3>1. ScalarWith(st, q) = st.n + sum \div h
      BY <2>15 DEF ScalarWith, sum
    <3> QED
      BY <2>11, <2>14, <3>1
  <2>17. Fits(st, q)
    BY <2>6, <2>14, <2>16 DEF Fits
  <2>18. DigitOf(c) < T(st.k, st.bias)
    BY <1>1, <2>2, <2>3
  <2> HIDE DEF sum, h
  <2>19. RFCRead(st, c) =
            [kind |-> "reading", n |-> n, i |-> at + 1, oldi |-> at + 1, w |-> 1, k |-> Base,
             bias |-> RFCReduce(Spread(delta, h, st.oldi = 0)),
             out |-> Splice(st.out, at, <<n>>)]
    <3>1. RFCRead(st, c) =
            [kind |-> "reading", n |-> ScalarWith(st, q),
             i |-> (sum % (Len(st.out) + 1)) + 1, oldi |-> (sum % (Len(st.out) + 1)) + 1,
             w |-> 1, k |-> Base,
             bias |-> RFCReduce(Spread(sum - st.oldi, Len(st.out) + 1, st.oldi = 0)),
             out |-> Splice(st.out, sum % (Len(st.out) + 1), <<ScalarWith(st, q)>>)]
      BY <2>1, <2>2, <2>3, <2>17, <2>18, LastDigitRead DEF st, sum
    <3> QED
      BY <2>12, <2>14, <2>15, <2>16, <3>1
  <2>20. Spread(delta, h, st.oldi = 0) = spread'
    <3>1. (st.oldi = 0) = (handled = basics)
      BY <2>3
    <3> QED
      BY <1>1, <3>1 DEF h
  <2>21. /\ Reached'.kind = "reading" /\ Reached'.n = n /\ Reached'.i = at + 1
         /\ Reached'.oldi = at + 1 /\ Reached'.w = 1 /\ Reached'.k = Base
         /\ Reached'.bias = RFCReduce(spread') /\ Reached'.out = Splice(S, at, <<n>>)
    <3>1. Reached' = RFCRead(st, c)
      BY <1>3 DEF st, c
    <3> QED
      BY <2>3, <2>19, <2>20, <3>1
  <2>22. Len(Splice(S, at, <<n>>)) = handled + 1
    <3> DEFINE one == <<n>>
    <3>1. one \in Seq(Nat) /\ Len(one) = 1
      BY <2>4
    <3> HIDE DEF one
    <3>2. Len(Splice(S, at, one)) = Len(S) + Len(one)
      BY <2>5, <3>1, SpliceFacts
    <3> QED
      BY <2>3, <3>1, <3>2 DEF one
  <2>23. InOrder(n, pos + 1)' = InOrder(n, pos + 1) /\ Len(InOrder(n, pos)[pos])' = at
    BY <1>1 DEF InOrder, at
  <2>24. RFCReduce(spread') = kAdapt' + RFCReduce(spread')
    <3>1. RFCReduce(spread') \in Nat
      <4>1. handled + 1 \in Nat /\ handled + 1 # 0 /\ (handled = basics) \in BOOLEAN
        BY Before
      <4>2. spread' \in Nat
        BY <1>1, <4>1, Before, SpreadType
      <4> QED
        BY <4>2, ReduceIsLoop
    <3> QED
      BY <1>1, <3>1
  <2>25. Rests(Reached, InOrder(n, pos + 1)[Len(label)])'
    BY <1>1, <2>5, <2>21, <2>23 DEF Rests
  <2>26. Inserted(Reached)'
    BY <1>1, <2>3, <2>21, <2>22, <2>23, <2>24, <2>25 DEF Inserted
  <2> QED
    BY <1>3, <2>26 DEF Arrived
<1> QED
  BY <1>1, <1>2, <1>3, WriteFollows

LEMMA AdaptLoopFollows == ASSUME IndInv, Follows, AdaptLoop PROVE Follows'
<1>1. /\ pc = "adapt" /\ pc' = pc /\ spread > AdaptLimit
      /\ spread' = spread \div (Base - TMin) /\ kAdapt' = kAdapt + Base
      /\ UNCHANGED <<label, pos, n, delta, bias, basics, handled, output>>
  BY DEF AdaptLoop
<1> SUFFICES ASSUME CountInBounds(output), ShortEnough PROVE Arrived'
  BY <1>1, QuietFollows DEF InPass
<1>2. Inserted(Reached)
  BY <1>1, FollowedFacts DEF Arrived, InPass
<1>3. Reached' = Reached
  BY <1>1, NothingWritten
<1>4. kAdapt + RFCReduce(spread) = kAdapt' + RFCReduce(spread')
  <2>1. RFCReduce(spread) = Base + RFCReduce(spread')
    BY <1>1, Before, ReduceIsLoop
  <2>2. RFCReduce(spread') \in Nat /\ Base \in Nat /\ kAdapt \in Nat
    <3>1. spread' \in Nat
      BY <1>1, Before, AdaptLoopType
    <3> QED
      BY <3>1, Before, ReduceIsLoop, BootstringAssumption
  <2> QED
    BY <1>1, <2>1, <2>2
<1>5. InOrder(n, pos + 1)' = InOrder(n, pos + 1) /\ InOrder(n, pos)' = InOrder(n, pos)
  BY <1>1 DEF InOrder
<1>6. Inserted(Reached)'
  BY <1>1, <1>2, <1>3, <1>4, <1>5 DEF Inserted, Rests
<1> QED
  BY <1>1, <1>6 DEF Arrived

LEMMA AdaptedFollows == ASSUME IndInv, Follows, Adapted PROVE Follows'
<1>1. /\ pc = "adapt" /\ pc' = "scan" /\ spread <= AdaptLimit
      /\ bias' = AdaptedBias(spread, kAdapt) /\ delta' = 0
      /\ handled' = handled + 1 /\ pos' = pos + 1
      /\ UNCHANGED <<label, n, basics, output>>
  BY DEF Adapted
<1> SUFFICES ASSUME CountInBounds(output), ShortEnough PROVE Arrived'
  BY <1>1, QuietFollows DEF InPass
<1> DEFINE st == Reached
           at == Len(InOrder(n, pos)[pos])
<1>2. /\ Inserted(st) /\ st.n \in Nat
  BY <1>1, FollowedFacts DEF Arrived, InPass
<1>3. Reached' = st
  BY <1>1, NothingWritten
<1>4. bias' = st.bias
  <2>1. RFCReduce(spread) = ((Base - TMin + 1) * spread) \div (spread + Skew)
    BY <1>1, Before, ReduceIsLoop
  <2> QED
    BY <1>1, <1>2, <2>1 DEF AdaptedBias, Inserted
<1>5. /\ n \in Nat /\ n >= InitialN /\ pos < Len(label) /\ label[pos + 1] = n
      /\ pos \in 0 .. Len(label) /\ handled \in Nat /\ basics \in Nat
  BY <1>1, Before DEF IndInv, InRange, InPass
<1>6. at \in Nat /\ Len(InOrder(n, pos + 1)[pos + 1]) = at + 1
  <2>1. /\ InOrder(n, pos)[Len(label)] \in Seq(Nat)
        /\ at \in 0 .. Len(InOrder(n, pos)[Len(label)])
        /\ Len(InOrder(n, pos + 1)[pos + 1]) = at + 1
    BY <1>5, InOrderFacts
  <2> QED
    BY <2>1
<1>7. /\ Rests(st, InOrder(n, pos + 1)[Len(label)]) /\ st.n = n /\ st.i = at + 1
      /\ Len(st.out) = handled + 1 /\ basics <= handled
  BY <1>2 DEF Inserted
<1> HIDE DEF st, at
<1>8. InOrder(n, pos)' = InOrder(n, pos + 1) /\ Len(InOrder(n, pos)'[pos']) = at + 1
  <2>1. InOrder(n, pos)' = InOrder(n, pos + 1)
    BY <1>1 DEF InOrder
  <2> QED
    BY <1>1, <1>6, <2>1
<1>9. Rests(Reached, InOrder(n, pos)[Len(label)])'
  BY <1>1, <1>3, <1>7, <1>8 DEF Rests
<1>10. Ready(Reached)'
  <2>1. st.oldi = st.i
    BY <1>7 DEF Rests
  <2>2. basics <= handled + 1 /\ handled + 1 # basics /\ st.oldi # 0 /\ n <= n
    BY <1>5, <1>6, <1>7, <2>1
  <2> QED
    BY <1>1, <1>3, <1>4, <1>7, <2>2 DEF Ready
<1>11. (Reached.i + delta = Distance(Reached, Len(InOrder(n, pos)[pos])))'
  <2> DEFINE h == handled + 1
  <2>1. st.i + 0 = (n - n) * (h + 1) + (at + 1)
    BY <1>5, <1>6, <1>7
  <2>2. handled' = h
    BY <1>1
  <2> HIDE DEF h
  <2> QED
    BY <1>1, <1>3, <1>7, <1>8, <2>1, <2>2 DEF Distance
<1>12. InScan(Reached)'
  BY <1>9, <1>10, <1>11 DEF InScan
<1> QED
  BY <1>1, <1>12 DEF Arrived

\* When all are handled the scalars inserted are the label's.
LEMMA ReturnFollows == ASSUME IndInv, Follows, Return PROVE Follows'
<1>1. /\ pc = "pass" /\ pc' = "done" /\ handled >= Len(label)
      /\ UNCHANGED <<label, pos, n, delta, bias, basics, handled, output>>
  BY DEF Return
<1> SUFFICES ASSUME CountInBounds(output), ShortEnough PROVE Arrived'
  BY <1>1, QuietFollows DEF InPass
<1>2. BeforePass(Reached)
  BY <1>1, FollowedFacts DEF Arrived
<1>3. Reached' = Reached
  BY <1>1, NothingWritten
<1>4. HandledIn(label, n, 0) = 1 .. Len(label)
  <2>1. handled \in 0 .. Len(label) /\ Len(label) \in Nat
    BY <1>1, HandledRange, Before
  <2>2. HandledIn(label, n, 0) \in SUBSET (1 .. Len(label))
    <3>1. 0 \in 0 .. Len(label)
      BY <2>1
    <3> QED
      BY <3>1, Before, Places
  <2>3. Cardinality(HandledIn(label, n, 0)) = Len(label)
    BY <1>1, <2>1 DEF IndInv, Counted
  <2> QED
    BY <2>1, <2>2, <2>3, SubsetCount
<1>5. InOrder(n, 0)[Len(label)] = label
  <2>1. label \in Seq(Nat)
    BY LabelSeq
  <2> QED
    BY <1>4, <2>1, KeptAll DEF InOrder
<1>6. Rests(Reached, label)'
  BY <1>1, <1>2, <1>3, <1>5 DEF BeforePass, Rests
<1> QED
  BY <1>1, <1>6 DEF Arrived

LEMMA StutterFollows == ASSUME IndInv, Follows, UNCHANGED vars PROVE Follows'
<1>1. UNCHANGED vars
  OBVIOUS
<1>2. Written' = Written /\ Skipped' = Skipped /\ Reached' = Reached /\ (LaidOut' <=> LaidOut)
  BY <1>1, NothingWritten DEF vars
<1>3. \A m, p : Kept(label, HandledIn(label, m, p))' = Kept(label, HandledIn(label, m, p))
  BY <1>1 DEF vars
<1>4. /\ InOrder(0, 0)' = InOrder(0, 0) /\ InOrder(n, 0)' = InOrder(n, 0)
      /\ InOrder(n, pos)' = InOrder(n, pos) /\ InOrder(n, pos + 1)' = InOrder(n, pos + 1)
  BY <1>1 DEF vars, InOrder
<1>5. (Arrived' <=> Arrived) /\ (ShortEnough' <=> ShortEnough)
  BY <1>1, <1>2, <1>4 DEF vars, Arrived, BeforePass, InScan, AmongDigits, Inserted, Ready, Rests,
     Distance, ShortEnough
<1> QED
  BY <1>1, <1>2, <1>4, <1>5 DEF vars, Follows

LEMMA StepFollows == IndInv /\ Follows /\ [Next]_vars => Follows'
  BY StartFollows, CopyASCIIFollows, SkipNonASCIIFollows, EndASCIIFollows, BeginPassFollows,
     PassFollows, MeetFollows, EndPassFollows, WriteDigitFollows, WriteLastDigitFollows,
     AdaptLoopFollows, AdaptedFollows, ReturnFollows, StutterFollows
  DEF Next

LEMMA FollowingDecodes == IndInv /\ Follows => PrefixDecodes
<1> SUFFICES ASSUME IndInv, Follows, pc \in {"scan", "done"}, ShortEnough, CountInBounds(output)
             PROVE  RFCDecode(Written)
                      = RFCOutcome("decoded", IF pc = "done" THEN label ELSE HandledScalars)
  BY DEF PrefixDecodes, Written
<1>1. LaidOut /\ Arrived /\ GoodBuffer(output)
  BY FollowedFacts DEF InPass
<1>2. Rests(Reached, IF pc = "done" THEN label ELSE HandledScalars)
  <2>1. HandledScalars = InOrder(n, pos)[Len(label)]
    BY DEF HandledScalars, InOrder, HandledIn
  <2> QED
    BY <1>1, <2>1 DEF Arrived, InScan
<1>3. Skipped \in 0 .. Len(Written) /\ Len(Written) \in Nat
  BY <1>1, ReachedFacts
<1>4. RFCConsumed(Written) = Skipped
  <2>1. /\ \A j \in Skipped + 1 .. Len(Written) : Written[j] # Hyphen
        /\ Skipped # 0 => Skipped # 1 /\ Written[Skipped] = Hyphen
    BY <1>1, Before DEF LaidOut, Skipped
  <2> QED
    BY <1>3, <2>1, ConsumedIs
<1>5. ~(\E j \in 1 .. Skipped - 1 : ~IsASCII(Written[j]))
  <2>1. \A j \in 1 .. Skipped - 1 : j \in 1 .. Len(Written)
    BY <1>3
  <2> QED
    BY <1>1, <2>1 DEF LaidOut
<1>6. RFCDecodeFrom(Written, Skipped) = RFCOutcome("decoded", Reached.out)
  BY <1>2, <1>5 DEF RFCDecodeFrom, Reached, Rests
<1> QED
  BY <1>2, <1>4, <1>6 DEF RFCDecode, Rests

\* What is handed to a decoder: ASCII, in which no hyphen stands first and
\* alone.
LEMMA DoneIsASCII ==
    ASSUME IndInv, Follows, pc = "done", CountInBounds(output)
    PROVE  /\ Contents(output) \in Seq(0 .. InitialN - 1)
           /\ {d \in 1 .. Len(Contents(output)) : Contents(output)[d] = Hyphen} # {1}
<1>1. LaidOut /\ GoodBuffer(output)
  BY DEF Follows
<1>2. /\ Skipped \in 0 .. Len(Written) /\ Len(Written) \in Nat
      /\ Written \in Seq(Byte) /\ Written \in Seq(Nat)
  BY <1>1, ReachedFacts
<1>3. Written \in Seq(0 .. InitialN - 1)
  <2>1. \A j \in 1 .. Len(Written) : Written[j] \in 0 .. InitialN - 1
    <3> SUFFICES ASSUME NEW j \in 1 .. Len(Written) PROVE Written[j] \in 0 .. InitialN - 1
      OBVIOUS
    <3>1. Written[j] \in Nat
      BY <1>2, ElementOfSeq
    <3>2. Written[j] < InitialN
      BY <1>1 DEF LaidOut, IsASCII
    <3> QED
      BY <3>1, <3>2, Constants
  <2>2. Written = [j \in 1 .. Len(Written) |-> Written[j]]
    BY <1>2, LenProperties
  <2> DEFINE D == 0 .. InitialN - 1
             l == Len(Written)
  <2>3. l \in Nat /\ \A j \in 1 .. l : Written[j] \in D
    BY <1>2, <2>1
  <2> HIDE DEF D
  <2>4. [j \in 1 .. l |-> Written[j]] \in Seq(D)
    <3> HIDE DEF l
    <3> QED
      BY <2>3
  <2> QED
    BY <2>2, <2>4 DEF D
<1>4. {d \in 1 .. Len(Written) : Written[d] = Hyphen} # {1}
  <2> SUFFICES ASSUME {d \in 1 .. Len(Written) : Written[d] = Hyphen} = {1} PROVE FALSE
    OBVIOUS
  <2>1. 1 \in 1 .. Len(Written) /\ Written[1] = Hyphen
    OBVIOUS
  <2>2. Skipped # 0
    BY <1>1, <1>2, <2>1 DEF LaidOut
  <2>3. Skipped \in 1 .. Len(Written) /\ Skipped # 1 /\ Written[Skipped] = Hyphen
    <3>1. basics # 0 /\ Skipped = basics + 1 /\ basics \in Nat
      BY <2>2, Before DEF Skipped
    <3>2. Written[Skipped] = Hyphen
      BY <1>1, <3>1 DEF LaidOut
    <3>3. Skipped \in 1 .. Len(Written) /\ Skipped # 1
      BY <1>2, <3>1
    <3> QED
      BY <3>2, <3>3
  <2> QED
    BY <2>3
<1> QED
  BY <1>3, <1>4 DEF Written

THEOREM FollowsInvariant == Spec => []Follows
<1>1. Init => Follows
  BY InitFollows
<1>2. IndInv /\ IndInv' /\ Follows /\ [Next]_vars => Follows'
  BY StepFollows
<1> QED
  BY <1>1, <1>2, Invariant, PTL DEF Spec

\* Between two integers the RFC's decoder makes of what is written the
\* scalars handled; when `encode` returns, the label (Punycode.swift:56-163).
THEOREM PrefixesDecode == Spec => []PrefixDecodes
<1>1. IndInv /\ Follows => PrefixDecodes
  BY FollowingDecodes
<1> QED
  BY <1>1, Invariant, FollowsInvariant, PTL

-----------------------------------------------------------------------------
(***************************************************************************)
(* The call and the RFC's encoder.  Where what the RFC writes fits, what   *)
(* is written when h scalars are handled is what the RFC has written then, *)
(* and the bias is the RFC's.  The call counts delta up, place by place;   *)
(* the RFC's encoder numbers the states of the decoder and subtracts: the  *)
(* state the decoder has reached, which Follows speaks of, links the two.  *)
(***************************************************************************)
Fitting == ShortEnough /\ OutputFits(RFCEncode(label))

Behind ==
    /\ Reached.n = RFCBehind(label, handled).n
    /\ Reached.oldi = RFCBehind(label, handled).i
    /\ bias = RFCBias(label, handled)

AsRFC ==
    /\ pc # "undefined"
    /\ pc # "start" => CountInBounds(output)
    /\ pc \notin {"start", "basic"} => basics = RFCBasics(label)
    /\ pc \in {"pass", "scan"} => Written = RFCWritten(label)[handled]
    /\ pc \in {"pass", "scan", "digits"} => Behind
    /\ pc = "digits" =>
            Written \o RFCDigits(bias)[q][k] = RFCWritten(label)[handled + 1]
    /\ pc = "adapt" =>
            /\ Written = RFCWritten(label)[handled + 1]
            /\ kAdapt + RFCReduce(spread) = RFCBias(label, handled + 1)
    /\ pc = "done" => Written = RFCWritten(label)[Len(label)]

Writes == Fitting => AsRFC

-----------------------------------------------------------------------------
(* The label as the RFC's encoder sees it. *)

LEMMA LabelIsLabel ==
    ASSUME IndInv
    PROVE  Label(label)
  BY Before DEF Label

\* A scalar that is met is the one the RFC inserts next.
LEMMA MetPlace ==
    ASSUME IndInv, pc \in InPass, pos < Len(label), label[pos + 1] = n
    PROVE  /\ handled \in Among(label) /\ RFCPlace(label, handled) = pos + 1
           /\ RFCAt(label, handled) = Len(InOrder(n, pos)[pos])
<1> DEFINE L == Len(label)
           H == HandledIn(label, n, pos)
           j == pos + 1
<1>1. /\ L \in Nat /\ n \in Nat /\ n >= InitialN /\ InitialN \in Nat
      /\ pos \in Nat /\ pos \in 0 .. L /\ pos < L
      /\ handled = Cardinality(H) /\ \A l \in 1 .. L : label[l] \in Nat
  BY Before DEF IndInv, InRange, Counted
<1>2. j \in 1 .. L /\ label[j] = n /\ ~IsASCII(label[j])
  <2>1. j \in 1 .. L
    <3> HIDE DEF L
    <3> QED
      BY <1>1
  <2> QED
    BY <1>1, <2>1 DEF IsASCII
<1>3. RFCEarlier(label, j) = H
  <2>1. \A l \in 1 .. L : l < j <=> l <= pos
    <3> HIDE DEF L
    <3> QED
      BY <1>1
  <2> QED
    BY <1>2, <2>1 DEF RFCEarlier, HandledIn
<1>4. RFCPlace(label, handled) = j
  <2> HIDE DEF j, H
  <2> QED
    BY <1>1, <1>2, <1>3, LabelIsLabel, PlaceIs
<1>5. RFCAt(label, handled) = Len(InOrder(n, pos)[pos])
  <2>1. label \in Seq(Nat)
    BY LabelSeq
  <2>2. {l \in H : l < j} = {l \in 1 .. L : l \in H /\ l <= pos}
    <3>1. \A l \in H : l \in 1 .. L /\ (l < j <=> l <= pos)
      <4>1. \A l \in H : l \in 1 .. L
        BY DEF HandledIn
      <4> HIDE DEF L, H
      <4> QED
        BY <1>1, <4>1
    <3> HIDE DEF H, L, j
    <3> QED
      BY <3>1
  <2> HIDE DEF H, j
  <2>3. Len(Kept(label, H)[pos]) = Cardinality({l \in 1 .. Len(label) : l \in H /\ l <= pos})
    <3>1. \A p \in 0 .. Len(label) :
              Len(Kept(label, H)[p]) = Cardinality({l \in 1 .. Len(label) : l \in H /\ l <= p})
      BY <2>1, KeptCount
    <3> QED
      BY <1>1, <3>1
  <2> QED
    BY <1>3, <1>4, <2>2, <2>3 DEF RFCAt, InOrder, H
<1>6. handled \in Among(label)
  <2>1. H \in SUBSET (1 .. L) /\ ASCIIPlaces(label) \subseteq H /\ j \notin H
    BY <1>1, Places DEF HandledIn, ASCIIPlaces
  <2> HIDE DEF H, L, j
  <2>2. /\ IsFiniteSet(H) /\ Cardinality(H) \in 0 .. L
        /\ Cardinality(H) = L => H = 1 .. L
    BY <1>1, <2>1, SubsetCount
  <2>3. Cardinality(ASCIIPlaces(label)) <= Cardinality(H)
    BY <2>1, <2>2, FS_Subset
  <2>4. Cardinality(H) # L
    BY <1>2, <2>1, <2>2
  <2>5. RFCBasics(label) \in Nat
    BY LabelIsLabel, EarlierFacts DEF Label
  <2> QED
    BY <1>1, <2>2, <2>3, <2>4, <2>5 DEF Among, RFCBasics, L
<1> QED
  BY <1>4, <1>5, <1>6

\* The places that are counted up to it are the states that are subtracted.
LEMMA DeltaIsRFC ==
    ASSUME IndInv, Follows, CountInBounds(output), ShortEnough, Behind,
           pc \in {"scan", "digits"}, pos < Len(label), label[pos + 1] = n
    PROVE  handled \in Among(label) /\ delta = RFCDelta(label, handled)
<1> DEFINE at == Len(InOrder(n, pos)[pos])
           st == Reached
<1>1. /\ handled \in Among(label) /\ label[RFCPlace(label, handled)] = n
      /\ RFCAt(label, handled) = at
  BY MetPlace DEF InPass
<1>2. st.oldi + delta = (n - st.n) * (handled + 1) + at /\ st.n <= n
  <2>1. CASE pc = "scan"
    <3>1. InScan(st)
      BY <2>1, FollowedFacts DEF Arrived, InPass
    <3> QED
      BY <3>1 DEF InScan, Ready, Rests, Distance
  <2>2. CASE pc = "digits"
    <3>1. AmongDigits(st)
      BY <2>2, FollowedFacts DEF Arrived, InPass
    <3> QED
      BY <3>1 DEF AmongDigits, Ready, Distance
  <2> QED
    BY <2>1, <2>2
<1>3. RFCDelta(label, handled) = (n - st.n) * (handled + 1) + at - st.oldi
  BY <1>1 DEF RFCDelta, Behind
<1>4. st.oldi \in Nat /\ st.n \in Nat /\ delta \in Nat /\ handled \in Nat /\ n \in Nat
  BY FollowedFacts, Before DEF InPass
<1>5. at \in Nat
  BY <1>1, LabelIsLabel, PlaceFacts
<1> HIDE DEF at, st
<1> DEFINE p == (n - st.n) * (handled + 1)
<1>6. p \in Nat
  <2>1. n - st.n \in Nat /\ handled + 1 \in Nat
    BY <1>2, <1>4
  <2> QED
    BY <2>1, Products
<1>7. st.oldi + delta = p + at /\ RFCDelta(label, handled) = p + at - st.oldi
  BY <1>2, <1>3
<1> HIDE DEF p
<1> QED
  BY <1>1, <1>4, <1>5, <1>6, <1>7

-----------------------------------------------------------------------------
(* Step by step, where what the RFC writes fits. *)

\* No byte of what the RFC writes comes to the end of the buffer.
LEMMA PutInRoom ==
    ASSUME IndInv, Fitting, CountInBounds(output), CountInBounds(output) => GoodBuffer(output),
           NEW e \in Byte, NEW next, Put(e, next),
           NEW h \in RFCBasics(label) .. Len(label),
           Len(Written) + 1 <= Len(RFCWritten(label)[h])
    PROVE  /\ pc' = next /\ CountInBounds(output')
           /\ Written' = Append(Written, e) /\ Written' = Written \o <<e>>
<1> DEFINE all == RFCEncode(label)
<1>1. /\ Written \in Seq(Byte) /\ Len(Written) = Count(output) /\ Count(output) \in Nat
      /\ output \in Buffer
  BY ContentsType, Before DEF Written
<1>2. Count(output) + 1 <= Len(all) /\ Len(all) \in Nat
  <2> DEFINE part == RFCWritten(label)[h]
  <2>1. /\ Len(label) \in h .. Len(label) /\ Len(label) \in RFCBasics(label) .. Len(label)
        /\ h \in RFCBasics(label) .. Len(label)
    <3>1. RFCBasics(label) \in 0 .. Len(label) /\ Len(label) \in Nat
      BY LabelIsLabel, EarlierFacts DEF Label
    <3> QED
      BY <3>1
  <2>2. Len(part) \in Nat /\ Len(all) \in Nat
    BY <2>1, LabelIsLabel, WrittenType DEF RFCEncode
  <2>3. Len(part) <= Len(all)
    BY <2>1, LabelIsLabel, WrittenGrows DEF RFCEncode
  <2>4. Count(output) + 1 <= Len(part)
    BY <1>1
  <2> HIDE DEF part, all
  <2> QED
    BY <1>1, <2>2, <2>3, <2>4
<1>3. IsInline(output) => Len(all) <= InlineCapacity
  BY DEF Fitting, OutputFits
<1> HIDE DEF all
<1>4. IsInline(output) => /\ Count(output) = output.cells[CountCell]
                          /\ output.cells[CountCell] + 1 <= InlineCapacity
                          /\ output.cells[CountCell] \in Nat
  BY <1>1, <1>2, <1>3, InlineCapacityAssumption DEF Count
<1>5. ~WritesPastTuple(output)
  BY <1>4, InlineCapacityAssumption DEF WritesPastTuple
<1>6. output' = AppendUnchecked(output, e)
  BY <1>5 DEF Put
<1>7. Count(output') = Count(output) + 1
  BY <1>1, <1>5, <1>6, AppendCounts
<1>8. CountInBounds(output')
  <2>1. IsInline(output') => IsInline(output) /\ Count(output') = output'.cells[CountCell]
    BY <1>6 DEF AppendUnchecked, IsInline, Inline, Heap, Count
  <2> QED
    BY <1>4, <1>7, <2>1 DEF CountInBounds
<1>9. pc' = next /\ Written' = Append(Written, e)
  BY <1>8, PutReads
<1>10. Append(Written, e) = Written \o <<e>>
  BY <1>1, AppendIsConcat
<1> QED
  BY <1>8, <1>9, <1>10

\* The label and the representation of the buffer stay what they are.
LEMMA SameFitting ==
    ASSUME IndInv, [Next]_vars
    PROVE  Fitting' <=> Fitting
<1>1. label' = label /\ (IsInline(output') <=> IsInline(output))
  <2>1. CASE Start
    BY <2>1 DEF Start, RemoveAll, IsInline, EmptyInline, Inline, Heap
  <2>2. CASE CopyASCII \/ EndASCII \/ WriteDigit \/ WriteLastDigit
    <3>1. label' = label
      BY <2>2 DEF CopyASCII, EndASCII, WriteDigit, WriteLastDigit
    <3>2. output' = output \/ \E e : output' = AppendUnchecked(output, e)
      BY <2>2 DEF CopyASCII, EndASCII, WriteDigit, WriteLastDigit, Put
    <3>3. \A e : IsInline(AppendUnchecked(output, e)) <=> IsInline(output)
      BY DEF AppendUnchecked, IsInline, Inline, Heap
    <3> QED
      BY <3>1, <3>2, <3>3
  <2>3. CASE SkipNonASCII \/ BeginPass \/ Pass \/ Meet \/ EndPass \/ AdaptLoop \/ Adapted \/ Return
    BY <2>3 DEF SkipNonASCII, BeginPass, Pass, Meet, EndPass, AdaptLoop, Adapted, Return
  <2>4. CASE UNCHANGED vars
    BY <2>4 DEF vars
  <2> QED
    BY <2>1, <2>2, <2>3, <2>4 DEF Next
<1> QED
  BY <1>1 DEF Fitting, ShortEnough, OutputFits

\* The ASCII code points are those the RFC copies.
LEMMA BasicFacts ==
    ASSUME IndInv
    PROVE  /\ InOrder(0, 0) = Kept(label, ASCIIPlaces(label))
           /\ \A p \in 0 .. Len(label) : Len(InOrder(0, 0)[p]) <= Len(InOrder(0, 0)[Len(label)])
           /\ InOrder(0, 0)[Len(label)] \in Seq(Nat)
           /\ RFCBasics(label) \in RFCBasics(label) .. Len(label)
           /\ RFCWritten(label)[RFCBasics(label)]
                = InOrder(0, 0)[Len(label)]
                  \o (IF InOrder(0, 0)[Len(label)] = <<>> THEN <<>> ELSE <<Hyphen>>)
<1>1. /\ label \in Seq(Nat) /\ Len(label) \in Nat /\ Label(label)
      /\ \A j \in 1 .. Len(label) : label[j] \in Nat
  BY LabelSeq, LabelIsLabel, Before
<1>2. InOrder(0, 0) = Kept(label, ASCIIPlaces(label))
  <2>1. \A j \in 1 .. Len(label) : ~(label[j] < 0) /\ ~(j <= 0)
    BY <1>1
  <2> QED
    BY <2>1 DEF InOrder, HandledIn, ASCIIPlaces
<1>3. /\ Len(label) \in 0 .. Len(label)
      /\ \A p \in 0 .. Len(label) : Len(label) \in p .. Len(label)
  BY <1>1
<1>4. \A p \in 0 .. Len(label) : Len(InOrder(0, 0)[p]) <= Len(InOrder(0, 0)[Len(label)])
  BY <1>1, <1>2, <1>3, KeptGrows
<1>5. InOrder(0, 0)[Len(label)] \in Seq(Nat)
  BY <1>1, <1>2, <1>3, KeptType
<1>6. RFCBasics(label) \in RFCBasics(label) .. Len(label)
  <2>1. RFCBasics(label) \in 0 .. Len(label)
    BY <1>1, EarlierFacts
  <2> QED
    BY <1>1, <2>1
<1> QED
  BY <1>1, <1>2, <1>4, <1>5, <1>6, WrittenIs DEF RFCBasicString

LEMMA StartWrites == ASSUME IndInv, Start PROVE AsRFC'
<1>1. /\ output \in Buffer /\ output' = RemoveAll(output, TRUE) /\ pc' = "basic"
  BY Before DEF Start
<1>2. CountInBounds(output')
  <2>1. CASE IsInline(output)
    BY <1>1, <2>1, EmptyReads DEF RemoveAll, GoodBuffer
  <2>2. CASE ~IsInline(output)
    BY <1>1, <2>2 DEF RemoveAll, CountInBounds, IsInline, Heap
  <2> QED
    BY <2>1, <2>2
<1> QED
  BY <1>1, <1>2 DEF AsRFC

LEMMA CopyASCIIWrites == ASSUME IndInv, Follows, Fitting, AsRFC, CopyASCII PROVE AsRFC'
<1> DEFINE c == label[pos + 1]
           all == InOrder(0, 0)[Len(label)]
<1>1. /\ pc = "basic" /\ pos < Len(label) /\ IsASCII(c) /\ Put(c, "basic")
      /\ pos + 1 \in 0 .. Len(label)
  BY Before DEF CopyASCII, Scanning, CodePoint
<1>2. c \in Byte /\ c \in Nat
  <2>1. c \in 0 .. InitialN - 1
    BY <1>1, Before DEF IsASCII, CodePoint
  <2> QED
    BY <2>1, EncodedBytesAssumption
<1>3. CountInBounds(output) /\ GoodBuffer(output) /\ Written = InOrder(0, 0)[pos]
  BY <1>1 DEF AsRFC, Follows
<1>4. Written \in Seq(Byte) /\ Len(Written) \in Nat
  BY <1>3, ContentsType, LenProperties DEF Written
<1>5. InOrder(0, 0)[pos + 1] = Append(Written, c)
  BY <1>1, <1>3, ASCIIKept
<1>6. Len(Written) + 1 <= Len(all)
  <2>1. Len(Append(Written, c)) = Len(Written) + 1
    BY <1>2, <1>4, AppendProperties
  <2>2. Len(InOrder(0, 0)[pos + 1]) <= Len(all)
    BY <1>1, BasicFacts
  <2> QED
    BY <1>5, <2>1, <2>2
<1>7. Len(Written) + 1 <= Len(RFCWritten(label)[RFCBasics(label)])
  <2> DEFINE tail == IF all = <<>> THEN <<>> ELSE <<Hyphen>>
  <2>1. tail \in Seq(Nat) /\ Len(tail) \in Nat
    <3>1. Hyphen \in Nat
      BY CodePointAssumption
    <3> HIDE DEF all
    <3> QED
      BY <3>1
  <2>2. all \in Seq(Nat) /\ RFCWritten(label)[RFCBasics(label)] = all \o tail
    BY BasicFacts
  <2> HIDE DEF all, tail
  <2>3. Len(all \o tail) = Len(all) + Len(tail) /\ Len(all) \in Nat
    BY <2>1, <2>2, ConcatProperties, LenProperties
  <2> QED
    BY <1>4, <1>6, <2>1, <2>2, <2>3
<1>8. pc' = "basic" /\ CountInBounds(output')
  <2>1. RFCBasics(label) \in RFCBasics(label) .. Len(label)
    BY BasicFacts
  <2> HIDE DEF c
  <2> QED
    BY <1>1, <1>2, <1>3, <1>7, <2>1, PutInRoom
<1> QED
  BY <1>8 DEF AsRFC

LEMMA SkipNonASCIIWrites == ASSUME IndInv, AsRFC, SkipNonASCII PROVE AsRFC'
  BY DEF SkipNonASCII, AsRFC

\* The delimiter is written when there is something before it.
LEMMA EndASCIIWrites == ASSUME IndInv, Follows, Fitting, AsRFC, EndASCII PROVE AsRFC'
<1> DEFINE b == Count(output)
           W == Written
           r == RFCBasics(label)
<1>1. /\ pc = "basic" /\ pos = Len(label) /\ basics' = b /\ handled' = b
      /\ label' = label /\ bias' = bias /\ bias = InitialBias
      /\ b = 0 => pc' = "pass" /\ output' = output
      /\ b # 0 => Put(Hyphen, "pass")
  BY Before DEF EndASCII, Scanning, Follows
<1>2. CountInBounds(output) /\ GoodBuffer(output) /\ W = InOrder(0, 0)[Len(label)]
  BY <1>1 DEF AsRFC, Follows
<1>3. W \in Seq(Byte) /\ Len(W) = b /\ b \in Nat
  BY <1>2, ContentsType DEF Written
<1>4. b = r
  <2>1. ASCIIUpTo(label, Len(label)) = ASCIIPlaces(label)
    BY Before DEF ASCIIUpTo, ASCIIPlaces
  <2> QED
    BY <1>1, <2>1 DEF IndInv, Counted, RFCBasics
<1>5. RFCWritten(label)[r] = IF b = 0 THEN W ELSE W \o <<Hyphen>>
  <2>1. RFCWritten(label)[r] = W \o (IF W = <<>> THEN <<>> ELSE <<Hyphen>>)
    BY <1>2, BasicFacts
  <2>2. b = 0 <=> W = <<>>
    <3> HIDE DEF b, W
    <3> QED
      BY <1>3, EmptySeq
  <2>3. W \o <<>> = W
    BY <1>3, ConcatEmptySeq
  <2> QED
    BY <2>1, <2>2, <2>3
<1>6. pc' = "pass" /\ CountInBounds(output') /\ Written' = RFCWritten(label)[r]
  <2>1. CASE b = 0
    BY <1>1, <1>2, <1>5, <2>1 DEF Written
  <2>2. CASE b # 0
    <3>1. Len(W) + 1 <= Len(RFCWritten(label)[r])
      <4>1. W \o <<Hyphen>> = Append(W, Hyphen) /\ Len(Append(W, Hyphen)) = Len(W) + 1
        BY <1>3, Constants, AppendIsConcat, AppendProperties
      <4> QED
        BY <1>3, <1>5, <2>2, <4>1
    <3>2. Put(Hyphen, "pass") /\ Hyphen \in Byte /\ r \in r .. Len(label)
      BY <1>1, <2>2, Constants, BasicFacts
    <3> HIDE DEF b, r
    <3>3. /\ pc' = "pass" /\ CountInBounds(output') /\ Written' = W \o <<Hyphen>>
      BY <1>2, <3>1, <3>2, PutInRoom DEF r
    <3> QED
      BY <1>5, <2>2, <3>3
  <2> QED
    BY <2>1, <2>2
<1>7. Behind'
  <2>1. Reached' = RFCInitial(W)
    BY <1>6, EndASCIIReads
  <2>2. Reached'.n = InitialN /\ Reached'.oldi = 0
    BY <2>1 DEF RFCInitial
  <2>3. RFCBehind(label, r) = [n |-> InitialN, i |-> 0] /\ RFCBias(label, r) = InitialBias
    BY DEF RFCBehind, RFCBias
  <2> HIDE DEF b, r
  <2> QED
    BY <1>1, <1>4, <2>2, <2>3 DEF Behind
<1> QED
  BY <1>1, <1>4, <1>6, <1>7 DEF AsRFC

\* Between passes and among the scalars of one nothing changes that counts.
LEMMA QuietWrites ==
    ASSUME AsRFC, pc \in {"pass", "scan"}, pc' \in {"pass", "scan"},
           UNCHANGED <<label, bias, basics, handled, output>>
    PROVE  AsRFC'
<1>1. Written' = Written /\ Reached' = Reached
  BY NothingWritten
<1>2. /\ CountInBounds(output) /\ basics = RFCBasics(label)
      /\ Written = RFCWritten(label)[handled] /\ Behind
  BY DEF AsRFC
<1>3. Behind'
  BY <1>1, <1>2 DEF Behind
<1> QED
  BY <1>1, <1>2, <1>3 DEF AsRFC

\* The integer that is to be written is the RFC's.
LEMMA MeetWrites == ASSUME IndInv, Follows, Fitting, AsRFC, Meet PROVE AsRFC'
<1>1. /\ pc = "scan" /\ pc' = "digits" /\ pos < Len(label) /\ label[pos + 1] = n
      /\ CodePoint = n /\ delta' = PassedOver /\ q' = delta' /\ k' = Base
      /\ UNCHANGED <<label, pos, n, bias, basics, handled, output>>
  BY DEF Meet, Scanning, CodePoint
<1>2. q' = delta
  BY <1>1, PassedOverFacts, Before
<1>3. /\ CountInBounds(output) /\ basics = RFCBasics(label)
      /\ Written = RFCWritten(label)[handled] /\ Behind
  BY <1>1 DEF AsRFC
<1>4. handled \in Among(label) /\ delta = RFCDelta(label, handled)
  BY <1>1, <1>3, DeltaIsRFC DEF Fitting
<1>5. Written' = Written /\ Reached' = Reached
  BY <1>1, NothingWritten
<1>6. Written \o RFCDigits(bias)[delta][Base] = RFCWritten(label)[handled + 1]
  <2>1. RFCWritten(label)[handled + 1] = RFCWritten(label)[handled] \o RFCDeltaString(label, handled)
    BY <1>4, LabelIsLabel, WrittenIs
  <2>2. RFCDeltaString(label, handled) = RFCDigits(bias)[delta][Base]
    BY <1>3, <1>4 DEF RFCDeltaString, Behind
  <2> QED
    BY <1>3, <2>1, <2>2
<1>7. Behind'
  BY <1>1, <1>3, <1>5 DEF Behind
<1> QED
  BY <1>1, <1>2, <1>3, <1>5, <1>6, <1>7 DEF AsRFC

\* A digit of what is still to be written fits, and is written.
LEMMA DigitFits ==
    ASSUME IndInv, Follows, Fitting, AsRFC, pc = "digits", NEW d \in 0 .. Base - 1, NEW next,
           Put(ByteOfDigit(d), next), NEW rest \in Seq(Nat),
           RFCDigits(bias)[q][k] = <<ByteOfDigit(d)>> \o rest
    PROVE  /\ pc' = next /\ CountInBounds(output')
           /\ Written' \o rest = RFCWritten(label)[handled + 1]
           /\ Written' = Written \o <<ByteOfDigit(d)>>
           /\ handled \in Among(label) /\ handled + 1 \in RFCBasics(label) .. Len(label)
<1> DEFINE e == ByteOfDigit(d)
           t == <<e>>
           all == RFCWritten(label)[handled + 1]
<1>1. /\ CountInBounds(output) /\ GoodBuffer(output)
      /\ Written \o RFCDigits(bias)[q][k] = all
  BY DEF AsRFC, Follows, InPass
<1>2. Written \in Seq(Byte) /\ Written \in Seq(Nat) /\ Len(Written) \in Nat
  BY <1>1, ReachedFacts DEF Follows, InPass
<1>3. handled \in Among(label) /\ handled + 1 \in RFCBasics(label) .. Len(label)
  <2>1. handled \in Among(label)
    BY MetPlace DEF IndInv, InRange, InPass
  <2>2. RFCBasics(label) \in Nat /\ Len(label) \in Nat
    BY LabelIsLabel, EarlierFacts DEF Label
  <2> QED
    BY <2>1, <2>2 DEF Among
<1>4. e \in Byte /\ t \in Seq(Nat) /\ Len(t) = 1
  <2>1. e \in Byte /\ e \in Nat
    <3>1. e \in 0 .. InitialN - 1
      BY DigitComesBack
    <3> HIDE DEF e
    <3> QED
      BY <3>1, EncodedBytesAssumption
  <2> HIDE DEF e
  <2> QED
    BY <2>1
<1>5. RFCDigits(bias)[q][k] = t \o rest
  OBVIOUS
<1> HIDE DEF e, t
<1>6. all = (Written \o t) \o rest
  <2>1. Written \in Seq(Nat) /\ t \in Seq(Nat) /\ rest \in Seq(Nat)
    BY <1>2, <1>4
  <2>2. (Written \o t) \o rest = Written \o (t \o rest)
    <3>1. \A x, y, z \in Seq(Nat) : (x \o y) \o z = x \o (y \o z)
      BY ConcatAssociative
    <3> QED
      BY <2>1, <3>1, Zenon
  <2> QED
    BY <1>1, <1>5, <2>2, Zenon
<1>7. Len(Written) + 1 <= Len(all)
  <2>1. Written \o t \in Seq(Nat) /\ Len(Written \o t) = Len(Written) + 1
    <3>1. Written \in Seq(Nat) /\ t \in Seq(Nat)
      BY <1>2, <1>4
    <3>2. Written \o t \in Seq(Nat) /\ Len(Written \o t) = Len(Written) + Len(t)
      BY <3>1, ConcatProperties, Zenon
    <3> QED
      BY <1>4, <3>2
  <2>2. Len((Written \o t) \o rest) = Len(Written \o t) + Len(rest) /\ Len(rest) \in Nat
    BY <2>1, ConcatProperties, LenProperties
  <2> QED
    BY <1>2, <1>6, <2>1, <2>2
<1>8. pc' = next /\ CountInBounds(output') /\ Written' = Written \o t
  <2>1. Put(e, next)
    BY DEF e
  <2>2. pc' = next /\ CountInBounds(output') /\ Written' = Written \o <<e>>
    BY <1>1, <1>3, <1>4, <1>7, <2>1, PutInRoom DEF all
  <2> QED
    BY <2>2 DEF t
<1>9. Written' \o rest = all
  BY <1>6, <1>8
<1> QED
  BY <1>3, <1>8, <1>9 DEF e, t, all

LEMMA WriteDigitWrites == ASSUME IndInv, Follows, Fitting, AsRFC, WriteDigit PROVE AsRFC'
<1> DEFINE t == T(k, bias)
           d == t + ((q - t) % (Base - t))
           rest == RFCDigits(bias)[Rest(q, t)][k + Base]
<1>1. /\ pc = "digits" /\ q >= t /\ Put(ByteOfDigit(d), "digits")
      /\ q' = Rest(q, t) /\ k' = k + Base
      /\ UNCHANGED <<label, pos, n, delta, bias, basics, handled>>
  BY DEF WriteDigit, Digit, Quotient, Rest
<1>2. t \in 1 .. Base - 1 /\ Base \in Nat /\ q \in Nat /\ k \in Nat /\ bias \in Nat
  BY Before, ThresholdRange, BootstringAssumption
<1>3. ~(q < t)
  <2> HIDE DEF t
  <2> QED
    BY <1>1, <1>2
<1>4. RFCDigits(bias)[q][k] = <<ByteOfDigit(d)>> \o rest
  BY <1>2, <1>3, DigitsAre
<1>5. rest \in Seq(Nat)
  <2>1. Rest(q, t) \in Nat /\ k + Base \in Nat
    BY <1>2, <1>3, RestIsLess
  <2> HIDE DEF t
  <2> QED
    BY <1>2, <2>1, DigitsType
<1>6. d \in 0 .. Base - 1 /\ d \in t .. Base - 1
  <2> DEFINE m == (q - t) % (Base - t)
  <2>1. m \in 0 .. Base - t - 1
    <3> HIDE DEF t
    <3>1. q - t \in Nat /\ Base - t \in Nat /\ Base - t # 0
      BY <1>1, <1>2
    <3> DEFINE x == q - t
               y == Base - t
    <3> HIDE DEF x, y
    <3>2. x % y \in 0 .. y - 1
      BY <3>1 DEF x, y
    <3> QED
      BY <3>2 DEF x, y
  <2> HIDE DEF t, m
  <2> QED
    BY <1>2, <2>1
<1> HIDE DEF d, rest
<1>7. /\ pc' = "digits" /\ CountInBounds(output')
      /\ Written' \o rest = RFCWritten(label)[handled + 1]
  BY <1>1, <1>4, <1>5, <1>6, DigitFits
<1>8. Behind'
  <2> DEFINE c == ByteOfDigit(d)
             st == Reached
  <2>1. Behind /\ CountInBounds(output)
    BY <1>1 DEF AsRFC
  <2>2. Reached' = RFCRead(st, c)
    BY <1>1, <1>6, <1>7, DigitRuns
  <2>3. AmongDigits(st) /\ st \in States
    BY <1>1, <2>1, FollowedFacts DEF Fitting, Arrived, InPass, GoodState
  <2>4. IsDigit(c) /\ DigitOf(c) = d
    BY <1>6, DigitComesBack
  <2>5. st.kind = "reading" /\ T(st.k, st.bias) = t
    BY <2>3 DEF AmongDigits, Ready
  <2>6. ~(d < t)
    <3> HIDE DEF t
    <3> QED
      BY <1>2, <1>6
  <2> HIDE DEF st, c, t
  <2>7. RFCRead(st, c) = [st EXCEPT !.i = SumWith(st, d), !.w = st.w * (Base - t),
                                    !.k = st.k + Base]
    BY <2>4, <2>5, <2>6, DigitRead
  <2>8. RFCRead(st, c).n = st.n /\ RFCRead(st, c).oldi = st.oldi
    BY <2>3, <2>7 DEF States, st
  <2> QED
    BY <1>1, <2>1, <2>2, <2>8 DEF Behind, st
<1>9. basics = RFCBasics(label)
  BY <1>1 DEF AsRFC
<1>10. Written' \o RFCDigits(bias')[q'][k'] = RFCWritten(label')[handled' + 1]
  BY <1>1, <1>7 DEF rest
<1> QED
  BY <1>1, <1>7, <1>8, <1>9, <1>10 DEF AsRFC

LEMMA WriteLastDigitWrites == ASSUME IndInv, Follows, Fitting, AsRFC, WriteLastDigit PROVE AsRFC'
<1> DEFINE t == T(k, bias)
<1>1. /\ pc = "digits" /\ q < t /\ Put(ByteOfDigit(q), "adapt")
      /\ spread' = Spread(delta, handled + 1, handled = basics) /\ kAdapt' = 0
      /\ UNCHANGED <<label, pos, n, delta, bias, basics, handled, q, k>>
  BY DEF WriteLastDigit
<1>2. t \in 1 .. Base - 1 /\ Base \in Nat /\ q \in Nat /\ k \in Nat /\ bias \in Nat
  BY Before, ThresholdRange, BootstringAssumption
<1>3. q \in 0 .. Base - 1
  <2> HIDE DEF t
  <2> QED
    BY <1>1, <1>2
<1>4. RFCDigits(bias)[q][k] = <<ByteOfDigit(q)>> \o <<>> /\ <<>> \in Seq(Nat)
  <2> DEFINE c == <<ByteOfDigit(q)>>
  <2>1. RFCDigits(bias)[q][k] = c
    BY <1>1, <1>2, DigitsAre
  <2>2. c \in Seq(Nat)
    BY <1>2, <2>1, DigitsType
  <2> HIDE DEF c
  <2>3. c \o <<>> = c /\ <<>> \in Seq(Nat)
    BY <2>2, ConcatEmptySeq, EmptySeq
  <2> QED
    BY <2>1, <2>3 DEF c
<1>5. /\ pc' = "adapt" /\ CountInBounds(output')
      /\ Written' \o <<>> = RFCWritten(label)[handled + 1]
      /\ Written' = Written \o <<ByteOfDigit(q)>>
      /\ handled \in Among(label) /\ handled + 1 \in RFCBasics(label) .. Len(label)
  BY <1>1, <1>3, <1>4, DigitFits
<1>6. Written' = RFCWritten(label)[handled + 1]
  <2>1. GoodBuffer(output')
    BY <1>1, <1>3, <1>5, DigitRuns
  <2>2. Written' \in Seq(Byte)
    BY <2>1, ContentsType DEF Written
  <2> QED
    BY <1>5, <2>2, ConcatEmptySeq
<1>7. basics = RFCBasics(label) /\ Behind /\ CountInBounds(output)
  BY <1>1 DEF AsRFC
<1>8. delta = RFCDelta(label, handled)
  BY <1>1, <1>7, DeltaIsRFC DEF Fitting, IndInv, InRange
<1>9. RFCBias(label, handled + 1) = RFCReduce(spread')
  <2> DEFINE h == handled + 1
  <2>1. h - 1 = handled /\ h # RFCBasics(label) /\ (h - 1 = RFCBasics(label) <=> handled = basics)
    <3>1. handled \in Nat /\ RFCBasics(label) \in Nat /\ handled >= RFCBasics(label)
      <4>1. RFCBasics(label) \in Nat /\ handled \in Nat /\ Len(label) \in Nat
        BY LabelIsLabel, EarlierFacts, Before DEF Label
      <4> QED
        BY <1>5, <4>1 DEF Among
    <3> QED
      BY <1>7, <3>1
  <2>2. RFCBias(label, h) = RFCAdapt(RFCDelta(label, h - 1), h, h - 1 = RFCBasics(label))
    <3> HIDE DEF h
    <3> QED
      BY <2>1 DEF RFCBias
  <2>3. (h - 1 = RFCBasics(label)) = (handled = basics)
    BY <2>1
  <2>4. RFCBias(label, h) = RFCAdapt(delta, h, handled = basics)
    BY <1>8, <2>1, <2>2, <2>3
  <2> QED
    BY <1>1, <2>4, AdaptIsReduce
<1>10. kAdapt' + RFCReduce(spread') = RFCReduce(spread')
  <2>1. handled + 1 \in Nat /\ handled + 1 # 0 /\ (handled = basics) \in BOOLEAN /\ delta \in Nat
    BY Before
  <2>2. spread' \in Nat
    BY <1>1, <2>1, SpreadType
  <2> QED
    BY <1>1, <2>2, ReduceIsLoop
<1> QED
  BY <1>1, <1>5, <1>6, <1>7, <1>9, <1>10 DEF AsRFC

LEMMA AdaptLoopWrites == ASSUME IndInv, AsRFC, AdaptLoop PROVE AsRFC'
<1>1. /\ pc = "adapt" /\ pc' = pc /\ spread > AdaptLimit
      /\ spread' = spread \div (Base - TMin) /\ kAdapt' = kAdapt + Base
      /\ UNCHANGED <<label, basics, handled, output>>
  BY DEF AdaptLoop
<1>2. kAdapt + RFCReduce(spread) = kAdapt' + RFCReduce(spread')
  <2>1. RFCReduce(spread) = Base + RFCReduce(spread')
    BY <1>1, Before, ReduceIsLoop
  <2>2. RFCReduce(spread') \in Nat /\ Base \in Nat /\ kAdapt \in Nat
    <3>1. spread' \in Nat
      BY <1>1, Before, AdaptLoopType
    <3> QED
      BY <3>1, Before, ReduceIsLoop, BootstringAssumption
  <2> QED
    BY <1>1, <2>1, <2>2
<1>3. Written' = Written
  BY <1>1 DEF Written
<1> QED
  BY <1>1, <1>2, <1>3 DEF AsRFC

\* The scalar inserted is the state behind from now on.
LEMMA AdaptedWrites == ASSUME IndInv, Follows, Fitting, AsRFC, Adapted PROVE AsRFC'
<1> DEFINE h == handled + 1
<1>1. /\ pc = "adapt" /\ pc' = "scan" /\ spread <= AdaptLimit
      /\ bias' = AdaptedBias(spread, kAdapt) /\ handled' = h
      /\ UNCHANGED <<label, n, basics, output>>
  BY DEF Adapted
<1>2. /\ CountInBounds(output) /\ basics = RFCBasics(label)
      /\ Written = RFCWritten(label)[h]
      /\ kAdapt + RFCReduce(spread) = RFCBias(label, h)
  BY <1>1 DEF AsRFC
<1>3. Written' = Written /\ Reached' = Reached
  BY <1>1, NothingWritten
<1>4. bias' = RFCBias(label, h)
  <2>1. RFCReduce(spread) = ((Base - TMin + 1) * spread) \div (spread + Skew)
    BY <1>1, Before, ReduceIsLoop
  <2> QED
    BY <1>1, <1>2, <2>1 DEF AdaptedBias
<1>5. pos < Len(label) /\ label[pos + 1] = n
  BY <1>1 DEF IndInv, InRange
<1>6. /\ handled \in Among(label) /\ RFCPlace(label, handled) = pos + 1
      /\ RFCAt(label, handled) = Len(InOrder(n, pos)[pos])
  BY <1>1, <1>5, MetPlace DEF InPass
<1>7. Reached.n = n /\ Reached.oldi = Len(InOrder(n, pos)[pos]) + 1
  <2>1. Inserted(Reached)
    BY <1>1, <1>2, FollowedFacts DEF Fitting, Arrived, InPass
  <2> QED
    BY <2>1 DEF Inserted, Rests
<1>8. h - 1 = handled /\ h # RFCBasics(label)
  <2>1. RFCBasics(label) \in Nat /\ handled \in Nat /\ Len(label) \in Nat
    BY LabelIsLabel, EarlierFacts, Before DEF Label
  <2> QED
    BY <1>6, <2>1 DEF Among
<1> HIDE DEF h
<1>9. RFCBehind(label, h) = [n |-> label[pos + 1], i |-> Len(InOrder(n, pos)[pos]) + 1]
  BY <1>6, <1>8 DEF RFCBehind
<1>10. Behind'
  BY <1>1, <1>3, <1>4, <1>5, <1>7, <1>9 DEF Behind
<1> QED
  BY <1>1, <1>2, <1>3, <1>10 DEF AsRFC

LEMMA ReturnWrites == ASSUME IndInv, AsRFC, Return PROVE AsRFC'
<1>1. /\ pc = "pass" /\ pc' = "done" /\ handled >= Len(label)
      /\ UNCHANGED <<label, basics, output>>
  BY DEF Return
<1>2. handled = Len(label)
  <2>1. handled \in 0 .. Len(label) /\ Len(label) \in Nat
    BY <1>1, HandledRange, Before
  <2> QED
    BY <1>1, <2>1
<1> QED
  BY <1>1, <1>2 DEF AsRFC, Written

LEMMA StutterWrites == ASSUME AsRFC, UNCHANGED vars PROVE AsRFC'
<1>1. Written' = Written /\ Reached' = Reached
  BY NothingWritten DEF vars
<1>2. Behind' <=> Behind
  BY <1>1 DEF vars, Behind
<1> QED
  BY <1>1, <1>2 DEF vars, AsRFC

LEMMA StepWrites == IndInv /\ Follows /\ Writes /\ [Next]_vars => Writes'
<1> SUFFICES ASSUME IndInv, Follows, Writes, [Next]_vars, Fitting'
             PROVE  AsRFC'
  BY DEF Writes
<1>1. Fitting /\ AsRFC
  BY SameFitting DEF Writes
<1>2. CASE BeginPass \/ Pass \/ EndPass
  BY <1>1, <1>2, QuietWrites DEF BeginPass, Pass, EndPass
<1>3. CASE Start
  BY <1>3, StartWrites
<1>4. CASE CopyASCII \/ SkipNonASCII \/ EndASCII
  BY <1>1, <1>4, CopyASCIIWrites, SkipNonASCIIWrites, EndASCIIWrites
<1>5. CASE Meet \/ WriteDigit \/ WriteLastDigit
  BY <1>1, <1>5, MeetWrites, WriteDigitWrites, WriteLastDigitWrites
<1>6. CASE AdaptLoop \/ Adapted \/ Return
  BY <1>1, <1>6, AdaptLoopWrites, AdaptedWrites, ReturnWrites
<1>7. CASE UNCHANGED vars
  BY <1>1, <1>7, StutterWrites
<1> QED
  BY <1>2, <1>3, <1>4, <1>5, <1>6, <1>7 DEF Next

LEMMA InitWrites == Init => Writes
  BY DEF Init, Writes, AsRFC

LEMMA WritingIsEncoding == Writes => EncodesAsRFC
  BY DEF Writes, Fitting, AsRFC, EncodesAsRFC, Final, Written, RFCEncode

THEOREM WritesInvariant == Spec => []Writes
<1>1. Init => Writes
  BY InitWrites
<1>2. IndInv /\ Follows /\ Writes /\ [Next]_vars => Writes'
  BY StepWrites
<1> QED
  BY <1>1, <1>2, Invariant, FollowsInvariant, PTL DEF Spec

\* What `encode` returns (Punycode.swift:56-163) is, byte for byte, what
\* RFC 3492, section 6.3, writes for the label, wherever that fits the
\* buffer and the label is no longer than the arithmetic allows: the call
\* then runs into nothing undefined.
THEOREM EncodesLikeTheRFC == Spec => []EncodesAsRFC
  BY WritesInvariant, WritingIsEncoding, PTL

-----------------------------------------------------------------------------
(* The bytes written: ASCII of the label, digits and hyphens, and what is *)
(* read back where the count of an inline buffer was stored to.           *)

Sign(c) == IsDigit(c) \/ c \in {Hyphen, InlineCapacity + 1}

Drawable ==
    {c \in Byte : Sign(c) \/ (IsASCII(c) /\ \E j \in 1 .. Len(label) : label[j] = c)}

Drawn == pc # "start" => LooseBuffer(output) /\ Contents(output) \in Seq(Drawable)

LEMMA SignsDrawable ==
    /\ Hyphen \in Drawable /\ InlineCapacity + 1 \in Drawable
    /\ \A d \in 0 .. Base - 1 : ByteOfDigit(d) \in Drawable
<1>1. Hyphen \in Byte
  BY CodePointAssumption, EncodedBytesAssumption
<1>2. InlineCapacity + 1 \in Byte
  BY InlineCapacityAssumption, ByteAssumption
<1>3. \A d \in 0 .. Base - 1 : ByteOfDigit(d) \in Byte /\ IsDigit(ByteOfDigit(d))
  BY DigitBytes, DigitComesBack
<1> QED
  BY <1>1, <1>2, <1>3 DEF Drawable, Sign

LEMMA PutDrawn ==
    ASSUME LooseBuffer(output), Contents(output) \in Seq(Drawable),
           NEW e \in Drawable, NEW next, Put(e, next)
    PROVE  LooseBuffer(output') /\ Contents(output') \in Seq(Drawable)
<1>1. CASE WritesPastTuple(output)
  BY <1>1 DEF Put
<1>2. CASE ~WritesPastTuple(output)
  <2> DEFINE b == IF HasRoomForOne(output) THEN e ELSE InlineCapacity + 1
  <2>1. e \in Byte /\ output' = AppendUnchecked(output, e)
    BY <1>2 DEF Put, Drawable
  <2>2. LooseBuffer(output') /\ Contents(output') = Contents(output) \o <<b>>
    BY <1>2, <2>1, LooseUnchecked
  <2>3. b \in Drawable
    BY SignsDrawable
  <2> HIDE DEF b
  <2>4. Contents(output) \o <<b>> \in Seq(Drawable)
    BY <2>3, ConcatProperties
  <2> QED
    BY <2>2, <2>4
<1> QED
  BY <1>1, <1>2

LEMMA EmptiedReads ==
    ASSUME NEW b \in Buffer
    PROVE  LooseBuffer(RemoveAll(b, TRUE)) /\ Contents(RemoveAll(b, TRUE)) = <<>>
<1>1. CASE IsInline(b)
  BY <1>1, EmptyReads, GoodIsLoose DEF RemoveAll
<1>2. CASE ~IsInline(b)
  <2>1. b.capacity \in Nat
    BY <1>2 DEF Buffer, InlineBuffer, HeapBuffer, IsInline
  <2>2. <<>> \in Seq(Byte) /\ Len(<<>>) <= b.capacity
    BY <2>1, EmptySeq
  <2>3. GoodBuffer(Heap(<<>>, b.capacity)) /\ Contents(Heap(<<>>, b.capacity)) = <<>>
    BY <2>1, <2>2, HeapReads
  <2> QED
    BY <1>2, <2>3, GoodIsLoose DEF RemoveAll
<1> QED
  BY <1>1, <1>2

LEMMA StepDrawn ==
    ASSUME IndInv, Drawn, [Next]_vars
    PROVE  Drawn'
<1>0. label' = label /\ Drawable' = Drawable
  <2>1. label' = label
    BY DEF Next, Start, CopyASCII, SkipNonASCII, EndASCII, BeginPass, Pass, Meet, EndPass,
           WriteDigit, WriteLastDigit, AdaptLoop, Adapted, Return, vars
  <2> QED
    BY <2>1 DEF Drawable
<1>1. CASE Start
  <2>1. LooseBuffer(output') /\ Contents(output') = <<>>
    BY <1>1, Before, EmptiedReads DEF Start
  <2>2. <<>> \in Seq(Drawable)
    OBVIOUS
  <2> QED
    BY <1>0, <2>1, <2>2 DEF Drawn
<1>2. CASE CopyASCII
  <2>1. CodePoint \in Drawable
    <3>1. pos + 1 \in 1 .. Len(label) /\ CodePoint = label[pos + 1] /\ IsASCII(CodePoint)
          /\ CodePoint \in 0 .. InitialN - 1
      BY <1>2, Before DEF CopyASCII, Scanning, IsASCII, CodePoint
    <3> QED
      BY <3>1, EncodedBytesAssumption DEF Drawable
  <2>2. pc = "basic" /\ Put(CodePoint, "basic")
    BY <1>2 DEF CopyASCII
  <2> QED
    BY <1>0, <2>1, <2>2, PutDrawn DEF Drawn
<1>3. CASE EndASCII
  <2>1. pc = "basic"
    BY <1>3 DEF EndASCII
  <2>2. CASE Count(output) = 0
    BY <1>0, <1>3, <2>1, <2>2 DEF EndASCII, Drawn
  <2>3. CASE Count(output) # 0
    <3>1. Put(Hyphen, "pass")
      BY <1>3, <2>3 DEF EndASCII
    <3> QED
      BY <1>0, <2>1, <3>1, SignsDrawable, PutDrawn DEF Drawn
  <2> QED
    BY <2>2, <2>3
<1>4. CASE WriteDigit
  <2>1. Put(ByteOfDigit(Digit), "digits") /\ pc = "digits" /\ Digit \in 0 .. Base - 1
    BY <1>4, DigitInRange DEF WriteDigit
  <2> QED
    BY <1>0, <2>1, SignsDrawable, PutDrawn DEF Drawn
<1>5. CASE WriteLastDigit
  <2>1. q \in 0 .. Base - 1
    <3>1. T(k, bias) \in 1 .. Base - 1 /\ Base \in Nat
      BY Before, ThresholdRange, BootstringAssumption
    <3> QED
      BY <1>5, <3>1, Before DEF WriteLastDigit
  <2>2. Put(ByteOfDigit(q), "adapt") /\ pc = "digits"
    BY <1>5 DEF WriteLastDigit
  <2> QED
    BY <1>0, <2>1, <2>2, SignsDrawable, PutDrawn DEF Drawn
<1>6. CASE \/ SkipNonASCII \/ BeginPass \/ Pass \/ Meet \/ EndPass
           \/ AdaptLoop \/ Adapted \/ Return \/ UNCHANGED vars
  <2>1. output' = output /\ (pc = "start" => pc' = "start")
    BY <1>6 DEF SkipNonASCII, BeginPass, Pass, Meet, EndPass, AdaptLoop, Adapted, Return, vars
  <2> QED
    BY <1>0, <2>1 DEF Drawn
<1> QED
  BY <1>1, <1>2, <1>3, <1>4, <1>5, <1>6 DEF Next

THEOREM DrawnInvariant == Spec => []Drawn
<1>1. Init => Drawn
  BY DEF Init, Drawn
<1> QED
  BY <1>1, StepDrawn, Invariant, PTL DEF Spec

\* ASCII starts below the limit, and so does the byte that is read back where
\* the count of an inline buffer was stored to (24 in the code, and 128).
Below == InitialN <= ASCIILimit /\ InlineCapacity + 1 < ASCIILimit

LEMMA DrawableIsASCII ==
    ASSUME Below, NEW c \in Drawable
    PROVE  c < ASCIILimit
<1>1. /\ InitialN \in Nat /\ ASCIILimit \in Nat /\ InlineCapacity \in Nat /\ InitialN <= ASCIILimit
      /\ {Hyphen, LetterA, LetterZ, Digit0, Digit9} \subseteq 0 .. InitialN - 1
      /\ InlineCapacity + 1 < ASCIILimit
  BY Constants, CodePointAssumption, ASCIILimitAssumption, InlineCapacityAssumption DEF Below
<1>2. c \in Nat
  BY ByteAssumption DEF Drawable
<1>3. CASE Sign(c)
  BY <1>1, <1>2, <1>3 DEF Sign, IsDigit
<1>4. CASE IsASCII(c)
  BY <1>1, <1>2, <1>4 DEF IsASCII
<1> QED
  BY <1>3, <1>4 DEF Drawable

\* What `encode` returns is ASCII, of every label and in every buffer it may
\* be handed: also when the last byte overwrote the count of an inline one.
\* Conversions takes this of its Encode (EncodesASCII).
THEOREM EncodedIsASCII ==
    Below => (Spec => [](pc = "done" => /\ Contents(output) \in Seq(Byte)
                                        /\ AllASCII(Contents(output))))
<1> SUFFICES ASSUME Below
             PROVE  Spec => [](pc = "done" => /\ Contents(output) \in Seq(Byte)
                                              /\ AllASCII(Contents(output)))
  OBVIOUS
<1>1. Drawn => (pc = "done" => Contents(output) \in Seq(Byte) /\ AllASCII(Contents(output)))
  <2> SUFFICES ASSUME Drawn, pc = "done"
               PROVE  Contents(output) \in Seq(Byte) /\ AllASCII(Contents(output))
    OBVIOUS
  <2>1. Contents(output) \in Seq(Byte) /\ Contents(output) \in Seq(Drawable)
    BY LooseFacts DEF Drawn
  <2>2. \A j \in 1 .. Len(Contents(output)) : Contents(output)[j] \in Drawable
    BY <2>1, ElementOfSeq
  <2> QED
    BY <2>1, <2>2, DrawableIsASCII DEF AllASCII
<1> QED
  BY <1>1, DrawnInvariant, PTL

\* Besides scalars of the label it returns lowercase letters, digits and
\* hyphens, and the byte that was read back: no separator and no uppercase
\* letter but those of the label.  Conversions takes this of its Encode
\* (EncodesPlainly).
THEOREM EncodedIsPlain ==
    Spec => [](pc = "done" => \A j \in 1 .. Len(Contents(output)) :
                    \/ \E i \in 1 .. Len(label) : label[i] = Contents(output)[j]
                    \/ Sign(Contents(output)[j]))
<1>1. Drawn => (pc = "done" => \A j \in 1 .. Len(Contents(output)) :
                    \/ \E i \in 1 .. Len(label) : label[i] = Contents(output)[j]
                    \/ Sign(Contents(output)[j]))
  <2> SUFFICES ASSUME Drawn, pc = "done", NEW j \in 1 .. Len(Contents(output))
               PROVE  \/ \E i \in 1 .. Len(label) : label[i] = Contents(output)[j]
                      \/ Sign(Contents(output)[j])
    OBVIOUS
  <2>1. Contents(output)[j] \in Drawable
    BY ElementOfSeq DEF Drawn
  <2> QED
    BY <2>1 DEF Drawable
<1> QED
  BY <1>1, DrawnInvariant, PTL

=============================================================================
