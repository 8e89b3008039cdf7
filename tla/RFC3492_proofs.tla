--------------------------- MODULE RFC3492_proofs ---------------------------
(***************************************************************************)
(* Lemmas about the arithmetic both directions of Punycode share, about    *)
(* the decoder of RFC 3492 that both are compared with, and about its      *)
(* encoder.                                                                *)
(***************************************************************************)
EXTENDS RFC3492Encoding, SequenceTheorems, FiniteSetTheorems, WellFoundedInduction, TLAPS

-----------------------------------------------------------------------------
(* Induction, over sets of numbers. *)

LEMMA LeastNumber ==
    ASSUME NEW S \in SUBSET Nat, S # {}
    PROVE  \E x \in S : \A y \in S : x <= y
<1> DEFINE R == OpToRel(<, Nat)
<1>1. IsWellFoundedOn(R, Nat)
  BY NatLessThanWellFounded
<1> HIDE DEF R
<1>2. PICK x \in S : \A y \in S : ~(<<y, x>> \in R)
  BY <1>1, WFMin
<1>3. \A y \in S : x <= y
  <2> SUFFICES ASSUME NEW y \in S PROVE x <= y
    OBVIOUS
  <2>1. x \in Nat /\ y \in Nat /\ ~(<<y, x>> \in R)
    BY <1>2
  <2>2. ~(y < x)
    BY <2>1 DEF R, OpToRel
  <2> QED
    BY <2>1, <2>2
<1> QED
  BY <1>2, <1>3

\* A set that holds what all smaller numbers being in it implies holds all.
LEMMA FromSmaller ==
    ASSUME NEW S, \A m \in Nat : (\A l \in Nat : l < m => l \in S) => m \in S
    PROVE  \A m \in Nat : m \in S
<1> DEFINE Missing == {m \in Nat : m \notin S}
<1>1. SUFFICES ASSUME Missing # {} PROVE FALSE
  OBVIOUS
<1>2. PICK m \in Missing : \A y \in Missing : m <= y
  <2>1. Missing \in SUBSET Nat
    OBVIOUS
  <2> HIDE DEF Missing
  <2> QED
    BY <1>1, <2>1, LeastNumber
<1>3. \A l \in Nat : l < m => l \in S
  BY <1>2
<1> QED
  BY <1>2, <1>3

\* Step by step from a to b.
LEMMA StepByStep ==
    ASSUME NEW a \in Nat, NEW b \in Nat, NEW S,
           a \in S, \A m \in a .. b : m + 1 <= b /\ m \in S => m + 1 \in S
    PROVE  \A m \in a .. b : m \in S
<1> DEFINE Missing == {m \in a .. b : m \notin S}
<1>1. SUFFICES ASSUME Missing # {} PROVE FALSE
  OBVIOUS
<1>2. PICK m \in Missing : \A y \in Missing : m <= y
  <2>1. Missing \in SUBSET Nat
    OBVIOUS
  <2> HIDE DEF Missing
  <2> QED
    BY <1>1, <2>1, LeastNumber
<1>3. m # a /\ m - 1 \in a .. b /\ m - 1 \in S /\ (m - 1) + 1 = m
  <2>1. m # a /\ m - 1 \in a .. b
    BY <1>2
  <2>2. m - 1 \notin Missing
    BY <1>2, <2>1
  <2> QED
    BY <2>1, <2>2
<1>4. m \in S
  BY <1>2, <1>3
<1> QED
  BY <1>2, <1>4

-----------------------------------------------------------------------------
(* Numbers and words. *)

LEMMA DivMod ==
    ASSUME NEW a \in Nat, NEW b \in Nat, b # 0
    PROVE  a \div b \in Nat /\ a % b \in 0 .. b - 1
  OBVIOUS

LEMMA ModInt ==
    ASSUME NEW a \in Int, NEW b \in Nat, b # 0
    PROVE  a % b \in 0 .. b - 1
  OBVIOUS

LEMMA Products == \A a, b \in Nat : a * b \in Nat
  OBVIOUS

\* Words.
LEMMA WordOps ==
    \A a, b \in Nat :
        WAdd(a, b) \in Nat /\ WMul(a, b) \in Nat /\ WAdd(a, b) < WordSize
<1> SUFFICES ASSUME NEW a \in Nat, NEW b \in Nat
             PROVE  WAdd(a, b) \in Nat /\ WMul(a, b) \in Nat /\ WAdd(a, b) < WordSize
  OBVIOUS
<1>1. WordSize \in Nat /\ WordSize # 0 /\ a + b \in Nat /\ a * b \in Nat
  BY Products, WordAssumption, CodePointAssumption
<1> DEFINE sum == a + b
           product == a * b
<1> HIDE DEF sum, product
<1>2. sum % WordSize \in Nat /\ product % WordSize \in Nat /\ sum % WordSize < WordSize
  <2>1. sum \in Nat /\ product \in Nat
    BY <1>1 DEF sum, product
  <2>2. sum % WordSize \in 0 .. WordSize - 1
    BY <1>1, <2>1, DivMod
  <2>3. product % WordSize \in 0 .. WordSize - 1
    BY <1>1, <2>1, DivMod
  <2> QED
    BY <1>1, <2>2, <2>3
<1> QED
  BY <1>2 DEF WAdd, WMul, sum, product

\* The threshold leaves a factor to multiply the weight by.
LEMMA ThresholdBounds ==
    \A x, y \in Nat : Base - T(x, y) \in Nat
  BY BootstringAssumption DEF T

LEMMA Digits == \A c \in Nat : IsDigit(c) => DigitOf(c) \in Nat
  BY CodePointAssumption DEF IsDigit, DigitOf, Letters

\* A digit's byte stands for that digit, and for nothing else.
LEMMA DigitComesBack ==
    ASSUME NEW d \in 0 .. Base - 1
    PROVE  /\ ByteOfDigit(d) \in 0 .. InitialN - 1
           /\ IsDigit(ByteOfDigit(d)) /\ DigitOf(ByteOfDigit(d)) = d
           /\ ByteOfDigit(d) # Hyphen
<1>1. /\ InitialN \in Nat /\ {LetterA, LetterZ, Digit0, Digit9} \subseteq 0 .. InitialN - 1
      /\ Base = Letters + (Digit9 - Digit0 + 1) /\ Letters = LetterZ - LetterA + 1
      /\ LetterA <= LetterZ /\ Digit0 <= Digit9
      /\ (LetterA .. LetterZ) \cap (Digit0 .. Digit9) = {}
      /\ Hyphen \notin (LetterA .. LetterZ) \cup (Digit0 .. Digit9)
  BY CodePointAssumption DEF Letters
<1>2. CASE d < Letters
  <2>1. LetterA + d \in LetterA .. LetterZ /\ (LetterA + d) - LetterA = d
        /\ LetterA + d \in 0 .. InitialN - 1
    BY <1>1, <1>2
  <2>2. ByteOfDigit(d) = LetterA + d
    BY <1>2 DEF ByteOfDigit
  <2> QED
    BY <1>1, <2>1, <2>2 DEF IsDigit, DigitOf
<1>3. CASE ~(d < Letters)
  <2> DEFINE c == Digit0 + d - Letters
  <2>1. c \in Digit0 .. Digit9 /\ c - Digit0 + Letters = d
        /\ c \in 0 .. InitialN - 1
    BY <1>1, <1>3
  <2>2. ByteOfDigit(d) = c
    BY <1>3 DEF ByteOfDigit
  <2> HIDE DEF c
  <2>3. c \notin LetterA .. LetterZ /\ c # Hyphen
    BY <1>1, <2>1
  <2> QED
    BY <1>1, <2>1, <2>2, <2>3 DEF IsDigit, DigitOf
<1> QED
  BY <1>2, <1>3

LEMMA ScalarIs ==
    /\ \A c : IsScalar(c) <=> c \in Scalar
    /\ \A c \in Scalar : c \in Nat
  BY CodePointAssumption DEF Scalar, IsScalar

\* What `adapt` computes stays a natural number.
LEMMA SpreadType ==
    ASSUME NEW d \in Nat, NEW points \in Nat, points # 0, NEW isFirstTime \in BOOLEAN
    PROVE  Spread(d, points, isFirstTime) \in Nat
<1> DEFINE damped == IF isFirstTime THEN d \div Damp ELSE d \div 2
<1>1. damped \in Nat
  <2>1. Damp \in Nat /\ Damp # 0
    BY BootstringAssumption
  <2>2. d \div Damp \in Nat /\ d \div 2 \in Nat
    BY <2>1, DivMod
  <2> QED
    BY <2>2
<1> HIDE DEF damped
<1>2. damped \div points \in Nat
  BY <1>1, DivMod
<1> QED
  BY <1>1, <1>2 DEF Spread, damped

LEMMA AdaptedBiasType ==
    ASSUME NEW d \in Nat, NEW kAdapted \in Nat
    PROVE  /\ AdaptedBias(d, kAdapted) \in Nat
           /\ ((Base - TMin + 1) * d) \div (d + Skew) \in Nat
<1> DEFINE a == (Base - TMin + 1) * d
           b == d + Skew
<1>1. Base - TMin + 1 \in Nat /\ b \in Nat /\ b # 0
  BY BootstringAssumption
<1>2. a \in Nat
  BY <1>1, Products
<1> HIDE DEF a, b
<1>3. a \div b \in Nat
  BY <1>1, <1>2, DivMod
<1> QED
  BY <1>3 DEF AdaptedBias, a, b

\* One pass of the loop of `adapt`.
LEMMA AdaptLoopType ==
    ASSUME NEW d \in Nat
    PROVE  d \div (Base - TMin) \in Nat
<1> DEFINE b == Base - TMin
<1>1. b \in Nat /\ b # 0
  BY BootstringAssumption
<1> HIDE DEF b
<1>2. d \div b \in Nat
  BY <1>1, DivMod
<1> QED
  BY <1>2 DEF b

-----------------------------------------------------------------------------
(* The recursive functions of the reference. *)

\* A recursion over the numbers whose argument decreases defines a function.
Decreases(less, limit) == \A d \in Nat : d > limit => less[d] < d

Descends(f, limit, a, less, least) ==
    /\ f \in [Nat -> Nat]
    /\ \A d \in Nat : f[d] = IF d > limit THEN a + f[less[d]] ELSE least[d]

LEMMA DescentDefines ==
    ASSUME NEW limit \in Nat, NEW a \in Nat, NEW less \in [Nat -> Nat],
           Decreases(less, limit), NEW least \in [Nat -> Nat]
    PROVE  \E f : Descends(f, limit, a, less, least)
<1> DEFINE Rec(g, D) == g = [d \in D |-> IF d > limit THEN a + g[less[d]] ELSE least[d]]
           Below(m) == {d \in Nat : d <= m}
           Defined == {m \in Nat : \E g : Rec(g, Below(m))}
           Alike == {m \in Nat : \A x, y \in Nat : \A g, h :
                        /\ m <= x /\ m <= y /\ Rec(g, Below(x)) /\ Rec(h, Below(y))
                        => g[m] = h[m]}
<1>d. \A d \in Nat : d > limit => less[d] < d
  BY DEF Decreases
<1>0. ASSUME NEW m \in Nat, NEW g, Rec(g, Below(m))
      PROVE  \A d \in Nat : d <= m => g[d] = IF d > limit THEN a + g[less[d]] ELSE least[d]
  BY <1>0
<1>1. \A m \in Nat : m \in Alike
  <2>1. ASSUME NEW m \in Nat, \A l \in Nat : l < m => l \in Alike
        PROVE  m \in Alike
    <3>1. SUFFICES ASSUME NEW x \in Nat, NEW y \in Nat, NEW g, NEW h,
                          m <= x, m <= y, Rec(g, Below(x)), Rec(h, Below(y))
                   PROVE  g[m] = h[m]
      OBVIOUS
    <3>2. /\ g[m] = IF m > limit THEN a + g[less[m]] ELSE least[m]
          /\ h[m] = IF m > limit THEN a + h[less[m]] ELSE least[m]
      BY <3>1
    <3>3. CASE m > limit
      <4>1. less[m] \in Nat /\ less[m] < m /\ less[m] <= x /\ less[m] <= y
        BY <1>d, <3>1, <3>3
      <4>2. less[m] \in Alike
        BY <2>1, <4>1
      <4>3. g[less[m]] = h[less[m]]
        <5> HIDE DEF Rec
        <5> QED
          BY <3>1, <4>1, <4>2
      <4> QED
        BY <3>2, <3>3, <4>3
    <3> QED
      BY <3>2, <3>3
  <2> HIDE DEF Alike
  <2> QED
    BY <2>1, FromSmaller
<1>2. \A m \in Nat : m \in Defined
  <2>1. ASSUME NEW m \in Nat, \A l \in Nat : l < m => l \in Defined
        PROVE  m \in Defined
    <3> DEFINE part(l) == CHOOSE g : Rec(g, Below(l))
               g == [d \in Below(m) |->
                        IF d > limit THEN a + part(less[d])[less[d]] ELSE least[d]]
    <3>1. \A l \in Nat : l < m => Rec(part(l), Below(l))
      BY <2>1
    <3>2. \A l \in Nat : l < m => g[l] = part(l)[l]
      <4>1. SUFFICES ASSUME NEW l \in Nat, l < m PROVE g[l] = part(l)[l]
        OBVIOUS
      <4>2. part(l)[l] = IF l > limit THEN a + part(l)[less[l]] ELSE least[l]
        <5> HIDE DEF part, Rec, Below
        <5>1. Rec(part(l), Below(l)) /\ l <= l
          BY <3>1, <4>1
        <5> QED
          BY <1>0, <5>1
      <4>3. g[l] = IF l > limit THEN a + part(less[l])[less[l]] ELSE least[l]
        BY <4>1
      <4>4. CASE l > limit
        <5>1. less[l] \in Nat /\ less[l] < l /\ less[l] < m /\ less[l] <= l
          BY <1>d, <4>1, <4>4
        <5>2. less[l] \in Alike /\ Rec(part(l), Below(l)) /\ Rec(part(less[l]), Below(less[l]))
          BY <1>1, <3>1, <4>1, <5>1
        <5> HIDE DEF part, Rec
        <5>3. part(l)[less[l]] = part(less[l])[less[l]]
          BY <5>1, <5>2
        <5> QED
          BY <4>2, <4>3, <4>4, <5>3
      <4> HIDE DEF part, g
      <4> QED
        BY <4>2, <4>3, <4>4
    <3> HIDE DEF part
    <3>3. \A d \in Below(m) : g[d] = IF d > limit THEN a + g[less[d]] ELSE least[d]
      <4>1. SUFFICES ASSUME NEW d \in Below(m), d > limit
                     PROVE  part(less[d])[less[d]] = g[less[d]]
        OBVIOUS
      <4>2. less[d] \in Nat /\ less[d] < m
        BY <1>d, <4>1
      <4> QED
        BY <3>2, <4>2
    <3>4. Rec(g, Below(m))
      BY <3>3
    <3> QED
      BY <3>4
  <2> HIDE DEF Defined
  <2> QED
    BY <2>1, FromSmaller
<1> DEFINE part(l) == CHOOSE g : Rec(g, Below(l))
           whole == [d \in Nat |-> part(d)[d]]
<1>3. \A l \in Nat : Rec(part(l), Below(l))
  BY <1>2
<1>4. \A d \in Nat : whole[d] = IF d > limit THEN a + whole[less[d]] ELSE least[d]
  <2> HIDE DEF part
  <2>1. SUFFICES ASSUME NEW d \in Nat
                 PROVE  part(d)[d] = IF d > limit THEN a + part(less[d])[less[d]] ELSE least[d]
    OBVIOUS
  <2>2. part(d)[d] = IF d > limit THEN a + part(d)[less[d]] ELSE least[d]
    <3> HIDE DEF Rec, Below
    <3>1. Rec(part(d), Below(d)) /\ d <= d
      BY <1>3
    <3> QED
      BY <1>0, <3>1
  <2>3. CASE d > limit
    <3>1. less[d] \in Nat /\ less[d] < d /\ less[d] <= d
      BY <1>d, <2>3
    <3>2. less[d] \in Alike /\ Rec(part(d), Below(d)) /\ Rec(part(less[d]), Below(less[d]))
      BY <1>1, <1>3, <3>1
    <3> HIDE DEF Rec
    <3>3. part(d)[less[d]] = part(less[d])[less[d]]
      BY <3>1, <3>2
    <3> QED
      BY <2>2, <2>3, <3>3
  <2> QED
    BY <2>2, <2>3
<1>5. whole = [d \in Nat |-> whole[d]]
  OBVIOUS
<1> HIDE DEF whole
<1>6. \A d \in Nat : whole[d] \in Nat
  <2> DEFINE Natural == {d \in Nat : whole[d] \in Nat}
  <2>2. ASSUME NEW m \in Nat, \A l \in Nat : l < m => l \in Natural
        PROVE  m \in Natural
    <3>1. CASE m > limit
      <4>1. less[m] \in Nat /\ less[m] \in Natural
        BY <1>d, <2>2, <3>1
      <4>2. whole[m] = a + whole[less[m]] /\ whole[less[m]] \in Nat
        BY <1>4, <3>1, <4>1
      <4> QED
        BY <4>2
    <3>2. CASE ~(m > limit)
      <4>1. whole[m] = least[m] /\ least[m] \in Nat
        BY <1>4, <3>2
      <4> QED
        BY <4>1
    <3> QED
      BY <3>1, <3>2
  <2>3. \A d \in Nat : d \in Natural
    <3> HIDE DEF Natural
    <3> QED
      BY <2>2, FromSmaller
  <2> QED
    BY <2>3
<1>7. Descends(whole, limit, a, less, least)
  <2> HIDE DEF whole
  <2> QED
    BY <1>4, <1>5, <1>6 DEF Descends
<1> QED
  BY <1>7

\* What the loop of adapt comes to, pass by pass.
LEMMA ReduceIsLoop ==
    ASSUME NEW d \in Nat
    PROVE  /\ RFCReduce(d) \in Nat
           /\ d > AdaptLimit => RFCReduce(d) = Base + RFCReduce(d \div (Base - TMin))
           /\ d <= AdaptLimit => RFCReduce(d) = ((Base - TMin + 1) * d) \div (d + Skew)
<1> DEFINE b == Base - TMin
           less == [x \in Nat |-> x \div b]
           least == [x \in Nat |-> ((Base - TMin + 1) * x) \div (x + Skew)]
           f == CHOOSE g : g = [x \in Nat |-> IF x > AdaptLimit THEN Base + g[less[x]] ELSE least[x]]
           r == CHOOSE g : g = [x \in Nat |->
                    IF x > ((Base - TMin) * TMax) \div 2 THEN Base + g[x \div (Base - TMin)]
                    ELSE ((Base - TMin + 1) * x) \div (x + Skew)]
<1>1. b \in Nat /\ b >= 2 /\ Base \in Nat /\ TMax \in Nat
  BY BootstringAssumption
<1>2. AdaptLimit \in Nat
  <2>1. b * TMax \in Nat
    BY <1>1, Products
  <2> DEFINE product == b * TMax
  <2> HIDE DEF product
  <2>2. product \div 2 \in Nat
    BY <2>1, DivMod DEF product
  <2> QED
    BY <2>2 DEF AdaptLimit, product
<1>3. less \in [Nat -> Nat]
  BY AdaptLoopType
<1>4. least \in [Nat -> Nat]
  <2>1. \A x \in Nat : ((Base - TMin + 1) * x) \div (x + Skew) \in Nat
    BY <1>1, AdaptedBiasType
  <2> QED
    BY <2>1, Zenon
<1>5. \A x \in Nat : x > AdaptLimit => less[x] < x
  <2>1. SUFFICES ASSUME NEW x \in Nat, x > AdaptLimit PROVE x \div b < x
    OBVIOUS
  <2> DEFINE q == x \div b
  <2> HIDE DEF b
  <2>2. q \in Nat /\ b * q <= x
    BY <1>1, DivMod
  <2> HIDE DEF q
  <2>3. 2 * q <= b * q /\ b * q \in Nat
    BY <1>1, <2>2, Products
  <2>4. x > 0
    BY <1>2, <2>1
  <2>5. q < x
    BY <2>2, <2>3, <2>4
  <2> QED
    BY <2>5 DEF q
<1>6. r = f
  <2>1. \A g : [x \in Nat |-> IF x > AdaptLimit THEN Base + g[less[x]] ELSE least[x]]
               = [x \in Nat |->
                    IF x > ((Base - TMin) * TMax) \div 2 THEN Base + g[x \div (Base - TMin)]
                    ELSE ((Base - TMin + 1) * x) \div (x + Skew)]
    BY DEF AdaptLimit
  <2> HIDE DEF less, least
  <2> QED
    BY <2>1
<1>7. \A x \in Nat : RFCReduce(x) = r[x]
  BY DEF RFCReduce
<1> HIDE DEF r
<1>8. \A x \in Nat : f[x] \in Nat /\ f[x] = IF x > AdaptLimit THEN Base + f[less[x]] ELSE least[x]
  <2> HIDE DEF less, least
  <2>0. Base \in Nat
    BY <1>1
  <2>x. Decreases(less, AdaptLimit)
    BY <1>5 DEF Decreases
  <2>y. \E g : Descends(g, AdaptLimit, Base, less, least)
    BY <1>2, <1>3, <1>4, <2>0, <2>x, DescentDefines, Zenon
  <2>1. PICK g : /\ g \in [Nat -> Nat]
                 /\ \A x \in Nat : g[x] = IF x > AdaptLimit THEN Base + g[less[x]] ELSE least[x]
    BY <2>y DEF Descends
  <2>2. g = [x \in Nat |-> IF x > AdaptLimit THEN Base + g[less[x]] ELSE least[x]]
    BY <2>1
  <2>3. f = [x \in Nat |-> IF x > AdaptLimit THEN Base + f[less[x]] ELSE least[x]]
    BY <2>2
  <2> HIDE DEF f
  <2>4. \A x \in Nat : f[x] = IF x > AdaptLimit THEN Base + f[less[x]] ELSE least[x]
    BY <2>3
  <2> DEFINE Alike == {x \in Nat : f[x] = g[x]}
  <2>5. ASSUME NEW m \in Nat, \A l \in Nat : l < m => l \in Alike
        PROVE  m \in Alike
    <3>1. m > AdaptLimit => less[m] \in Nat /\ less[m] < m
      BY <1>3, <1>5
    <3>2. m > AdaptLimit => f[less[m]] = g[less[m]]
      BY <2>5, <3>1
    <3> QED
      BY <2>1, <2>4, <3>2
  <2>6. \A x \in Nat : x \in Alike
    <3> HIDE DEF Alike
    <3> QED
      BY <2>5, FromSmaller
  <2>7. \A x \in Nat : f[x] \in Nat
    BY <2>1, <2>6
  <2> QED
    BY <2>4, <2>7
<1> HIDE DEF f
<1>9. d \div (Base - TMin) \in Nat
  BY AdaptLoopType
<1> QED
  BY <1>2, <1>6, <1>7, <1>8, <1>9

\* The states of the reference, character by character.
LEMMA StateIsRead ==
    ASSUME NEW s, Len(s) \in Nat, NEW consumed \in 0 .. Len(s)
    PROVE  /\ RFCState(s, consumed)[consumed] = RFCInitial(SubSeq(s, 1, consumed - 1))
           /\ \A p \in consumed .. Len(s) : p + 1 <= Len(s) =>
                RFCState(s, consumed)[p + 1] = RFCRead(RFCState(s, consumed)[p], s[p + 1])
<1> DEFINE first == RFCInitial(SubSeq(s, 1, consumed - 1))
           N == Len(s)
           Rec(f, m) == f = [p \in consumed .. m |-> IF p = consumed THEN first
                                                     ELSE RFCRead(f[p - 1], s[p])]
           Defined == {m \in consumed .. N : \E f : Rec(f, m)}
           state == CHOOSE f : Rec(f, N)
<1>1. RFCState(s, consumed) = state
  BY DEF RFCState
<1> HIDE DEF first, N
<1>0. N \in Nat /\ consumed \in 0 .. N
  BY DEF N
<1>2. consumed \in Defined
  <2>1. [p \in consumed .. consumed |-> first]
            = [p \in consumed .. consumed |->
                IF p = consumed THEN first
                ELSE RFCRead([r \in consumed .. consumed |-> first][p - 1], s[p])]
    BY <1>0
  <2>2. \E f : Rec(f, consumed)
    BY <2>1
  <2> HIDE DEF Rec
  <2> QED
    BY <1>0, <2>2
<1>3. \A m \in consumed .. N : m + 1 <= N /\ m \in Defined => m + 1 \in Defined
  <2>1. SUFFICES ASSUME NEW m \in consumed .. N, m + 1 <= N, NEW f, Rec(f, m)
                 PROVE  \E g : Rec(g, m + 1)
    BY <1>0
  <2> DEFINE g == [p \in consumed .. m + 1 |-> IF p = m + 1 THEN RFCRead(f[m], s[m + 1])
                                               ELSE f[p]]
  <2>2. \A p \in consumed .. m + 1 : p # consumed => p - 1 \in consumed .. m /\ g[p - 1] = f[p - 1]
    BY <1>0, <2>1
  <2>3. \A p \in consumed .. m + 1 : g[p] = IF p = consumed THEN first
                                            ELSE RFCRead(g[p - 1], s[p])
    <3> SUFFICES ASSUME NEW p \in consumed .. m + 1
                 PROVE  g[p] = IF p = consumed THEN first ELSE RFCRead(g[p - 1], s[p])
      OBVIOUS
    <3>1. CASE p = m + 1
      BY <1>0, <2>1, <2>2, <3>1
    <3>2. CASE p # m + 1
      <4>1. p \in consumed .. m /\ g[p] = f[p]
        BY <1>0, <2>1, <3>2
      <4>2. f[p] = IF p = consumed THEN first ELSE RFCRead(f[p - 1], s[p])
        BY <2>1, <4>1
      <4>3. p # consumed => g[p - 1] = f[p - 1]
        BY <2>2
      <4> HIDE DEF g
      <4> QED
        BY <4>1, <4>2, <4>3
    <3> QED
      BY <3>1, <3>2
  <2>4. Rec(g, m + 1)
    BY <2>3
  <2> QED
    BY <2>4
<1>4. N \in Defined
  <2> HIDE DEF Defined
  <2>0. consumed \in Nat
    BY <1>0
  <2>1. \A m \in consumed .. N : m \in Defined
    BY <1>0, <1>2, <1>3, <2>0, StepByStep
  <2> QED
    BY <1>0, <2>1
<1>5. Rec(state, N)
  BY <1>4
<1>6. \A p \in consumed .. N :
        state[p] = IF p = consumed THEN first ELSE RFCRead(state[p - 1], s[p])
  BY <1>5
<1> HIDE DEF state
<1>7. \A p \in consumed .. N : p + 1 <= N => state[p + 1] = RFCRead(state[p], s[p + 1])
  <2> SUFFICES ASSUME NEW p \in consumed .. N, p + 1 <= N
               PROVE  state[p + 1] = RFCRead(state[p], s[p + 1])
    OBVIOUS
  <2>1. p + 1 \in consumed .. N /\ p + 1 # consumed /\ (p + 1) - 1 = p
    BY <1>0
  <2> QED
    BY <1>6, <2>1
<1>8. state[consumed] = first
  BY <1>0, <1>6
<1> QED
  BY <1>1, <1>7, <1>8 DEF first, N

-----------------------------------------------------------------------------
(* The states of the reference and how they follow each other. *)

States ==
    [kind : {"reading", "bad", "overflow"}, n : InitialN .. MaxScalar, i : Nat, oldi : Nat,
     w : Nat, k : Nat, bias : Nat, out : Seq(Nat)]

GoodState(st) == st \in States /\ st.oldi <= st.i /\ 1 <= st.w /\ Base <= st.k

\* What the integer that is read would make of i with digit d, and the scalar
\* inserted then.
SumWith(st, d) == st.i + d * st.w
ScalarWith(st, d) == st.n + SumWith(st, d) \div (Len(st.out) + 1)

Fits(st, d) == SumWith(st, d) < WordSize /\ IsScalar(ScalarWith(st, d))

LEMMA AdaptIsReduce ==
    \A d, points, isFirstTime :
        RFCAdapt(d, points, isFirstTime) = RFCReduce(Spread(d, points, isFirstTime))
  BY DEF RFCAdapt, Spread

LEMMA ThresholdIsT == \A x, y : RFCThreshold(x, y) = T(x, y)
  BY DEF RFCThreshold, T

LEMMA SpliceType ==
    ASSUME NEW S, NEW s \in Seq(S), NEW t \in Seq(S), NEW at \in 0 .. Len(s)
    PROVE  Splice(s, at, t) \in Seq(S)
<1>1. Len(s) \in Nat /\ at \in Int /\ \A j \in 1 .. Len(s) : s[j] \in S
  BY LenProperties, ElementOfSeq
<1> DEFINE head == SubSeq(s, 1, at)
           tail == SubSeq(s, at + 1, Len(s))
<1>2. head \in Seq(S)
  BY <1>1, SubSeqProperties
<1>3. tail \in Seq(S)
  <2>1. \A j \in at + 1 .. Len(s) : s[j] \in S
    BY <1>1
  <2> QED
    BY <1>1, <2>1, SubSeqProperties
<1> HIDE DEF head, tail
<1>4. (head \o t) \o tail \in Seq(S)
  BY <1>2, <1>3, ConcatProperties
<1> QED
  BY <1>4 DEF Splice, head, tail

LEMMA InitialIsGood ==
    ASSUME NEW basic \in Seq(Nat)
    PROVE  GoodState(RFCInitial(basic))
<1>1. Base \in Nat /\ Base <= Base /\ InitialBias \in Nat
  BY BootstringAssumption
<1>0. InitialN \in InitialN .. MaxScalar
  BY CodePointAssumption
<1> DEFINE st == RFCInitial(basic)
<1>2. st \in States
  BY <1>0, <1>1 DEF States, RFCInitial
<1>3. st.oldi = 0 /\ st.i = 0 /\ st.w = 1 /\ st.k = Base
  BY DEF RFCInitial
<1> HIDE DEF st
<1>4. GoodState(st)
  BY <1>1, <1>2, <1>3 DEF GoodState
<1> QED
  BY <1>4 DEF st

LEMMA SumType ==
    ASSUME NEW st, GoodState(st), NEW d \in Nat
    PROVE  /\ SumWith(st, d) \in Nat /\ st.i <= SumWith(st, d)
           /\ Len(st.out) + 1 \in Nat /\ Len(st.out) + 1 # 0
           /\ SumWith(st, d) % (Len(st.out) + 1) \in 0 .. Len(st.out)
           /\ SumWith(st, d) \div (Len(st.out) + 1) \in Nat
<1>1. st.i \in Nat /\ st.w \in Nat /\ st.out \in Seq(Nat)
  BY DEF GoodState, States
<1>2. d * st.w \in Nat
  BY <1>1, Products
<1>3. Len(st.out) \in Nat
  BY <1>1, LenProperties
<1> DEFINE sum == SumWith(st, d)
           length == Len(st.out) + 1
<1>4. sum \in Nat /\ st.i <= sum
  BY <1>1, <1>2 DEF SumWith
<1>5. length \in Nat /\ length # 0 /\ length - 1 = Len(st.out)
  BY <1>3
<1> HIDE DEF sum, length
<1>6. sum % length \in 0 .. length - 1 /\ sum \div length \in Nat
  BY <1>4, <1>5, DivMod
<1> QED
  BY <1>4, <1>5, <1>6 DEF sum, length

\* A digit below the threshold ends the integer.
LEMMA LastDigitRead ==
    ASSUME NEW st, GoodState(st), st.kind = "reading", NEW c \in Nat,
           IsDigit(c), DigitOf(c) < T(st.k, st.bias)
    PROVE  /\ ~Fits(st, DigitOf(c)) => RFCRead(st, c) = [st EXCEPT !.kind = "overflow"]
           /\ Fits(st, DigitOf(c)) =>
                LET sum == SumWith(st, DigitOf(c))
                    length == Len(st.out) + 1
                    at == sum % length
                IN  RFCRead(st, c) =
                        [kind |-> "reading", n |-> ScalarWith(st, DigitOf(c)),
                         i |-> at + 1, oldi |-> at + 1, w |-> 1, k |-> Base,
                         bias |-> RFCReduce(Spread(sum - st.oldi, length, st.oldi = 0)),
                         out |-> Splice(st.out, at, <<ScalarWith(st, DigitOf(c))>>)]
<1> DEFINE sum == SumWith(st, DigitOf(c))
<1>0. sum \in Nat /\ WordSize \in Nat
  BY Digits, SumType, WordAssumption
<1>1. DigitOf(c) < RFCThreshold(st.k, st.bias)
  BY ThresholdIsT
<1>2. RFCRead(st, c) = RFCInsert(st, sum)
  BY <1>1 DEF RFCRead, SumWith
<1>3. CASE ~Fits(st, DigitOf(c))
  <2>1. sum >= WordSize \/ ~IsScalar(st.n + sum \div (Len(st.out) + 1))
    BY <1>0, <1>3 DEF Fits, ScalarWith
  <2> HIDE DEF sum
  <2>2. RFCInsert(st, sum) = [st EXCEPT !.kind = "overflow"]
    BY <2>1 DEF RFCInsert
  <2> QED
    BY <1>2, <1>3, <2>2
<1>4. CASE Fits(st, DigitOf(c))
  <2>1. ~(sum >= WordSize) /\ IsScalar(st.n + sum \div (Len(st.out) + 1))
    BY <1>0, <1>4 DEF Fits, ScalarWith
  <2>2. ScalarWith(st, DigitOf(c)) = st.n + sum \div (Len(st.out) + 1)
    BY DEF ScalarWith
  <2> HIDE DEF sum
  <2>3. RFCInsert(st, sum) =
            [kind |-> "reading", n |-> st.n + sum \div (Len(st.out) + 1),
             i |-> (sum % (Len(st.out) + 1)) + 1, oldi |-> (sum % (Len(st.out) + 1)) + 1,
             w |-> 1, k |-> Base,
             bias |-> RFCReduce(Spread(sum - st.oldi, Len(st.out) + 1, st.oldi = 0)),
             out |-> Splice(st.out, sum % (Len(st.out) + 1),
                            <<st.n + sum \div (Len(st.out) + 1)>>)]
    BY <2>1, AdaptIsReduce DEF RFCInsert
  <2> QED
    BY <1>2, <1>4, <2>2, <2>3 DEF sum
<1> QED
  BY <1>3, <1>4

\* Any other goes on with it.
LEMMA DigitRead ==
    ASSUME NEW st, st.kind = "reading", NEW c, IsDigit(c), ~(DigitOf(c) < T(st.k, st.bias))
    PROVE  RFCRead(st, c) = [st EXCEPT !.i = SumWith(st, DigitOf(c)),
                                       !.w = st.w * (Base - T(st.k, st.bias)),
                                       !.k = st.k + Base]
  BY ThresholdIsT DEF RFCRead, SumWith

LEMMA NoDigitRead ==
    ASSUME NEW st, st.kind = "reading", NEW c, ~IsDigit(c)
    PROVE  RFCRead(st, c) = [st EXCEPT !.kind = "bad"]
  BY DEF RFCRead

\* The factor between the weights of two digits.
LEMMA WeightGrows ==
    ASSUME NEW x \in Nat, NEW y \in Nat
    PROVE  T(x, y) \in 1 .. Base - 1 /\ Base - T(x, y) \in Nat /\ 1 <= Base - T(x, y)
<1>1. /\ TMin \in Nat /\ TMax \in Nat /\ Base \in Nat
      /\ 1 <= TMin /\ TMin <= TMax /\ TMax < Base
  BY BootstringAssumption
<1> QED
  BY <1>1 DEF T

LEMMA ProductGrows ==
    ASSUME NEW a \in Nat, NEW b \in Nat, 1 <= b
    PROVE  a * b \in Nat /\ a <= a * b
  OBVIOUS

LEMMA ReadIsGood ==
    ASSUME NEW st, GoodState(st), NEW c \in Nat
    PROVE  GoodState(RFCRead(st, c))
<1>1. CASE st.kind # "reading"
  BY <1>1 DEF RFCRead
<1>2. CASE st.kind = "reading" /\ ~IsDigit(c)
  BY <1>2, NoDigitRead DEF GoodState, States
<1>3. CASE st.kind = "reading" /\ IsDigit(c) /\ DigitOf(c) < T(st.k, st.bias)
  <2> DEFINE d == DigitOf(c)
             sum == SumWith(st, d)
             length == Len(st.out) + 1
             at == sum % length
             newN == ScalarWith(st, d)
             newBias == RFCReduce(Spread(sum - st.oldi, length, st.oldi = 0))
  <2>1. d \in Nat
    BY <1>3, Digits
  <2>2. sum \in Nat /\ length \in Nat /\ length # 0 /\ at \in 0 .. Len(st.out)
    BY <2>1, SumType
  <2>3. CASE ~Fits(st, d)
    <3>1. RFCRead(st, c) = [st EXCEPT !.kind = "overflow"]
      BY <1>3, <2>3, LastDigitRead
    <3> QED
      BY <3>1 DEF GoodState, States
  <2>4. CASE Fits(st, d)
    <3>1. newN \in InitialN .. MaxScalar
      <4>1. /\ st.n \in InitialN .. MaxScalar /\ InitialN \in Nat /\ MaxScalar \in Nat
            /\ sum \div length \in Nat
        BY <2>1, SumType, CodePointAssumption DEF GoodState, States
      <4>2. IsScalar(newN)
        BY <2>4 DEF Fits
      <4>3. newN = st.n + sum \div length
        BY DEF ScalarWith
      <4> HIDE DEF newN, sum, length
      <4>4. newN \in 0 .. MaxScalar
        BY <4>2 DEF IsScalar
      <4> QED
        BY <4>1, <4>3, <4>4
    <3>2. newBias \in Nat
      <4>1. sum - st.oldi \in Nat
        <5>1. st.oldi \in Nat /\ st.i \in Nat /\ st.oldi <= st.i
          BY DEF GoodState, States
        <5>2. st.i <= sum
          BY <2>1, SumType
        <5> HIDE DEF sum
        <5> QED
          BY <2>2, <5>1, <5>2
      <4> HIDE DEF sum, length
      <4>2. Spread(sum - st.oldi, length, st.oldi = 0) \in Nat
        BY <2>2, <4>1, SpreadType
      <4> QED
        BY <4>2, ReduceIsLoop
    <3>3. Splice(st.out, at, <<newN>>) \in Seq(Nat)
      <4>1. <<newN>> \in Seq(Nat) /\ st.out \in Seq(Nat)
        BY <3>1, CodePointAssumption DEF GoodState, States
      <4> HIDE DEF newN, at
      <4> QED
        BY <2>2, <4>1, SpliceType
    <3>4. RFCRead(st, c) =
            [kind |-> "reading", n |-> newN, i |-> at + 1, oldi |-> at + 1, w |-> 1, k |-> Base,
             bias |-> newBias, out |-> Splice(st.out, at, <<newN>>)]
      BY <1>3, <2>4, LastDigitRead
    <3>5. at + 1 \in Nat /\ Base \in Nat /\ Base <= Base
      <4>1. Len(st.out) \in Nat
        BY LenProperties DEF GoodState, States
      <4> HIDE DEF at
      <4> QED
        BY <2>2, <4>1, BootstringAssumption
    <3> DEFINE out2 == Splice(st.out, at, <<newN>>)
               i2 == at + 1
    <3> HIDE DEF newN, newBias, out2, i2
    <3>6. [kind |-> "reading", n |-> newN, i |-> i2, oldi |-> i2, w |-> 1, k |-> Base,
           bias |-> newBias, out |-> out2] \in States
      BY <3>1, <3>2, <3>3, <3>5 DEF States, out2, i2
    <3> QED
      BY <3>4, <3>5, <3>6 DEF GoodState, out2, i2
  <2> QED
    BY <2>3, <2>4
<1>4. CASE st.kind = "reading" /\ IsDigit(c) /\ ~(DigitOf(c) < T(st.k, st.bias))
  <2> DEFINE sum == SumWith(st, DigitOf(c))
             factor == Base - T(st.k, st.bias)
             w2 == st.w * factor
             k2 == st.k + Base
  <2>1. DigitOf(c) \in Nat
    BY <1>4, Digits
  <2>2. sum \in Nat /\ st.i <= sum
    BY <2>1, SumType
  <2>3. st.k \in Nat /\ st.bias \in Nat /\ st.w \in Nat /\ 1 <= st.w /\ Base <= st.k /\ Base \in Nat
    BY BootstringAssumption DEF GoodState, States
  <2>4. factor \in Nat /\ 1 <= factor
    BY <2>3, WeightGrows
  <2> HIDE DEF factor, sum
  <2>5. w2 \in Nat /\ 1 <= w2
    BY <2>3, <2>4, ProductGrows
  <2>6. k2 \in Nat /\ Base <= k2
    BY <2>3
  <2>7. RFCRead(st, c) = [st EXCEPT !.i = sum, !.w = w2, !.k = k2]
    BY <1>4, DigitRead DEF sum, factor
  <2> HIDE DEF w2, k2
  <2>8. st \in States /\ st.oldi \in Nat /\ st.i \in Nat /\ st.oldi <= st.i
    BY DEF GoodState, States
  <2> DEFINE st2 == [st EXCEPT !.i = sum, !.w = w2, !.k = k2]
  <2>9. st2 \in States
    BY <2>2, <2>5, <2>6, <2>8 DEF States
  <2>10. st2.oldi = st.oldi /\ st2.i = sum /\ st2.w = w2 /\ st2.k = k2
    BY <2>8 DEF States
  <2> HIDE DEF st2
  <2>11. GoodState(st2)
    BY <2>2, <2>5, <2>6, <2>8, <2>9, <2>10 DEF GoodState
  <2> QED
    BY <2>7, <2>11 DEF st2
<1> QED
  BY <1>1, <1>2, <1>3, <1>4

\* The states of the reference are good ones, and stay where they fail.
LEMMA StatesAreGood ==
    ASSUME NEW s \in Seq(Nat), NEW consumed \in 0 .. Len(s)
    PROVE  \A p \in consumed .. Len(s) : GoodState(RFCState(s, consumed)[p])
<1> DEFINE state == RFCState(s, consumed)
           Good == {p \in consumed .. Len(s) : GoodState(state[p])}
<1>1. Len(s) \in Nat /\ consumed \in Nat /\ \A j \in 1 .. Len(s) : s[j] \in Nat
  BY LenProperties, ElementOfSeq
<1>2. /\ state[consumed] = RFCInitial(SubSeq(s, 1, consumed - 1))
      /\ \A p \in consumed .. Len(s) : p + 1 <= Len(s) => state[p + 1] = RFCRead(state[p], s[p + 1])
  BY <1>1, StateIsRead
<1>3. SubSeq(s, 1, consumed - 1) \in Seq(Nat)
  <2>1. consumed - 1 \in Int /\ \A j \in 1 .. consumed - 1 : s[j] \in Nat
    BY <1>1
  <2> QED
    BY <2>1, SubSeqProperties
<1> HIDE DEF state
<1>4. consumed \in Good
  <2>1. GoodState(RFCInitial(SubSeq(s, 1, consumed - 1)))
    BY <1>3, InitialIsGood
  <2>2. consumed \in consumed .. Len(s)
    BY <1>1
  <2> QED
    BY <1>2, <2>1, <2>2
<1>5. \A p \in consumed .. Len(s) : p + 1 <= Len(s) /\ p \in Good => p + 1 \in Good
  <2> SUFFICES ASSUME NEW p \in consumed .. Len(s), p + 1 <= Len(s), p \in Good
               PROVE  p + 1 \in Good
    OBVIOUS
  <2>1. p + 1 \in consumed .. Len(s) /\ p + 1 \in 1 .. Len(s)
    BY <1>1
  <2>2. GoodState(RFCRead(state[p], s[p + 1]))
    BY <1>1, <2>1, ReadIsGood
  <2> QED
    BY <1>2, <2>1, <2>2
<1> HIDE DEF Good
<1>6. \A p \in consumed .. Len(s) : p \in Good
  BY <1>1, <1>4, <1>5, StepByStep
<1> QED
  BY <1>6 DEF Good, state

LEMMA FailedStaysFailed ==
    ASSUME NEW s, Len(s) \in Nat, NEW consumed \in 0 .. Len(s),
           NEW p \in consumed .. Len(s), RFCState(s, consumed)[p].kind # "reading"
    PROVE  RFCState(s, consumed)[Len(s)] = RFCState(s, consumed)[p]
<1> DEFINE state == RFCState(s, consumed)
           Same == {q \in p .. Len(s) : state[q] = state[p]}
<1>1. \A q \in consumed .. Len(s) : q + 1 <= Len(s) => state[q + 1] = RFCRead(state[q], s[q + 1])
  BY StateIsRead
<1> HIDE DEF state
<1>2. p \in Same /\ p \in Nat
  OBVIOUS
<1>3. \A q \in p .. Len(s) : q + 1 <= Len(s) /\ q \in Same => q + 1 \in Same
  <2> SUFFICES ASSUME NEW q \in p .. Len(s), q + 1 <= Len(s), state[q] = state[p]
               PROVE  q + 1 \in Same
    OBVIOUS
  <2>1. q \in consumed .. Len(s) /\ q + 1 \in p .. Len(s)
    OBVIOUS
  <2>2. state[q + 1] = RFCRead(state[p], s[q + 1])
    BY <1>1, <2>1
  <2>3. state[p].kind # "reading"
    BY DEF state
  <2>4. RFCRead(state[p], s[q + 1]) = state[p]
    BY <2>3 DEF RFCRead
  <2> QED
    BY <2>1, <2>2, <2>4
<1> HIDE DEF Same
<1>4. \A q \in p .. Len(s) : q \in Same
  BY <1>2, <1>3, StepByStep
<1>5. Len(s) \in p .. Len(s)
  OBVIOUS
<1>6. Len(s) \in Same
  BY <1>4, <1>5
<1> QED
  BY <1>6 DEF Same, state

\* The states of the reference depend on the characters read.
LEMMA StateOfAppended ==
    ASSUME NEW S, NEW s \in Seq(S), NEW c \in S, NEW consumed \in 0 .. Len(s)
    PROVE  RFCState(Append(s, c), consumed)[Len(s) + 1]
             = RFCRead(RFCState(s, consumed)[Len(s)], c)
<1> DEFINE t == Append(s, c)
           Same == {p \in consumed .. Len(s) : RFCState(t, consumed)[p] = RFCState(s, consumed)[p]}
<1>1. Len(s) \in Nat /\ consumed \in Nat /\ \A j \in 1 .. Len(s) : s[j] \in S
  BY LenProperties, ElementOfSeq
<1>2. /\ t \in Seq(S) /\ Len(t) = Len(s) + 1 /\ t[Len(s) + 1] = c
      /\ \A j \in 1 .. Len(s) : t[j] = s[j]
  BY AppendProperties
<1> HIDE DEF t
<1>3. consumed \in 0 .. Len(t) /\ Len(t) \in Nat
  BY <1>1, <1>2
<1>4. /\ RFCState(s, consumed)[consumed] = RFCInitial(SubSeq(s, 1, consumed - 1))
      /\ \A p \in consumed .. Len(s) : p + 1 <= Len(s) =>
            RFCState(s, consumed)[p + 1] = RFCRead(RFCState(s, consumed)[p], s[p + 1])
  BY <1>1, StateIsRead
<1>5. /\ RFCState(t, consumed)[consumed] = RFCInitial(SubSeq(t, 1, consumed - 1))
      /\ \A p \in consumed .. Len(t) : p + 1 <= Len(t) =>
            RFCState(t, consumed)[p + 1] = RFCRead(RFCState(t, consumed)[p], t[p + 1])
  BY <1>3, StateIsRead
<1>6. SubSeq(t, 1, consumed - 1) = SubSeq(s, 1, consumed - 1)
  <2>1. consumed - 1 \in Int
    BY <1>1
  <2>2. \A j \in 1 .. consumed - 1 : s[j] \in S /\ t[j] = s[j] /\ t[j] \in S
    BY <1>1, <1>2
  <2> DEFINE u == SubSeq(t, 1, consumed - 1)
             v == SubSeq(s, 1, consumed - 1)
             m == consumed - 1
  <2> HIDE DEF m
  <2>3. /\ SubSeq(s, 1, m) \in Seq(S)
        /\ Len(SubSeq(s, 1, m)) = IF 1 <= m THEN m - 1 + 1 ELSE 0
        /\ \A i \in 1 .. m - 1 + 1 : SubSeq(s, 1, m)[i] = s[1 + i - 1]
    BY <2>1, <2>2, SubSeqProperties DEF m
  <2>4. /\ SubSeq(t, 1, m) \in Seq(S)
        /\ Len(SubSeq(t, 1, m)) = IF 1 <= m THEN m - 1 + 1 ELSE 0
        /\ \A i \in 1 .. m - 1 + 1 : SubSeq(t, 1, m)[i] = t[1 + i - 1]
    BY <2>1, <2>2, SubSeqProperties DEF m
  <2>5. Len(v) = Len(u) /\ u \in Seq(S) /\ v \in Seq(S)
    BY <2>3, <2>4 DEF m
  <2>6. \A i \in 1 .. Len(u) : u[i] = v[i]
    <3>1. SUFFICES ASSUME NEW i \in 1 .. Len(u) PROVE u[i] = v[i]
      OBVIOUS
    <3>2. i \in 1 .. m - 1 + 1 /\ 1 + i - 1 = i /\ i \in 1 .. consumed - 1
      BY <2>1, <2>4, <3>1 DEF m
    <3> QED
      BY <2>2, <2>3, <2>4, <3>2 DEF m
  <2> HIDE DEF u, v
  <2>7. u = v
    BY <2>5, <2>6, SeqEqual
  <2> QED
    BY <2>7 DEF u, v
<1>7. consumed \in Same
  <2>1. consumed \in consumed .. Len(s)
    BY <1>1
  <2>2. RFCState(t, consumed)[consumed] = RFCState(s, consumed)[consumed]
    BY <1>4, <1>5, <1>6
  <2> QED
    BY <2>1, <2>2
<1>8. \A p \in consumed .. Len(s) : p + 1 <= Len(s) /\ p \in Same => p + 1 \in Same
  <2> SUFFICES ASSUME NEW p \in consumed .. Len(s), p + 1 <= Len(s),
                      RFCState(t, consumed)[p] = RFCState(s, consumed)[p]
               PROVE  p + 1 \in Same
    OBVIOUS
  <2>1. p \in consumed .. Len(t) /\ p + 1 <= Len(t) /\ p + 1 \in consumed .. Len(s)
        /\ p + 1 \in 1 .. Len(s)
    BY <1>1, <1>2
  <2>2. t[p + 1] = s[p + 1]
    BY <1>2, <2>1
  <2>3. RFCState(t, consumed)[p + 1] = RFCState(s, consumed)[p + 1]
    BY <1>4, <1>5, <2>1, <2>2
  <2> QED
    BY <2>1, <2>3
<1> HIDE DEF Same
<1>9. \A p \in consumed .. Len(s) : p \in Same
  BY <1>1, <1>7, <1>8, StepByStep
<1>10. Len(s) \in consumed .. Len(s) /\ Len(s) \in consumed .. Len(t) /\ Len(s) + 1 <= Len(t)
  BY <1>1, <1>2
<1>11. RFCState(t, consumed)[Len(s)] = RFCState(s, consumed)[Len(s)]
  BY <1>9, <1>10 DEF Same
<1> QED
  BY <1>2, <1>5, <1>10, <1>11 DEF t

\* The basic code points end at the last delimiter.
LEMMA ConsumedIs ==
    ASSUME NEW s, Len(s) \in Nat, NEW b \in 0 .. Len(s),
           \A j \in b + 1 .. Len(s) : s[j] # Hyphen,
           b # 0 => b # 1 /\ s[b] = Hyphen
    PROVE  RFCConsumed(s) = b
<1> DEFINE hyphens == {d \in 1 .. Len(s) : s[d] = Hyphen}
           last == CHOOSE d \in hyphens : \A e \in hyphens : e <= d
<1>1. RFCConsumed(s) = IF hyphens \subseteq {1} THEN 0 ELSE last
  BY DEF RFCConsumed
<1>2. \A d \in hyphens : d \in 1 .. Len(s) /\ d <= b
  <2> SUFFICES ASSUME NEW d \in hyphens PROVE d \in 1 .. Len(s) /\ d <= b
    OBVIOUS
  <2>1. d \in 1 .. Len(s) /\ s[d] = Hyphen
    OBVIOUS
  <2>2. ~(d \in b + 1 .. Len(s))
    BY <2>1
  <2> QED
    BY <2>1, <2>2
<1>3. CASE b = 0
  <2>1. hyphens = {}
    BY <1>2, <1>3
  <2> QED
    BY <1>1, <1>3, <2>1
<1>4. CASE b # 0
  <2>1. b \in hyphens /\ b # 1
    BY <1>4
  <2> HIDE DEF hyphens
  <2>2. ~(hyphens \subseteq {1})
    BY <2>1
  <2>3. \A d \in hyphens : (\A e \in hyphens : e <= d) => d = b
    <3> SUFFICES ASSUME NEW d \in hyphens, \A e \in hyphens : e <= d PROVE d = b
      OBVIOUS
    <3>1. b <= d /\ d <= b /\ d \in Int
      BY <1>2, <2>1
    <3> QED
      BY <3>1
  <2>4. \E d \in hyphens : \A e \in hyphens : e <= d
    BY <1>2, <2>1
  <2>5. last = b
    BY <2>3, <2>4
  <2> QED
    BY <1>1, <2>2, <2>5
<1> QED
  BY <1>3, <1>4

-----------------------------------------------------------------------------
(* The scalars at some places. *)

LEMMA SubsetCount ==
    ASSUME NEW N \in Nat, NEW S \in SUBSET (1 .. N)
    PROVE  /\ IsFiniteSet(S) /\ Cardinality(S) \in 0 .. N
           /\ Cardinality(S) = N => S = 1 .. N
<1>1. IsFiniteSet(1 .. N) /\ Cardinality(1 .. N) = N
  <2>1. IsFiniteSet(1 .. N) /\ Cardinality(1 .. N) = IF 1 > N THEN 0 ELSE N - 1 + 1
    BY FS_Interval
  <2> QED
    BY <2>1
<1>2. /\ IsFiniteSet(S) /\ Cardinality(S) <= N
      /\ N = Cardinality(S) => 1 .. N = S
  BY <1>1, FS_Subset
<1>3. Cardinality(S) \in Nat
  BY <1>2, FS_CardinalityType
<1> QED
  BY <1>2, <1>3

LEMMA OneMore ==
    ASSUME NEW N \in Nat, NEW S \in SUBSET (1 .. N), NEW x, x \notin S
    PROVE  Cardinality(S \cup {x}) = Cardinality(S) + 1
  BY SubsetCount, FS_AddElement

\* The scalars at some places, place by place.
LEMMA KeptIs ==
    ASSUME NEW s, Len(s) \in Nat, NEW P
    PROVE  /\ Kept(s, P)[0] = <<>>
           /\ \A j \in 0 .. Len(s) : j + 1 <= Len(s) =>
                Kept(s, P)[j + 1] = IF j + 1 \in P THEN Append(Kept(s, P)[j], s[j + 1])
                                    ELSE Kept(s, P)[j]
<1> DEFINE N == Len(s)
           Next1(u, j) == IF j \in P THEN Append(u, s[j]) ELSE u
           Rec(f, m) == f = [j \in 0 .. m |-> IF j = 0 THEN <<>> ELSE Next1(f[j - 1], j)]
           Defined == {m \in 0 .. N : \E f : Rec(f, m)}
           upTo == CHOOSE f : Rec(f, N)
<1>1. Kept(s, P) = upTo
  BY DEF Kept
<1>0. N \in Nat
  OBVIOUS
<1> HIDE DEF N, Next1
<1>2. 0 \in Defined
  <2>1. [j \in 0 .. 0 |-> <<>>]
            = [j \in 0 .. 0 |-> IF j = 0 THEN <<>> ELSE Next1([r \in 0 .. 0 |-> <<>>][j - 1], j)]
    OBVIOUS
  <2>2. \E f : Rec(f, 0)
    BY <2>1
  <2> HIDE DEF Rec
  <2> QED
    BY <1>0, <2>2
<1>3. \A m \in 0 .. N : m + 1 <= N /\ m \in Defined => m + 1 \in Defined
  <2>1. SUFFICES ASSUME NEW m \in 0 .. N, m + 1 <= N, NEW f, Rec(f, m)
                 PROVE  \E g : Rec(g, m + 1)
    BY <1>0
  <2> DEFINE g == [j \in 0 .. m + 1 |-> IF j = m + 1 THEN Next1(f[m], m + 1) ELSE f[j]]
  <2>2. \A j \in 0 .. m + 1 : j # 0 => j - 1 \in 0 .. m /\ g[j - 1] = f[j - 1]
    BY <1>0, <2>1
  <2>3. \A j \in 0 .. m + 1 : g[j] = IF j = 0 THEN <<>> ELSE Next1(g[j - 1], j)
    <3> SUFFICES ASSUME NEW j \in 0 .. m + 1
                 PROVE  g[j] = IF j = 0 THEN <<>> ELSE Next1(g[j - 1], j)
      OBVIOUS
    <3>1. CASE j = m + 1
      BY <1>0, <2>1, <2>2, <3>1
    <3>2. CASE j # m + 1
      <4>1. j \in 0 .. m /\ g[j] = f[j]
        BY <1>0, <2>1, <3>2
      <4>2. f[j] = IF j = 0 THEN <<>> ELSE Next1(f[j - 1], j)
        BY <2>1, <4>1
      <4>3. j # 0 => g[j - 1] = f[j - 1]
        BY <2>2
      <4> HIDE DEF g
      <4> QED
        BY <4>1, <4>2, <4>3
    <3> QED
      BY <3>1, <3>2
  <2>4. Rec(g, m + 1)
    BY <2>3
  <2> QED
    BY <2>4
<1>4. N \in Defined
  <2> HIDE DEF Defined
  <2>1. \A m \in 0 .. N : m \in Defined
    BY <1>0, <1>2, <1>3, StepByStep
  <2> QED
    BY <1>0, <2>1
<1>5. Rec(upTo, N)
  BY <1>4
<1>6. \A j \in 0 .. N : upTo[j] = IF j = 0 THEN <<>> ELSE Next1(upTo[j - 1], j)
  BY <1>5
<1> HIDE DEF upTo
<1>7. \A j \in 0 .. N : j + 1 <= N => upTo[j + 1] = Next1(upTo[j], j + 1)
  <2> SUFFICES ASSUME NEW j \in 0 .. N, j + 1 <= N
               PROVE  upTo[j + 1] = Next1(upTo[j], j + 1)
    OBVIOUS
  <2>1. j + 1 \in 0 .. N /\ j + 1 # 0 /\ (j + 1) - 1 = j
    BY <1>0
  <2> QED
    BY <1>6, <2>1
<1>8. upTo[0] = <<>>
  BY <1>0, <1>6
<1> QED
  BY <1>1, <1>7, <1>8 DEF Next1, N

LEMMA KeptType ==
    ASSUME NEW S, NEW s, Len(s) \in Nat, NEW P, \A j \in 1 .. Len(s) : j \in P => s[j] \in S
    PROVE  \A j \in 0 .. Len(s) : Kept(s, P)[j] \in Seq(S)
<1> DEFINE Typed == {j \in 0 .. Len(s) : Kept(s, P)[j] \in Seq(S)}
<1>1. Len(s) \in Nat /\ \A j \in 1 .. Len(s) : j \in P => s[j] \in S
  OBVIOUS
<1>2. 0 \in Typed
  <2>1. Kept(s, P)[0] = <<>> /\ <<>> \in Seq(S)
    BY <1>1, KeptIs, EmptySeq
  <2>2. 0 \in 0 .. Len(s) /\ Kept(s, P)[0] \in Seq(S)
    BY <1>1, <2>1
  <2> QED
    BY <2>2
<1>3. \A j \in 0 .. Len(s) : j + 1 <= Len(s) /\ j \in Typed => j + 1 \in Typed
  <2> SUFFICES ASSUME NEW j \in 0 .. Len(s), j + 1 <= Len(s), Kept(s, P)[j] \in Seq(S)
               PROVE  j + 1 \in Typed
    OBVIOUS
  <2>1. j + 1 \in 0 .. Len(s) /\ j + 1 \in 1 .. Len(s)
    BY <1>1
  <2>2. j + 1 \in P => Append(Kept(s, P)[j], s[j + 1]) \in Seq(S)
    BY <1>1, <2>1, AppendProperties
  <2>3. Kept(s, P)[j + 1] = IF j + 1 \in P THEN Append(Kept(s, P)[j], s[j + 1]) ELSE Kept(s, P)[j]
    BY <1>1, KeptIs
  <2> QED
    BY <2>1, <2>2, <2>3
<1> HIDE DEF Typed
<1>4. \A j \in 0 .. Len(s) : j \in Typed
  BY <1>1, <1>2, <1>3, StepByStep
<1> QED
  BY <1>4 DEF Typed

\* From place to place one scalar more or none.
LEMMA KeptGrows ==
    ASSUME NEW S, NEW s \in Seq(S), NEW P, NEW x \in 0 .. Len(s)
    PROVE  \A j \in x .. Len(s) : Len(Kept(s, P)[x]) <= Len(Kept(s, P)[j])
<1> DEFINE Longer == {j \in x .. Len(s) : Len(Kept(s, P)[x]) <= Len(Kept(s, P)[j])}
<1>1. Len(s) \in Nat /\ \A j \in 1 .. Len(s) : s[j] \in S
  BY LenProperties, ElementOfSeq
<1>2. \A j \in 0 .. Len(s) : Kept(s, P)[j] \in Seq(S) /\ Len(Kept(s, P)[j]) \in Nat
  BY <1>1, KeptType, LenProperties
<1>3. x \in Longer
  BY <1>1, <1>2
<1>4. \A j \in x .. Len(s) : j + 1 <= Len(s) /\ j \in Longer => j + 1 \in Longer
  <2> SUFFICES ASSUME NEW j \in x .. Len(s), j + 1 <= Len(s),
                      Len(Kept(s, P)[x]) <= Len(Kept(s, P)[j])
               PROVE  j + 1 \in Longer
    OBVIOUS
  <2>1. j \in 0 .. Len(s) /\ j + 1 \in x .. Len(s) /\ s[j + 1] \in S
    BY <1>1
  <2>2. Len(Append(Kept(s, P)[j], s[j + 1])) = Len(Kept(s, P)[j]) + 1
    BY <1>2, <2>1, AppendProperties
  <2>3. Kept(s, P)[j + 1] = IF j + 1 \in P THEN Append(Kept(s, P)[j], s[j + 1]) ELSE Kept(s, P)[j]
    BY <1>1, <2>1, KeptIs
  <2>4. Len(Kept(s, P)[x]) <= Len(Kept(s, P)[j + 1])
    BY <1>2, <2>1, <2>2, <2>3
  <2> QED
    BY <2>1, <2>4
<1> HIDE DEF Longer
<1>5. \A j \in x .. Len(s) : j \in Longer
  <2>1. x \in Nat
    BY <1>1
  <2> QED
    BY <1>1, <1>3, <1>4, <2>1, StepByStep
<1> QED
  BY <1>5 DEF Longer

\* What is kept up to a place depends on the places up to it.
LEMMA KeptSame ==
    ASSUME NEW s, Len(s) \in Nat, NEW P, NEW Q, NEW x \in 0 .. Len(s),
           \A j \in 1 .. x : j \in P <=> j \in Q
    PROVE  Kept(s, P)[x] = Kept(s, Q)[x]
<1> DEFINE Same == {j \in 0 .. x : Kept(s, P)[j] = Kept(s, Q)[j]}
<1>1. 0 \in Same
  BY KeptIs
<1>2. \A j \in 0 .. x : j + 1 <= x /\ j \in Same => j + 1 \in Same
  <2> SUFFICES ASSUME NEW j \in 0 .. x, j + 1 <= x, Kept(s, P)[j] = Kept(s, Q)[j]
               PROVE  j + 1 \in Same
    OBVIOUS
  <2>1. j \in 0 .. Len(s) /\ j + 1 <= Len(s) /\ j + 1 \in 1 .. x
    OBVIOUS
  <2>2. /\ Kept(s, P)[j + 1] = IF j + 1 \in P THEN Append(Kept(s, P)[j], s[j + 1])
                               ELSE Kept(s, P)[j]
        /\ Kept(s, Q)[j + 1] = IF j + 1 \in Q THEN Append(Kept(s, Q)[j], s[j + 1])
                               ELSE Kept(s, Q)[j]
    BY <2>1, KeptIs
  <2>3. j + 1 \in P <=> j + 1 \in Q
    BY <2>1
  <2>4. Kept(s, P)[j + 1] = Kept(s, Q)[j + 1]
    BY <2>2, <2>3
  <2> QED
    BY <2>1, <2>4
<1> HIDE DEF Same
<1>3. \A j \in 0 .. x : j \in Same
  BY <1>1, <1>2, StepByStep
<1>4. x \in Same
  BY <1>3
<1> QED
  BY <1>4 DEF Same

\* As many are kept up to a place as there are places up to it.
LEMMA KeptCount ==
    ASSUME NEW S, NEW s \in Seq(S), NEW P
    PROVE  \A p \in 0 .. Len(s) :
               Len(Kept(s, P)[p]) = Cardinality({l \in 1 .. Len(s) : l \in P /\ l <= p})
<1> DEFINE N == Len(s)
           UpTo(p) == {l \in 1 .. N : l \in P /\ l <= p}
           Same == {p \in 0 .. Len(s) : Len(Kept(s, P)[p]) = Cardinality(UpTo(p))}
<1>1. Len(s) \in Nat /\ \A j \in 1 .. Len(s) : s[j] \in S
  BY LenProperties, ElementOfSeq
<1>6. N \in Nat
  BY <1>1
<1>2. \A j \in 0 .. Len(s) : Kept(s, P)[j] \in Seq(S)
  BY <1>1, KeptType
<1>3. 0 \in Same
  <2>1. UpTo(0) = {}
    <3> HIDE DEF N
    <3> QED
      BY <1>6
  <2> HIDE DEF UpTo
  <2>2. Kept(s, P)[0] = <<>> /\ Len(<<>>) = 0 /\ Cardinality(UpTo(0)) = 0
    BY <1>1, <2>1, KeptIs, EmptySeq, FS_EmptySet
  <2> QED
    BY <1>1, <2>2
<1>4. \A p \in 0 .. Len(s) : p + 1 <= Len(s) /\ p \in Same => p + 1 \in Same
  <2> SUFFICES ASSUME NEW p \in 0 .. Len(s), p + 1 <= Len(s),
                      Len(Kept(s, P)[p]) = Cardinality(UpTo(p))
               PROVE  Len(Kept(s, P)[p + 1]) = Cardinality(UpTo(p + 1)) /\ p + 1 \in 0 .. Len(s)
    OBVIOUS
  <2>0. p \in Nat /\ p + 1 <= N
    BY <1>1
  <2>1. /\ UpTo(p) \in SUBSET (1 .. Len(s)) /\ p + 1 \notin UpTo(p) /\ p + 1 \in 1 .. Len(s)
        /\ p + 1 \in 0 .. Len(s)
    <3>1. /\ UpTo(p) \in SUBSET (1 .. N) /\ p + 1 \notin UpTo(p) /\ p + 1 \in 1 .. N
          /\ p + 1 \in 0 .. N
      <4> HIDE DEF N
      <4> QED
        BY <1>6, <2>0
    <3> QED
      BY <3>1
  <2>2. UpTo(p + 1) = IF p + 1 \in P THEN UpTo(p) \cup {p + 1} ELSE UpTo(p)
    <3> HIDE DEF N
    <3> QED
      BY <1>6, <2>0
  <2> HIDE DEF UpTo
  <2>3. Cardinality(UpTo(p) \cup {p + 1}) = Cardinality(UpTo(p)) + 1
    BY <1>1, <2>1, OneMore
  <2>4. Kept(s, P)[p + 1] = IF p + 1 \in P THEN Append(Kept(s, P)[p], s[p + 1])
                            ELSE Kept(s, P)[p]
    BY <1>1, KeptIs
  <2>5. Len(Append(Kept(s, P)[p], s[p + 1])) = Len(Kept(s, P)[p]) + 1
    <3>1. s[p + 1] \in S /\ Kept(s, P)[p] \in Seq(S)
      BY <1>1, <1>2, <2>1
    <3> QED
      BY <3>1, AppendProperties
  <2> QED
    BY <2>1, <2>2, <2>3, <2>4, <2>5
<1> HIDE DEF Same
<1>5. \A p \in 0 .. Len(s) : p \in Same
  BY <1>1, <1>3, <1>4, StepByStep
<1> QED
  BY <1>5 DEF Same

-----------------------------------------------------------------------------
(***************************************************************************)
(* The order in which the encoder inserts.  For every number of scalars    *)
(* from the ASCII ones to all but one there is one place whose scalar      *)
(* finds that many; the next one finds that scalar as well, and is not     *)
(* less far along the decoder's states.                                    *)
(***************************************************************************)
Label(s) == Len(s) \in Nat /\ \A j \in 1 .. Len(s) : s[j] \in Nat

\* Numbers of scalars that another one is inserted among.
Among(s) == RFCBasics(s) .. Len(s) - 1

LEMMA EarlierFacts ==
    ASSUME NEW s, Label(s)
    PROVE  /\ ASCIIPlaces(s) \in SUBSET (1 .. Len(s))
           /\ RFCBasics(s) \in 0 .. Len(s)
           /\ \A j : RFCEarlier(s, j) \in SUBSET (1 .. Len(s))
           /\ \A j \in 1 .. Len(s) : ~IsASCII(s[j]) => j \notin RFCEarlier(s, j)
<1>1. ASCIIPlaces(s) \in SUBSET (1 .. Len(s))
  BY DEF ASCIIPlaces
<1>2. RFCBasics(s) \in 0 .. Len(s)
  BY <1>1, SubsetCount DEF Label, RFCBasics
<1>3. \A j : RFCEarlier(s, j) \in SUBSET (1 .. Len(s))
  BY DEF RFCEarlier
<1>4. \A j \in 1 .. Len(s) : ~IsASCII(s[j]) => j \notin RFCEarlier(s, j)
  BY DEF RFCEarlier, Label
<1> QED
  BY <1>1, <1>2, <1>3, <1>4

\* Of two places one is before the other, and finds fewer.
LEMMA FewerBefore ==
    ASSUME NEW s, Label(s), NEW j \in 1 .. Len(s), NEW l \in 1 .. Len(s),
           ~IsASCII(s[j]), ~IsASCII(s[l]), j \in RFCEarlier(s, l)
    PROVE  Cardinality(RFCEarlier(s, j)) < Cardinality(RFCEarlier(s, l))
<1> DEFINE E == RFCEarlier(s, j)
           F == RFCEarlier(s, l)
<1>1. E \cup {j} \subseteq F
  <2>1. s[j] \in Nat /\ s[l] \in Nat /\ (s[j] < s[l] \/ (s[j] = s[l] /\ j < l))
    BY DEF RFCEarlier, Label
  <2>2. \A x \in 1 .. Len(s) :
            IsASCII(s[x]) \/ s[x] < s[j] \/ (s[x] = s[j] /\ x < j)
            => IsASCII(s[x]) \/ s[x] < s[l] \/ (s[x] = s[l] /\ x < l)
    BY <2>1 DEF Label
  <2> QED
    BY <2>2 DEF RFCEarlier
<1>2. E \in SUBSET (1 .. Len(s)) /\ F \in SUBSET (1 .. Len(s)) /\ j \notin E
  BY EarlierFacts
<1> HIDE DEF E, F
<1>3. IsFiniteSet(F) /\ Cardinality(E \cup {j}) <= Cardinality(F)
  BY <1>1, <1>2, SubsetCount, FS_Subset DEF Label
<1>4. Cardinality(E \cup {j}) = Cardinality(E) + 1
  BY <1>2, OneMore DEF Label
<1>5. Cardinality(E) \in Nat /\ Cardinality(F) \in Nat
  BY <1>2, SubsetCount DEF Label
<1> QED
  BY <1>3, <1>4, <1>5 DEF E, F

LEMMA PlaceIs ==
    ASSUME NEW s, Label(s), NEW j \in 1 .. Len(s), ~IsASCII(s[j])
    PROVE  RFCPlace(s, Cardinality(RFCEarlier(s, j))) = j
<1> DEFINE h == Cardinality(RFCEarlier(s, j))
           Is(l) == ~IsASCII(s[l]) /\ Cardinality(RFCEarlier(s, l)) = h
<1>1. \A l \in 1 .. Len(s) : Is(l) => l = j
  <2> SUFFICES ASSUME NEW l \in 1 .. Len(s), Is(l), l # j PROVE FALSE
    OBVIOUS
  <2>1. j \in RFCEarlier(s, l) \/ l \in RFCEarlier(s, j)
    BY DEF RFCEarlier, Label
  <2>2. h \in Nat
    <3>1. RFCEarlier(s, j) \in SUBSET (1 .. Len(s)) /\ Len(s) \in Nat
      BY EarlierFacts DEF Label
    <3>2. Cardinality(RFCEarlier(s, j)) \in 0 .. Len(s)
      BY <3>1, SubsetCount
    <3> QED
      BY <3>1, <3>2
  <2>3. h < h
    <3>1. ASSUME j \in RFCEarlier(s, l) PROVE h < h
      BY <3>1, FewerBefore
    <3>2. ASSUME l \in RFCEarlier(s, j) PROVE h < h
      BY <3>2, FewerBefore
    <3> QED
      BY <2>1, <3>1, <3>2
  <2> HIDE DEF h
  <2> QED
    BY <2>2, <2>3
<1>2. Is(j)
  OBVIOUS
<1>3. RFCPlace(s, h) = CHOOSE l \in 1 .. Len(s) : Is(l)
  BY DEF RFCPlace
<1> HIDE DEF h, Is
<1>4. RFCPlace(s, h) = j
  BY <1>1, <1>2, <1>3
<1> QED
  BY <1>4 DEF h

\* Places that hold those before them, but not all: the next is before all
\* others that are left.
LEMMA NextPlace ==
    ASSUME NEW s, Label(s), NEW D \in SUBSET (1 .. Len(s)), D # 1 .. Len(s),
           ASCIIPlaces(s) \subseteq D,
           \A l \in D : ~IsASCII(s[l]) => RFCEarlier(s, l) \subseteq D
    PROVE  \E j \in 1 .. Len(s) : j \notin D /\ ~IsASCII(s[j]) /\ RFCEarlier(s, j) = D
<1> DEFINE Left == (1 .. Len(s)) \ D
           Values == {s[l] : l \in Left}
<1>0. Len(s) \in Nat /\ \A l \in 1 .. Len(s) : s[l] \in Nat
  BY DEF Label
<1>1. \A l \in Left : s[l] \in Nat /\ l \in Nat /\ l \in 1 .. Len(s) /\ ~IsASCII(s[l])
  BY <1>0 DEF ASCIIPlaces
<1>2. Left # {}
  OBVIOUS
<1> HIDE DEF Left
<1>3. Values \in SUBSET Nat /\ Values # {}
  BY <1>1, <1>2
<1>4. PICK v \in Values : \A y \in Values : v <= y
  <2> HIDE DEF Values
  <2> QED
    BY <1>3, LeastNumber
<1> DEFINE Least == {l \in Left : s[l] = v}
<1>5. Least \in SUBSET Nat /\ Least # {}
  BY <1>1, <1>4
<1>6. PICK j \in Least : \A y \in Least : j <= y
  <2> HIDE DEF Least
  <2> QED
    BY <1>5, LeastNumber
<1>7. j \in Left /\ s[j] = v /\ v \in Nat /\ j \in Nat /\ j \in 1 .. Len(s) /\ ~IsASCII(s[j])
  BY <1>1, <1>6
<1>8. \A l \in 1 .. Len(s) : l \in RFCEarlier(s, j) => l \in D
  <2> SUFFICES ASSUME NEW l \in 1 .. Len(s), l \in RFCEarlier(s, j), l \notin D PROVE FALSE
    OBVIOUS
  <2>1. l \in Left
    BY DEF Left
  <2>2. s[l] \in Nat /\ l \in Nat /\ ~IsASCII(s[l]) /\ v <= s[l]
    BY <1>1, <1>4, <2>1
  <2>3. s[l] = v /\ l < j
    BY <1>7, <2>2 DEF RFCEarlier
  <2>4. j <= l
    BY <1>6, <2>1, <2>3
  <2> QED
    BY <1>7, <2>2, <2>3, <2>4
<1>9. \A l \in D : l \in RFCEarlier(s, j)
  <2> SUFFICES ASSUME NEW l \in D, l \notin RFCEarlier(s, j) PROVE FALSE
    OBVIOUS
  <2>1. l \in 1 .. Len(s) /\ ~IsASCII(s[l]) /\ s[l] \in Nat /\ l \in Nat
    BY <1>0 DEF RFCEarlier
  <2>2. v < s[l] \/ (v = s[l] /\ j <= l)
    BY <1>7, <2>1 DEF RFCEarlier
  <2>3. j = l \/ j \in RFCEarlier(s, l)
    BY <1>7, <2>1, <2>2 DEF RFCEarlier
  <2>4. j \in D
    BY <2>1, <2>3
  <2> QED
    BY <1>7, <2>4 DEF Left
<1>10. RFCEarlier(s, j) = D
  BY <1>8, <1>9, EarlierFacts
<1> QED
  BY <1>7, <1>10 DEF Left

\* A place and those before it hold those before them.
LEMMA EarlierHolds ==
    ASSUME NEW s, Label(s), NEW j \in 1 .. Len(s), ~IsASCII(s[j])
    PROVE  LET D == RFCEarlier(s, j) \cup {j}
           IN  /\ D \in SUBSET (1 .. Len(s)) /\ ASCIIPlaces(s) \subseteq D
               /\ \A l \in D : ~IsASCII(s[l]) => RFCEarlier(s, l) \subseteq D
               /\ Cardinality(D) = Cardinality(RFCEarlier(s, j)) + 1
<1> DEFINE D == RFCEarlier(s, j) \cup {j}
<1>1. D \in SUBSET (1 .. Len(s)) /\ Cardinality(D) = Cardinality(RFCEarlier(s, j)) + 1
  BY EarlierFacts, OneMore DEF Label
<1>2. ASCIIPlaces(s) \subseteq D
  BY DEF ASCIIPlaces, RFCEarlier
<1>3. ASSUME NEW l \in D, ~IsASCII(s[l]), NEW x \in RFCEarlier(s, l)
      PROVE  x \in D
  <2>1. /\ l \in 1 .. Len(s) /\ x \in 1 .. Len(s)
        /\ s[l] \in Nat /\ s[x] \in Nat /\ s[j] \in Nat
    BY <1>1, <1>3, EarlierFacts DEF Label
  <2>2. l = j \/ s[l] < s[j] \/ (s[l] = s[j] /\ l < j)
    BY <1>3 DEF RFCEarlier
  <2>3. IsASCII(s[x]) \/ s[x] < s[l] \/ (s[x] = s[l] /\ x < l)
    BY <1>3 DEF RFCEarlier
  <2>4. IsASCII(s[x]) \/ s[x] < s[j] \/ (s[x] = s[j] /\ x < j)
    BY <2>1, <2>2, <2>3
  <2> QED
    BY <2>1, <2>4 DEF RFCEarlier
<1> HIDE DEF D
<1>4. \A l \in D : ~IsASCII(s[l]) => RFCEarlier(s, l) \subseteq D
  BY <1>3
<1> QED
  BY <1>1, <1>2, <1>4 DEF D

LEMMA PlaceExists ==
    ASSUME NEW s, Label(s)
    PROVE  \A h \in Among(s) :
               \E j \in 1 .. Len(s) : ~IsASCII(s[j]) /\ Cardinality(RFCEarlier(s, j)) = h
<1> DEFINE Found == {h \in Among(s) : \E j \in 1 .. Len(s) :
                        ~IsASCII(s[j]) /\ Cardinality(RFCEarlier(s, j)) = h}
           b == RFCBasics(s)
           L == Len(s)
<1>1. L \in Nat /\ b \in 0 .. L /\ b \in Nat /\ Among(s) = b .. L - 1
  BY EarlierFacts DEF Label, Among
<1> SUFFICES ASSUME b < L PROVE \A h \in Among(s) : h \in Found
  <2>1. \A h \in b .. L - 1 : b < L
    <3> HIDE DEF b, L
    <3> QED
      BY <1>1
  <2> QED
    BY <1>1, <2>1
<1>2. Cardinality(1 .. L) = L
  <2>1. Cardinality(1 .. L) = IF 1 > L THEN 0 ELSE L - 1 + 1
    BY <1>1, FS_Interval
  <2> HIDE DEF L
  <2> QED
    BY <1>1, <2>1
<1>3. b \in Found
  <2>1. ASCIIPlaces(s) \in SUBSET (1 .. L) /\ \A l \in ASCIIPlaces(s) : IsASCII(s[l])
    BY DEF ASCIIPlaces
  <2>2. ASCIIPlaces(s) # 1 .. L
    <3>1. Cardinality(ASCIIPlaces(s)) = b
      BY DEF RFCBasics
    <3> HIDE DEF b, L
    <3> QED
      BY <1>1, <1>2, <3>1
  <2>3. \E j \in 1 .. Len(s) :
            j \notin ASCIIPlaces(s) /\ ~IsASCII(s[j]) /\ RFCEarlier(s, j) = ASCIIPlaces(s)
    BY <2>1, <2>2, NextPlace
  <2>4. b \in Among(s)
    <3> HIDE DEF b, L
    <3> QED
      BY <1>1
  <2> QED
    BY <2>3, <2>4 DEF RFCBasics
<1>4. \A h \in b .. L - 1 : h + 1 <= L - 1 /\ h \in Found => h + 1 \in Found
  <2> SUFFICES ASSUME NEW h \in b .. L - 1, h + 1 <= L - 1, NEW j \in 1 .. Len(s),
                      ~IsASCII(s[j]), Cardinality(RFCEarlier(s, j)) = h
               PROVE  h + 1 \in Found
    OBVIOUS
  <2> DEFINE D == RFCEarlier(s, j) \cup {j}
  <2>1. /\ D \in SUBSET (1 .. Len(s)) /\ ASCIIPlaces(s) \subseteq D
        /\ \A l \in D : ~IsASCII(s[l]) => RFCEarlier(s, l) \subseteq D
        /\ Cardinality(D) = h + 1
    BY EarlierHolds
  <2> HIDE DEF D
  <2>2. D # 1 .. Len(s)
    <3>1. h \in Nat /\ h + 1 < L
      <4>1. h \in b .. L - 1 /\ b \in Nat /\ L \in Nat /\ h + 1 <= L - 1
        BY <1>1
      <4> HIDE DEF b, L
      <4> QED
        BY <4>1
    <3>2. h + 1 # L
      <4> HIDE DEF L
      <4> QED
        BY <1>1, <3>1
    <3> QED
      BY <1>2, <2>1, <3>2
  <2>3. \E l \in 1 .. Len(s) : l \notin D /\ ~IsASCII(s[l]) /\ RFCEarlier(s, l) = D
    BY <2>1, <2>2, NextPlace
  <2>4. h + 1 \in Among(s)
    <3> HIDE DEF b, L
    <3> QED
      BY <1>1
  <2> QED
    BY <2>1, <2>3, <2>4
<1> HIDE DEF Found, b, L
<1>5. \A h \in b .. L - 1 : h \in Found
  <2>1. L - 1 \in Nat
    BY <1>1
  <2> QED
    BY <1>1, <1>3, <1>4, <2>1, StepByStep
<1> QED
  BY <1>1, <1>5

LEMMA PlaceFacts ==
    ASSUME NEW s, Label(s), NEW h \in Among(s)
    PROVE  /\ RFCPlace(s, h) \in 1 .. Len(s) /\ ~IsASCII(s[RFCPlace(s, h)])
           /\ Cardinality(RFCEarlier(s, RFCPlace(s, h))) = h
           /\ RFCAt(s, h) \in 0 .. h /\ h \in Nat /\ s[RFCPlace(s, h)] \in Nat
<1> DEFINE j == RFCPlace(s, h)
<1>1. j \in 1 .. Len(s) /\ ~IsASCII(s[j]) /\ Cardinality(RFCEarlier(s, j)) = h
  BY PlaceExists DEF RFCPlace
<1> HIDE DEF j
<1>2. RFCEarlier(s, j) \in SUBSET (1 .. Len(s))
  BY EarlierFacts
<1>3. h \in Nat /\ IsFiniteSet(RFCEarlier(s, j))
  <2>1. IsFiniteSet(RFCEarlier(s, j)) /\ Cardinality(RFCEarlier(s, j)) \in Nat
    BY <1>2, SubsetCount DEF Label
  <2> QED
    BY <1>1, <2>1
<1> DEFINE B == {l \in RFCEarlier(s, j) : l < j}
<1>4. B \subseteq RFCEarlier(s, j)
  OBVIOUS
<1>5. RFCAt(s, h) = Cardinality(B)
  BY DEF RFCAt, j
<1> HIDE DEF B
<1>6. Cardinality(B) <= h /\ Cardinality(B) \in Nat
  BY <1>1, <1>3, <1>4, FS_Subset, FS_CardinalityType
<1>7. s[j] \in Nat
  BY <1>1 DEF Label
<1> QED
  BY <1>1, <1>3, <1>5, <1>6, <1>7 DEF j

\* The next scalar finds the one before as well: among equal ones it is
\* further right.
LEMMA PlaceAfter ==
    ASSUME NEW s, Label(s), NEW h \in Among(s), h + 1 \in Among(s)
    PROVE  /\ s[RFCPlace(s, h)] <= s[RFCPlace(s, h + 1)]
           /\ s[RFCPlace(s, h)] = s[RFCPlace(s, h + 1)] => RFCAt(s, h) + 1 <= RFCAt(s, h + 1)
<1> DEFINE j == RFCPlace(s, h)
           l == RFCPlace(s, h + 1)
           D == RFCEarlier(s, j) \cup {j}
           B == {x \in RFCEarlier(s, j) : x < j}
           C == {x \in RFCEarlier(s, l) : x < l}
<1>1. /\ j \in 1 .. Len(s) /\ ~IsASCII(s[j]) /\ Cardinality(RFCEarlier(s, j)) = h
      /\ h \in Nat /\ Len(s) \in Nat
  BY PlaceFacts DEF Label
<1>2. RFCEarlier(s, l) = D
  <2>1. /\ D \in SUBSET (1 .. Len(s)) /\ ASCIIPlaces(s) \subseteq D
        /\ \A x \in D : ~IsASCII(s[x]) => RFCEarlier(s, x) \subseteq D
        /\ Cardinality(D) = h + 1
    <3> HIDE DEF j
    <3> QED
      BY <1>1, EarlierHolds
  <2> HIDE DEF D
  <2>2. D # 1 .. Len(s)
    <3>1. Cardinality(1 .. Len(s)) = IF 1 > Len(s) THEN 0 ELSE Len(s) - 1 + 1
      BY <1>1, FS_Interval
    <3>2. h + 1 <= Len(s) - 1
      BY DEF Among
    <3> QED
      BY <1>1, <2>1, <3>1, <3>2
  <2>3. PICK x \in 1 .. Len(s) : x \notin D /\ ~IsASCII(s[x]) /\ RFCEarlier(s, x) = D
    BY <2>1, <2>2, NextPlace
  <2>4. RFCPlace(s, h + 1) = x
    BY <2>1, <2>3, PlaceIs
  <2> QED
    BY <2>3, <2>4
<1>3. l \in 1 .. Len(s) /\ ~IsASCII(s[l]) /\ RFCAt(s, h + 1) = Cardinality(C)
  BY PlaceFacts DEF RFCAt
<1>4. RFCAt(s, h) = Cardinality(B)
  BY DEF RFCAt
<1> HIDE DEF j, l
<1>5. j \in RFCEarlier(s, l)
  BY <1>2
<1>6. s[j] \in Nat /\ s[l] \in Nat /\ (s[j] < s[l] \/ (s[j] = s[l] /\ j < l))
  BY <1>1, <1>3, <1>5 DEF RFCEarlier, Label
<1>7. ASSUME s[j] = s[l] PROVE Cardinality(B) + 1 <= Cardinality(C)
  <2>1. j < l /\ j \in Nat /\ l \in Nat /\ j \in 1 .. Len(s)
    BY <1>1, <1>3, <1>6, <1>7
  <2>2. B \cup {j} \subseteq C
    <3>1. \A x \in B : x \in C
      <4>1. \A x \in RFCEarlier(s, j) : x \in 1 .. Len(s)
        BY EarlierFacts
      <4> QED
        BY <1>2, <2>1, <4>1
    <3>2. j \in C
      BY <1>5, <2>1
    <3> QED
      BY <3>1, <3>2
  <2>3. /\ B \in SUBSET (1 .. Len(s)) /\ C \in SUBSET (1 .. Len(s)) /\ j \notin B
    BY <2>1, EarlierFacts
  <2> HIDE DEF B, C
  <2>4. Cardinality(B \cup {j}) = Cardinality(B) + 1 /\ IsFiniteSet(C)
    BY <1>1, <2>3, OneMore, SubsetCount
  <2> QED
    BY <2>2, <2>4, FS_Subset
<1> QED
  BY <1>3, <1>4, <1>6, <1>7 DEF j, l

\* What is written of each insertion is a number: how far the decoder has to
\* go on.
LEMMA DeltaIsNumber ==
    ASSUME NEW s, Label(s), NEW h \in Among(s)
    PROVE  RFCDelta(s, h) \in Nat
<1> DEFINE b == RFCBasics(s)
           c == s[RFCPlace(s, h)]
           at == RFCAt(s, h)
<1>1. /\ c \in Nat /\ ~IsASCII(c) /\ at \in 0 .. h /\ at \in Nat /\ h \in Nat
      /\ b \in Nat /\ b <= h /\ h <= Len(s) - 1 /\ Len(s) \in Nat
  <2>1. b \in Nat /\ h \in b .. Len(s) - 1 /\ Len(s) \in Nat
    BY EarlierFacts DEF Label, Among
  <2> HIDE DEF b
  <2> QED
    BY <2>1, PlaceFacts
<1>2. CASE h = b
  <2>1. RFCDelta(s, h) = (c - InitialN) * (h + 1) + at - 0
    BY <1>2 DEF RFCDelta, RFCBehind
  <2>2. c - InitialN \in Nat /\ h + 1 \in Nat
    <3>1. InitialN \in Nat
      BY CodePointAssumption
    <3>2. c \in Nat /\ ~(c < InitialN) /\ h \in Nat
      BY <1>1 DEF IsASCII
    <3> HIDE DEF c
    <3> QED
      BY <3>1, <3>2
  <2> DEFINE product == (c - InitialN) * (h + 1)
  <2>3. product \in Nat
    BY <2>2, Products
  <2> HIDE DEF product, at
  <2> QED
    BY <1>1, <2>1, <2>3 DEF product
<1>3. CASE h # b
  <2> DEFINE g == h - 1
             d == s[RFCPlace(s, g)]
             before == RFCAt(s, g)
  <2>1. RFCDelta(s, h) = (c - d) * (h + 1) + at - (before + 1)
    BY <1>3 DEF RFCDelta, RFCBehind
  <2>2. g \in Among(s) /\ g + 1 = h /\ g \in Nat
    <3> HIDE DEF b
    <3> QED
      BY <1>1, <1>3 DEF Among, b
  <2>3. d \in Nat /\ before \in 0 .. g /\ d <= c /\ (d = c => before + 1 <= at)
    <3> HIDE DEF g
    <3>1. d \in Nat /\ before \in 0 .. g
      BY <2>2, PlaceFacts
    <3>2. d <= s[RFCPlace(s, g + 1)]
          /\ (d = s[RFCPlace(s, g + 1)] => before + 1 <= RFCAt(s, g + 1))
      BY <2>2, PlaceAfter
    <3> QED
      BY <2>2, <3>1, <3>2
  <2> DEFINE x == c - d
             product == x * (h + 1)
  <2> HIDE DEF g, d, before, c, at
  <2>4. x \in Nat
    BY <1>1, <2>3
  <2>5. product \in Nat /\ (x # 0 => h + 1 <= product) /\ (x = 0 => product = 0)
    <3> HIDE DEF x
    <3>1. h + 1 \in Nat /\ (x # 0 => 1 <= x)
      BY <1>1, <2>4
    <3> DEFINE y == h + 1
    <3> HIDE DEF y
    <3>2. y * x \in Nat /\ x * y = y * x
      BY <2>4, <3>1 DEF y
    <3>3. x # 0 => y <= y * x
      BY <2>4, <3>1, ProductGrows DEF y
    <3>4. x = 0 => x * y = 0
      BY <3>1 DEF y
    <3> QED
      BY <3>2, <3>3, <3>4 DEF y
  <2>6. RFCDelta(s, h) = product + at - (before + 1)
    BY <2>1
  <2>7. x = 0 => before + 1 <= at
    BY <1>1, <2>3
  <2> HIDE DEF product, x
  <2>8. before + 1 <= product + at /\ before \in Nat
    BY <1>1, <2>2, <2>3, <2>5, <2>7
  <2> QED
    BY <1>1, <2>5, <2>6, <2>8
<1> QED
  BY <1>2, <1>3

LEMMA BiasIsNumber ==
    ASSUME NEW s, Label(s), NEW h \in RFCBasics(s) .. Len(s)
    PROVE  RFCBias(s, h) \in Nat
<1> DEFINE b == RFCBasics(s)
<1>1. b \in Nat /\ Len(s) \in Nat /\ h \in b .. Len(s) /\ h \in Nat
  BY EarlierFacts DEF Label
<1>2. CASE h = b
  BY <1>2, BootstringAssumption DEF RFCBias
<1>3. CASE h # b
  <2> DEFINE g == h - 1
             first == (g = b)
  <2>1. RFCBias(s, h) = RFCReduce(Spread(RFCDelta(s, g), h, first))
    BY <1>3, AdaptIsReduce DEF RFCBias
  <2>2. g \in Among(s) /\ h # 0
    <3> HIDE DEF b
    <3> QED
      BY <1>1, <1>3 DEF Among, b
  <2>3. RFCDelta(s, g) \in Nat /\ first \in BOOLEAN
    BY <2>2, DeltaIsNumber
  <2> HIDE DEF g, first
  <2>4. Spread(RFCDelta(s, g), h, first) \in Nat
    BY <1>1, <2>2, <2>3, SpreadType
  <2> QED
    BY <2>1, <2>4, ReduceIsLoop
<1> QED
  BY <1>2, <1>3

-----------------------------------------------------------------------------
(* A delta as it is written. *)

Rest(q, t) == (q - t) \div (Base - t)

\* What is left of a number after a digit is less.
LEMMA RestIsLess ==
    ASSUME NEW y \in Nat, NEW q \in Nat, NEW k \in Nat, ~(q < T(k, y))
    PROVE  Rest(q, T(k, y)) \in Nat /\ Rest(q, T(k, y)) < q
<1> DEFINE t == T(k, y)
           room == Base - t
           x == q - t
<1>1. t \in 1 .. Base - 1 /\ room \in Nat /\ 1 <= room /\ t \in Nat
  <2>1. t \in 1 .. Base - 1 /\ room \in Nat /\ 1 <= room /\ Base \in Nat
    BY WeightGrows, BootstringAssumption
  <2> HIDE DEF t
  <2> QED
    BY <2>1
<1>2. x \in Nat /\ x < q
  <2>1. ~(q < t)
    OBVIOUS
  <2> HIDE DEF t
  <2> QED
    BY <1>1, <2>1
<1> DEFINE rest == x \div room
<1> HIDE DEF x, room
<1>3. rest \in Nat /\ room * rest <= x
  <2>1. room \in Nat /\ room # 0 /\ x \in Nat
    BY <1>1, <1>2
  <2>2. room * (x \div room) <= x
    BY <2>1
  <2>3. x \div room \in Nat
    BY <2>1, DivMod
  <2> QED
    BY <2>2, <2>3
<1> HIDE DEF rest
<1>4. rest <= rest * room /\ rest * room = room * rest /\ rest * room \in Nat
  BY <1>1, <1>3, ProductGrows
<1>5. rest \in Nat /\ rest < q
  BY <1>2, <1>3, <1>4
<1> QED
  BY <1>5 DEF rest, x, room, Rest

\* The digit that is written of q at k, and those after it.
DigitsFrom(g, y, q, k) ==
    IF q < RFCThreshold(k, y) THEN <<ByteOfDigit(q)>>
    ELSE <<ByteOfDigit(RFCThreshold(k, y)
                       + ((q - RFCThreshold(k, y)) % (Base - RFCThreshold(k, y))))>>
         \o g[Rest(q, RFCThreshold(k, y))][k + Base]

LEMMA DigitsDefined ==
    ASSUME NEW y \in Nat
    PROVE  \E g : g = [q \in Nat |-> [k \in Nat |-> DigitsFrom(g, y, q, k)]]
<1> DEFINE Body(g, q, k) == DigitsFrom(g, y, q, k)
           Rec(g, D) == g = [q \in D |-> [k \in Nat |-> Body(g, q, k)]]
           Below(m) == {q \in Nat : q <= m}
           Defined == {m \in Nat : \E g : Rec(g, Below(m))}
           Alike == {m \in Nat : \A a, b \in Nat : \A g, h :
                        /\ m <= a /\ m <= b /\ Rec(g, Below(a)) /\ Rec(h, Below(b))
                        => g[m] = h[m]}
<1>r. \A g, h, q : q \in Nat /\ (\A l \in Nat : l < q => g[l] = h[l])
                   => \A k \in Nat : Body(g, q, k) = Body(h, q, k)
  <2> SUFFICES ASSUME NEW g, NEW h, NEW q \in Nat, \A l \in Nat : l < q => g[l] = h[l],
                      NEW k \in Nat
               PROVE  Body(g, q, k) = Body(h, q, k)
    OBVIOUS
  <2>1. CASE q < RFCThreshold(k, y)
    BY <2>1 DEF DigitsFrom
  <2>2. CASE ~(q < RFCThreshold(k, y))
    <3>1. /\ Rest(q, RFCThreshold(k, y)) \in Nat /\ Rest(q, RFCThreshold(k, y)) < q
      BY <2>2, RestIsLess, ThresholdIsT
    <3>2. g[Rest(q, RFCThreshold(k, y))] = h[Rest(q, RFCThreshold(k, y))]
      BY <3>1
    <3> QED
      BY <2>2, <3>2 DEF DigitsFrom
  <2> QED
    BY <2>1, <2>2
<1> HIDE DEF Body
<1>0. ASSUME NEW m \in Nat, NEW g, Rec(g, Below(m))
      PROVE  \A q \in Nat : q <= m => g[q] = [k \in Nat |-> Body(g, q, k)]
  BY <1>0
<1>1. \A m \in Nat : m \in Alike
  <2>1. ASSUME NEW m \in Nat, \A l \in Nat : l < m => l \in Alike
        PROVE  m \in Alike
    <3>1. SUFFICES ASSUME NEW a \in Nat, NEW b \in Nat, NEW g, NEW h,
                          m <= a, m <= b, Rec(g, Below(a)), Rec(h, Below(b))
                   PROVE  g[m] = h[m]
      OBVIOUS
    <3>2. g[m] = [k \in Nat |-> Body(g, m, k)] /\ h[m] = [k \in Nat |-> Body(h, m, k)]
      BY <3>1
    <3>3. \A l \in Nat : l < m => g[l] = h[l]
      <4> SUFFICES ASSUME NEW l \in Nat, l < m PROVE g[l] = h[l]
        OBVIOUS
      <4>1. l <= a /\ l <= b
        BY <3>1
      <4>2. l \in Alike
        <5> HIDE DEF Alike
        <5> QED
          BY <2>1
      <4> HIDE DEF Rec
      <4> QED
        BY <3>1, <4>1, <4>2
    <3>4. \A k \in Nat : Body(g, m, k) = Body(h, m, k)
      BY <1>r, <3>3
    <3> QED
      BY <3>2, <3>4
  <2> HIDE DEF Alike
  <2> QED
    BY <2>1, FromSmaller
<1>2. \A m \in Nat : m \in Defined
  <2>1. ASSUME NEW m \in Nat, \A l \in Nat : l < m => l \in Defined
        PROVE  m \in Defined
    <3> DEFINE part(l) == CHOOSE g : Rec(g, Below(l))
               below == [l \in Nat |-> part(l)[l]]
               g == [q \in Below(m) |-> [k \in Nat |-> Body(below, q, k)]]
    <3>1. \A l \in Nat : l < m => Rec(part(l), Below(l))
      BY <2>1
    <3>2. \A l \in Nat : l < m => g[l] = below[l]
      <4> SUFFICES ASSUME NEW l \in Nat, l < m PROVE g[l] = below[l]
        OBVIOUS
      <4>1. part(l)[l] = [k \in Nat |-> Body(part(l), l, k)]
        <5> HIDE DEF part, Rec, Below
        <5>1. Rec(part(l), Below(l)) /\ l <= l
          BY <3>1
        <5> QED
          BY <1>0, <5>1
      <4>2. \A j \in Nat : j < l => part(l)[j] = below[j]
        <5> SUFFICES ASSUME NEW j \in Nat, j < l PROVE part(l)[j] = below[j]
          OBVIOUS
        <5>1. j <= l /\ j <= j /\ j < m
          OBVIOUS
        <5>2. Rec(part(l), Below(l)) /\ Rec(part(j), Below(j)) /\ j \in Alike
          <6> HIDE DEF part, Rec, Alike
          <6> QED
            BY <1>1, <3>1, <5>1
        <5>3. below[j] = part(j)[j]
          <6> HIDE DEF part
          <6> QED
            OBVIOUS
        <5> HIDE DEF part, Rec, below
        <5> QED
          BY <5>1, <5>2, <5>3
      <4>3. \A k \in Nat : Body(part(l), l, k) = Body(below, l, k)
        <5> HIDE DEF part, below
        <5> QED
          BY <1>r, <4>2
      <4>4. g[l] = [k \in Nat |-> Body(below, l, k)]
        <5> HIDE DEF below
        <5> QED
          OBVIOUS
      <4>5. below[l] = part(l)[l]
        <5> HIDE DEF part
        <5> QED
          OBVIOUS
      <4> HIDE DEF part, below, g
      <4> QED
        BY <4>1, <4>3, <4>4, <4>5
    <3> HIDE DEF part, below
    <3>3. \A q \in Below(m) : \A k \in Nat : Body(below, q, k) = Body(g, q, k)
      <4> SUFFICES ASSUME NEW q \in Below(m) PROVE \A k \in Nat : Body(below, q, k) = Body(g, q, k)
        OBVIOUS
      <4>1. \A l \in Nat : l < q => l < m
        OBVIOUS
      <4>2. \A l \in Nat : l < q => below[l] = g[l]
        <5> HIDE DEF g
        <5> QED
          BY <3>2, <4>1
      <4>3. q \in Nat
        OBVIOUS
      <4> HIDE DEF g
      <4> QED
        BY <1>r, <4>2, <4>3
    <3>4. Rec(g, Below(m))
      <4>1. [q \in Below(m) |-> [k \in Nat |-> Body(below, q, k)]]
              = [q \in Below(m) |-> [k \in Nat |-> Body(g, q, k)]]
        <5> HIDE DEF g, Below
        <5> QED
          BY <3>3
      <4> QED
        BY <4>1
    <3> QED
      BY <3>4
  <2> HIDE DEF Defined
  <2> QED
    BY <2>1, FromSmaller
<1> DEFINE part(l) == CHOOSE g : Rec(g, Below(l))
           whole == [q \in Nat |-> part(q)[q]]
<1>3. \A l \in Nat : Rec(part(l), Below(l))
  BY <1>2
<1>4. \A q \in Nat : whole[q] = [k \in Nat |-> Body(whole, q, k)]
  <2> SUFFICES ASSUME NEW q \in Nat PROVE whole[q] = [k \in Nat |-> Body(whole, q, k)]
    OBVIOUS
  <2>1. part(q)[q] = [k \in Nat |-> Body(part(q), q, k)]
    <3> HIDE DEF Rec, Below, part
    <3>1. Rec(part(q), Below(q)) /\ q <= q
      BY <1>3
    <3> QED
      BY <1>0, <3>1
  <2>2. \A l \in Nat : l < q => part(q)[l] = whole[l]
    <3> SUFFICES ASSUME NEW l \in Nat, l < q PROVE part(q)[l] = whole[l]
      OBVIOUS
    <3>1. l <= q /\ l <= l
      OBVIOUS
    <3>2. Rec(part(q), Below(q)) /\ Rec(part(l), Below(l)) /\ l \in Alike
      <4> HIDE DEF part, Rec, Alike
      <4> QED
        BY <1>1, <1>3
    <3>3. whole[l] = part(l)[l]
      <4> HIDE DEF part
      <4> QED
        OBVIOUS
    <3> HIDE DEF part, Rec, whole
    <3> QED
      BY <3>1, <3>2, <3>3
  <2>3. \A k \in Nat : Body(part(q), q, k) = Body(whole, q, k)
    <3> HIDE DEF part, whole
    <3> QED
      BY <1>r, <2>2
  <2>4. whole[q] = part(q)[q]
    <3> HIDE DEF part
    <3> QED
      OBVIOUS
  <2> HIDE DEF part, whole
  <2> QED
    BY <2>1, <2>3, <2>4
<1>5. whole = [q \in Nat |-> whole[q]]
  <2> HIDE DEF part
  <2> QED
    OBVIOUS
<1> HIDE DEF whole
<1>6. whole = [q \in Nat |-> [k \in Nat |-> Body(whole, q, k)]]
  BY <1>4, <1>5
<1> QED
  BY <1>6 DEF Body

\* Digit by digit.
LEMMA DigitsAre ==
    ASSUME NEW y \in Nat, NEW q \in Nat, NEW k \in Nat
    PROVE  /\ q < T(k, y) => RFCDigits(y)[q][k] = <<ByteOfDigit(q)>>
           /\ ~(q < T(k, y)) =>
                RFCDigits(y)[q][k] = <<ByteOfDigit(T(k, y) + ((q - T(k, y)) % (Base - T(k, y))))>>
                                     \o RFCDigits(y)[Rest(q, T(k, y))][k + Base]
<1> DEFINE Is(g) == g = [x \in Nat |-> [z \in Nat |-> DigitsFrom(g, y, x, z)]]
           Same(g) == g = [x \in Nat |-> [z \in Nat |->
                LET t == RFCThreshold(z, y)
                IN  IF x < t THEN <<ByteOfDigit(x)>>
                    ELSE <<ByteOfDigit(t + ((x - t) % (Base - t)))>>
                            \o g[(x - t) \div (Base - t)][z + Base]]]
<1>1. \A g : Same(g) <=> Is(g)
  BY DEF DigitsFrom, Rest
<1>2. RFCDigits(y) = CHOOSE g : Same(g)
  BY DEF RFCDigits
<1>3. \E g : Is(g)
  BY DigitsDefined
<1>4. Is(RFCDigits(y))
  <2> HIDE DEF Is, Same
  <2> QED
    BY <1>1, <1>2, <1>3
<1>5. RFCDigits(y)[q][k] = DigitsFrom(RFCDigits(y), y, q, k)
  <2> DEFINE g == RFCDigits(y)
  <2>1. Is(g)
    BY <1>4
  <2> HIDE DEF g
  <2>2. g[q] = [z \in Nat |-> DigitsFrom(g, y, q, z)]
    BY <2>1
  <2>3. g[q][k] = DigitsFrom(g, y, q, k)
    BY <2>2
  <2> QED
    BY <2>3 DEF g
<1> QED
  BY <1>5, ThresholdIsT DEF DigitsFrom

LEMMA DigitsType ==
    ASSUME NEW y \in Nat, NEW q \in Nat, NEW k \in Nat
    PROVE  /\ RFCDigits(y)[q][k] \in Seq(Nat) /\ Len(RFCDigits(y)[q][k]) \in Nat
           /\ 1 <= Len(RFCDigits(y)[q][k])
<1> DEFINE f == RFCDigits(y)
           Typed == {x \in Nat : \A z \in Nat : f[x][z] \in Seq(Nat) /\ 1 <= Len(f[x][z])}
<1>1. ASSUME NEW x \in Nat, \A l \in Nat : l < x => l \in Typed
      PROVE  x \in Typed
  <2> SUFFICES ASSUME NEW z \in Nat PROVE f[x][z] \in Seq(Nat) /\ 1 <= Len(f[x][z])
    OBVIOUS
  <2>0. T(z, y) \in 1 .. Base - 1 /\ Base \in Nat
    BY WeightGrows, BootstringAssumption
  <2>1. \A d \in 0 .. Base - 1 : <<ByteOfDigit(d)>> \in Seq(Nat) /\ Len(<<ByteOfDigit(d)>>) = 1
    <3> SUFFICES ASSUME NEW d \in 0 .. Base - 1
                 PROVE  <<ByteOfDigit(d)>> \in Seq(Nat) /\ Len(<<ByteOfDigit(d)>>) = 1
      OBVIOUS
    <3> DEFINE c == ByteOfDigit(d)
    <3>1. c \in Nat
      <4>1. c \in 0 .. InitialN - 1 /\ InitialN \in Nat
        BY DigitComesBack, CodePointAssumption
      <4> HIDE DEF c
      <4> QED
        BY <4>1
    <3> HIDE DEF c
    <3>2. <<c>> \in Seq(Nat) /\ Len(<<c>>) = 1
      BY <3>1
    <3> QED
      BY <3>2 DEF c
  <2>2. CASE x < T(z, y)
    <3>1. x \in 0 .. Base - 1
      BY <2>0, <2>2
    <3>2. f[x][z] = <<ByteOfDigit(x)>>
      BY <2>2, DigitsAre
    <3> HIDE DEF f
    <3> QED
      BY <2>1, <3>1, <3>2
  <2>3. CASE ~(x < T(z, y))
    <3> DEFINE t == T(z, y)
               d == t + ((x - t) % (Base - t))
               rest == Rest(x, t)
    <3>1. f[x][z] = <<ByteOfDigit(d)>> \o f[rest][z + Base]
      BY <2>3, DigitsAre
    <3>2. rest \in Nat /\ rest < x
      BY <2>3, RestIsLess
    <3>3. d \in 0 .. Base - 1
      <4> DEFINE room == Base - t
                 r == (x - t) % room
      <4> HIDE DEF t
      <4>1. t \in 1 .. Base - 1 /\ room \in Nat /\ room # 0 /\ x - t \in Int
        BY <2>0 DEF t
      <4> HIDE DEF room
      <4>2. r \in 0 .. room - 1
        BY <4>1, ModInt
      <4> HIDE DEF r
      <4>3. t + r \in 0 .. Base - 1
        BY <2>0, <4>1, <4>2 DEF room
      <4> QED
        BY <4>3 DEF r, room
    <3> HIDE DEF d, rest
    <3>4. rest \in Typed /\ z + Base \in Nat
      <4> HIDE DEF Typed
      <4> QED
        BY <1>1, <2>0, <3>2
    <3> DEFINE u == <<ByteOfDigit(d)>>
               v == f[rest][z + Base]
    <3>5. u \in Seq(Nat) /\ Len(u) = 1 /\ v \in Seq(Nat)
      <4> HIDE DEF f
      <4> QED
        BY <2>1, <3>3, <3>4
    <3> HIDE DEF f, u, v
    <3>6. u \o v \in Seq(Nat) /\ Len(u \o v) = Len(u) + Len(v) /\ Len(v) \in Nat
      BY <3>5, ConcatProperties, LenProperties
    <3> QED
      BY <3>1, <3>5, <3>6 DEF u, v
  <2> QED
    BY <2>2, <2>3
<1>2. \A x \in Nat : x \in Typed
  <2> HIDE DEF Typed
  <2> QED
    BY <1>1, FromSmaller
<1> HIDE DEF f
<1>3. f[q][k] \in Seq(Nat) /\ 1 <= Len(f[q][k])
  BY <1>2
<1> QED
  BY <1>3, LenProperties DEF f

-----------------------------------------------------------------------------
(* What is written, scalar by scalar. *)

RFCBasicString(s) ==
    Kept(s, ASCIIPlaces(s))[Len(s)]
        \o (IF Kept(s, ASCIIPlaces(s))[Len(s)] = <<>> THEN <<>> ELSE <<Hyphen>>)

RFCDeltaString(s, h) == RFCDigits(RFCBias(s, h))[RFCDelta(s, h)][Base]

LEMMA WrittenIs ==
    ASSUME NEW s, Label(s)
    PROVE  /\ RFCWritten(s)[RFCBasics(s)] = RFCBasicString(s)
           /\ \A h \in Among(s) : RFCWritten(s)[h + 1] = RFCWritten(s)[h] \o RFCDeltaString(s, h)
<1> DEFINE first == RFCBasicString(s)
           N == Len(s)
           b == RFCBasics(s)
           D(h) == RFCDeltaString(s, h)
           Rec(f, m) == f = [h \in b .. m |-> IF h = b THEN first ELSE f[h - 1] \o D(h - 1)]
           Defined == {m \in b .. N : \E f : Rec(f, m)}
           written == CHOOSE f : Rec(f, N)
<1>1. RFCWritten(s) = written
  BY DEF RFCWritten, RFCBasicString, RFCDeltaString
<1>0. N \in Nat /\ b \in 0 .. N /\ Among(s) = b .. N - 1
  BY EarlierFacts DEF Label, Among
<1> HIDE DEF first, N, b, D
<1>2. b \in Defined
  <2>1. [h \in b .. b |-> first]
            = [h \in b .. b |->
                IF h = b THEN first ELSE [r \in b .. b |-> first][h - 1] \o D(h - 1)]
    BY <1>0
  <2>2. \E f : Rec(f, b)
    BY <2>1
  <2> HIDE DEF Rec
  <2> QED
    BY <1>0, <2>2
<1>3. \A m \in b .. N : m + 1 <= N /\ m \in Defined => m + 1 \in Defined
  <2>1. SUFFICES ASSUME NEW m \in b .. N, m + 1 <= N, NEW f, Rec(f, m)
                 PROVE  \E g : Rec(g, m + 1)
    <3>1. \A m \in b .. N : m + 1 <= N => m + 1 \in b .. N
      BY <1>0
    <3> HIDE DEF Rec
    <3> QED
      BY <3>1
  <2> DEFINE g == [h \in b .. m + 1 |-> IF h = m + 1 THEN f[m] \o D(m) ELSE f[h]]
  <2>2. \A h \in b .. m + 1 : h # b => h - 1 \in b .. m /\ g[h - 1] = f[h - 1]
    BY <1>0, <2>1
  <2>3. \A h \in b .. m + 1 : g[h] = IF h = b THEN first ELSE g[h - 1] \o D(h - 1)
    <3> SUFFICES ASSUME NEW h \in b .. m + 1
                 PROVE  g[h] = IF h = b THEN first ELSE g[h - 1] \o D(h - 1)
      OBVIOUS
    <3>1. CASE h = m + 1
      <4>1. h # b /\ h - 1 = m
        BY <1>0, <2>1, <3>1
      <4> QED
        BY <2>2, <3>1, <4>1
    <3>2. CASE h # m + 1
      <4>1. h \in b .. m /\ g[h] = f[h]
        BY <1>0, <2>1, <3>2
      <4>2. f[h] = IF h = b THEN first ELSE f[h - 1] \o D(h - 1)
        BY <2>1, <4>1
      <4>3. h # b => g[h - 1] = f[h - 1]
        BY <2>2
      <4> HIDE DEF g
      <4> QED
        BY <4>1, <4>2, <4>3
    <3> QED
      BY <3>1, <3>2
  <2>4. Rec(g, m + 1)
    BY <2>3
  <2> QED
    BY <2>4
<1>4. N \in Defined
  <2> HIDE DEF Defined
  <2>0. b \in Nat
    BY <1>0
  <2>1. \A m \in b .. N : m \in Defined
    BY <1>0, <1>2, <1>3, <2>0, StepByStep
  <2> QED
    BY <1>0, <2>1
<1>5. Rec(written, N)
  BY <1>4
<1>6. \A h \in b .. N : written[h] = IF h = b THEN first ELSE written[h - 1] \o D(h - 1)
  BY <1>5
<1> HIDE DEF written
<1>7. \A h \in b .. N - 1 : written[h + 1] = written[h] \o D(h)
  <2> SUFFICES ASSUME NEW h \in b .. N - 1 PROVE written[h + 1] = written[h] \o D(h)
    OBVIOUS
  <2>1. h + 1 \in b .. N /\ h + 1 # b /\ (h + 1) - 1 = h
    BY <1>0
  <2> QED
    BY <1>6, <2>1
<1>8. written[b] = first
  BY <1>0, <1>6
<1> QED
  BY <1>0, <1>1, <1>7, <1>8 DEF first, b, D

\* Each insertion writes at least one digit.
LEMMA WrittenType ==
    ASSUME NEW s, Label(s)
    PROVE  \A h \in RFCBasics(s) .. Len(s) :
               RFCWritten(s)[h] \in Seq(Nat) /\ Len(RFCWritten(s)[h]) \in Nat
<1> DEFINE b == RFCBasics(s)
           L == Len(s)
           Typed == {h \in b .. L : RFCWritten(s)[h] \in Seq(Nat)}
<1>1. L \in Nat /\ b \in 0 .. L /\ Among(s) = b .. L - 1 /\ \A j \in 1 .. L : s[j] \in Nat
  BY EarlierFacts DEF Label, Among
<1>2. RFCBasicString(s) \in Seq(Nat)
  <2> DEFINE P == ASCIIPlaces(s)
             u == Kept(s, P)[L]
             v == IF u = <<>> THEN <<>> ELSE <<Hyphen>>
  <2>1. u \in Seq(Nat)
    <3> HIDE DEF P
    <3>1. L \in 0 .. Len(s) /\ Len(s) \in Nat /\ \A j \in 1 .. Len(s) : j \in P => s[j] \in Nat
      BY <1>1
    <3> QED
      BY <3>1, KeptType
  <2>2. v \in Seq(Nat)
    <3>1. Hyphen \in Nat
      BY CodePointAssumption
    <3> HIDE DEF u
    <3> QED
      BY <3>1
  <2> HIDE DEF u, v
  <2>3. u \o v \in Seq(Nat)
    BY <2>1, <2>2, ConcatProperties
  <2> QED
    BY <2>3 DEF u, v, RFCBasicString
<1>3. b \in Typed
  BY <1>1, <1>2, WrittenIs
<1>4. \A h \in b .. L : h + 1 <= L /\ h \in Typed => h + 1 \in Typed
  <2> SUFFICES ASSUME NEW h \in b .. L, h + 1 <= L, RFCWritten(s)[h] \in Seq(Nat)
               PROVE  h + 1 \in Typed
    OBVIOUS
  <2>1. h \in Among(s) /\ h + 1 \in b .. L
    <3>1. h \in b .. L /\ h + 1 <= L
      OBVIOUS
    <3> HIDE DEF b, L
    <3> QED
      BY <1>1, <3>1
  <2>2. RFCDeltaString(s, h) \in Seq(Nat)
    <3>1. RFCDelta(s, h) \in Nat /\ RFCBias(s, h) \in Nat /\ Base \in Nat
      BY <2>1, DeltaIsNumber, BiasIsNumber, BootstringAssumption
    <3> QED
      BY <3>1, DigitsType DEF RFCDeltaString
  <2>3. RFCWritten(s)[h] \o RFCDeltaString(s, h) \in Seq(Nat)
    BY <2>2, ConcatProperties
  <2> QED
    BY <2>1, <2>3, WrittenIs
<1> HIDE DEF Typed, b, L
<1>5. \A h \in b .. L : h \in Typed
  <2>1. b \in Nat
    BY <1>1
  <2> QED
    BY <1>1, <1>3, <1>4, <2>1, StepByStep
<1> QED
  BY <1>5, LenProperties DEF Typed, b, L

LEMMA WrittenGrows ==
    ASSUME NEW s, Label(s), NEW g \in RFCBasics(s) .. Len(s)
    PROVE  \A h \in g .. Len(s) : Len(RFCWritten(s)[g]) <= Len(RFCWritten(s)[h])
<1> DEFINE b == RFCBasics(s)
           L == Len(s)
           W(h) == RFCWritten(s)[h]
           Longer == {h \in g .. L : Len(W(g)) <= Len(W(h))}
<1>1. L \in Nat /\ b \in 0 .. L /\ g \in b .. L /\ Among(s) = b .. L - 1
  BY EarlierFacts DEF Label, Among
<1>2. \A h \in b .. L : W(h) \in Seq(Nat) /\ Len(W(h)) \in Nat
  BY WrittenType
<1>3. g \in Longer
  BY <1>1, <1>2
<1>4. \A h \in g .. L : h + 1 <= L /\ h \in Longer => h + 1 \in Longer
  <2> SUFFICES ASSUME NEW h \in g .. L, h + 1 <= L, Len(W(g)) <= Len(W(h))
               PROVE  h + 1 \in Longer
    OBVIOUS
  <2> DEFINE d == RFCDeltaString(s, h)
  <2>1. h \in Among(s) /\ h + 1 \in g .. L /\ h \in b .. L /\ h + 1 \in b .. L
    <3>1. h \in g .. L /\ h + 1 <= L
      OBVIOUS
    <3> HIDE DEF b, L
    <3> QED
      BY <1>1, <3>1
  <2>2. d \in Seq(Nat) /\ Len(d) \in Nat
    <3>1. RFCDelta(s, h) \in Nat /\ RFCBias(s, h) \in Nat /\ Base \in Nat
      BY <2>1, DeltaIsNumber, BiasIsNumber, BootstringAssumption
    <3> QED
      BY <3>1, DigitsType DEF RFCDeltaString
  <2>3. W(h + 1) = W(h) \o d
    BY <2>1, WrittenIs
  <2> HIDE DEF W, d
  <2>4. Len(W(h) \o d) = Len(W(h)) + Len(d)
    BY <1>2, <2>1, <2>2, ConcatProperties
  <2>5. Len(W(g)) <= Len(W(h + 1))
    BY <1>1, <1>2, <2>1, <2>2, <2>3, <2>4
  <2> QED
    BY <2>1, <2>5
<1> HIDE DEF Longer, b, L, W
<1>5. \A h \in g .. L : h \in Longer
  <2>1. g \in Nat
    BY <1>1
  <2> QED
    BY <1>1, <1>3, <1>4, <2>1, StepByStep
<1> QED
  BY <1>5 DEF Longer, L, W

=============================================================================
