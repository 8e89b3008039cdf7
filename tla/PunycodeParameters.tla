------------------------- MODULE PunycodeParameters -------------------------
(***************************************************************************)
(* The parameters of Punycode (`Punycode.Constants`), the code points that *)
(* the two directions tell apart, and the helpers they share.  The values  *)
(* in the code are the ones of RFC 3492, section 5; small ones keep model  *)
(* checking small and make the word wrap within reach.                     *)
(***************************************************************************)
EXTENDS Integers, Sequences

CONSTANTS
    Base, TMin, TMax, Skew, Damp, InitialBias,
    InitialN,               \* the first code point that is not ASCII
    Hyphen,                 \* the delimiter
    LetterA, LetterZ,       \* digits 0 .. 25
    Digit0, Digit9,         \* digits 26 .. 35
    ThreeBytesFrom,         \* 0x800: UTF-8 takes three bytes from here
    FourBytesFrom,          \* 0x10000: and four from here
    MaxScalar,              \* 0x10FFFF
    Surrogates,             \* code points that are no Unicode scalar
    WordSize                \* 2^32

\* With TMin = Base - 1 the loop of adapt would not come to an end.
ASSUME BootstringAssumption ==
    /\ {Base, TMin, TMax, Skew, Damp, InitialBias} \subseteq Nat
    /\ 1 <= TMin /\ TMin <= TMax /\ TMax < Base /\ TMin + 1 < Base
    /\ Skew >= 1 /\ Damp >= 2
    /\ InitialBias % Base <= Base - TMin

ASSUME CodePointAssumption ==
    /\ {InitialN, Hyphen, LetterA, LetterZ, Digit0, Digit9} \subseteq Nat
    /\ {Hyphen, LetterA, LetterZ, Digit0, Digit9} \subseteq 0 .. InitialN - 1
    /\ LetterA <= LetterZ /\ Digit0 <= Digit9
    /\ (LetterA .. LetterZ) \cap (Digit0 .. Digit9) = {}
    /\ Hyphen \notin (LetterA .. LetterZ) \cup (Digit0 .. Digit9)
    /\ Base = (LetterZ - LetterA + 1) + (Digit9 - Digit0 + 1)
    /\ {ThreeBytesFrom, FourBytesFrom, MaxScalar} \subseteq Nat
    /\ InitialN <= MaxScalar
    /\ Surrogates \subseteq InitialN .. MaxScalar

ASSUME WordAssumption == WordSize \in Nat /\ WordSize > 2 * MaxScalar

Word == 0 .. WordSize - 1

\* &+ and &* on UInt32
WAdd(a, b) == (a + b) % WordSize
WMul(a, b) == (a * b) % WordSize

IsScalar(c) == c \in 0 .. MaxScalar /\ c \notin Surrogates
Scalar == {c \in 0 .. MaxScalar : IsScalar(c)}

IsASCII(c) == c < InitialN

\* Unicode.Scalar.utf8 (external): how many bytes, and which.  A byte is
\* named by the scalar it is part of and its place in it.
Width(c) == IF c < InitialN THEN 1
            ELSE IF c < ThreeBytesFrom THEN 2
            ELSE IF c < FourBytesFrom THEN 3 ELSE 4
UTF8(c) == [k \in 1 .. Width(c) |-> <<c, k>>]

\* mapUnicodeScalarToDigit: a lowercase letter or a digit has a value.
Letters == LetterZ - LetterA + 1
IsDigit(c) == c \in LetterA .. LetterZ \/ c \in Digit0 .. Digit9
DigitOf(c) == IF c \in LetterA .. LetterZ THEN c - LetterA ELSE c - Digit0 + Letters

\* uncheckedMapDigitToUTF8Byte: the way back.
ByteOfDigit(d) == IF d < Letters THEN LetterA + d ELSE Digit0 + d - Letters

\* The threshold of the digit at k.
T(k, bias) == IF k <= bias + TMin THEN TMin
              ELSE IF k >= bias + TMax THEN TMax
              ELSE k - bias

-----------------------------------------------------------------------------
(* adapt: what it does before its loop, where the loop ends, after it.     *)

\* Mutant: the first delta is damped like the others.
SpreadUndamped(d, codePointCount, isFirstTime) ==
    d \div 2 + (d \div 2) \div codePointCount

Spread(d, codePointCount, isFirstTime) ==
    LET damped == IF isFirstTime THEN d \div Damp ELSE d \div 2
    IN  damped + damped \div codePointCount

AdaptLimit == ((Base - TMin) * TMax) \div 2

AdaptedBias(d, kAdapted) == kAdapted + ((Base - TMin + 1) * d) \div (d + Skew)

=============================================================================
