--------------------------- MODULE PunycodeEncode ---------------------------
(***************************************************************************)
(* `Punycode.encode` (Punycode.swift): one call, loop iteration by loop    *)
(* iteration, on one label that is not all ASCII.                          *)
(*                                                                         *)
(* The ASCII of the label is copied, then pass follows pass over the       *)
(* scalars: each takes the lowest value not yet handled and writes, for    *)
(* every scalar of that value, how far it is from the one before.  All     *)
(* bytes go to a buffer kept between labels, by the append that does not   *)
(* make room; arithmetic is that of a word and is not checked.             *)
(***************************************************************************)
EXTENDS RFC3492Encoding, TinyBuffers, FiniteSetsExt

CONSTANTS
    Labels,         \* labels, as sequences of scalars
    Reused          \* what outputBufferForReuse may be when encode is called

ASSUME LabelsAssumption ==
    /\ Labels \subseteq Seq(Nat)
    /\ \A s \in Labels : \A j \in 1 .. Len(s) : IsScalar(s[j])
ASSUME ReusedAssumption == Reused \subseteq Buffer
ASSUME EncodedBytesAssumption == 0 .. InitialN - 1 \subseteq Byte

VARIABLES
    pc,             \* where the call is
    label,          \* the scalars of decodedUnicodeScalars
    pos,            \* scalars of it looked at by the loop at hand
    n, delta, bias, \* the encoder's state
    basics,         \* b, the number of ASCII code points
    handled,        \* h, and loopIdx, which goes with it
    q, k,           \* the integer being written and its digit's place
    spread, kAdapt, \* the delta and k of adapt
    output          \* outputBufferForReuse

vars == <<pc, label, pos, n, delta, bias, basics, handled, q, k, spread, kAdapt, output>>

Final == {"done", "undefined"}
PCs == {"start", "basic", "pass", "scan", "digits", "adapt"} \cup Final

Init ==
    /\ pc = "start"
    /\ label \in Labels /\ pos = 0
    /\ n = InitialN /\ delta = 0 /\ bias = InitialBias
    /\ basics = 0 /\ handled = 0
    /\ q = 0 /\ k = Base
    /\ spread = 0 /\ kAdapt = 0
    /\ output \in Reused

Scanning == pos < Len(label)
CodePoint == label[pos + 1]

\* append(unchecked:).  Past the tuple nothing is said of what follows.
Put(byte, next) ==
    IF WritesPastTuple(output)
    THEN pc' = "undefined" /\ UNCHANGED output
    ELSE pc' = next /\ output' = AppendUnchecked(output, byte)

-----------------------------------------------------------------------------
(* The ASCII code points and the delimiter. *)

Start ==
    /\ pc = "start" /\ pc' = "basic"
    /\ output' = RemoveAll(output, TRUE)
    /\ UNCHANGED <<label, pos, n, delta, bias, basics, handled, q, k, spread, kAdapt>>

CopyASCII ==
    /\ pc = "basic" /\ Scanning /\ IsASCII(CodePoint)
    /\ Put(CodePoint, "basic")
    /\ pos' = pos + 1
    /\ UNCHANGED <<label, n, delta, bias, basics, handled, q, k, spread, kAdapt>>

SkipNonASCII ==
    /\ pc = "basic" /\ Scanning /\ ~IsASCII(CodePoint)
    /\ pos' = pos + 1
    /\ UNCHANGED <<pc, label, n, delta, bias, basics, handled, q, k, spread, kAdapt, output>>

EndASCII ==
    /\ pc = "basic" /\ ~Scanning
    /\ basics' = Count(output) /\ handled' = Count(output)
    /\ IF Count(output) = 0 THEN pc' = "pass" /\ UNCHANGED output ELSE Put(Hyphen, "pass")
    /\ UNCHANGED <<label, pos, n, delta, bias, q, k, spread, kAdapt>>

-----------------------------------------------------------------------------
(* One pass: the scalars of the lowest value that is left. *)

\* Mutant: values already handled are not left out.
AnyNonASCII == {j \in 1 .. Len(label) : ~IsASCII(label[j])}

Unhandled == {j \in 1 .. Len(label) : ~IsASCII(label[j]) /\ label[j] >= n}

\* UInt32.max when there is none.
NextCodePoint ==
    IF Unhandled = {} THEN WordSize - 1 ELSE Min({label[j] : j \in Unhandled})

\* Mutant: the distance is not multiplied by the places there are.
BeginPassOncePerValue ==
    /\ pc = "pass" /\ handled < Len(label)
    /\ delta' = WAdd(delta, (NextCodePoint - n) % WordSize)
    /\ n' = NextCodePoint
    /\ pos' = 0 /\ pc' = "scan"
    /\ UNCHANGED <<label, bias, basics, handled, q, k, spread, kAdapt, output>>

\* Mutant: the sum is taken in a wider integer.
BeginPassWide ==
    /\ pc = "pass" /\ handled < Len(label)
    /\ delta' = delta + (NextCodePoint - n) * (handled + 1)
    /\ n' = NextCodePoint
    /\ pos' = 0 /\ pc' = "scan"
    /\ UNCHANGED <<label, bias, basics, handled, q, k, spread, kAdapt, output>>

BeginPass ==
    /\ pc = "pass" /\ handled < Len(label)
    /\ delta' = WAdd(delta, WMul((NextCodePoint - n) % WordSize, handled + 1))
    /\ n' = NextCodePoint
    /\ pos' = 0 /\ pc' = "scan"
    /\ UNCHANGED <<label, bias, basics, handled, q, k, spread, kAdapt, output>>

\* delta, one more for every scalar that is there already.
PassedOver == IF CodePoint < n \/ IsASCII(CodePoint) THEN WAdd(delta, 1) ELSE delta

Pass ==
    /\ pc = "scan" /\ Scanning /\ CodePoint # n
    /\ delta' = PassedOver
    /\ pos' = pos + 1
    /\ UNCHANGED <<pc, label, n, bias, basics, handled, q, k, spread, kAdapt, output>>

Meet ==
    /\ pc = "scan" /\ Scanning /\ CodePoint = n
    /\ delta' = PassedOver
    /\ q' = delta' /\ k' = Base
    /\ pc' = "digits"
    /\ UNCHANGED <<label, pos, n, bias, basics, handled, spread, kAdapt, output>>

\* Mutant: the next value is stepped over.
EndPassTwice ==
    /\ pc = "scan" /\ ~Scanning
    /\ delta' = WAdd(delta, 1)
    /\ n' = WAdd(n, 2)
    /\ pc' = "pass"
    /\ UNCHANGED <<label, pos, bias, basics, handled, q, k, spread, kAdapt, output>>

EndPass ==
    /\ pc = "scan" /\ ~Scanning
    /\ delta' = WAdd(delta, 1)
    /\ n' = WAdd(n, 1)
    /\ pc' = "pass"
    /\ UNCHANGED <<label, pos, bias, basics, handled, q, k, spread, kAdapt, output>>

-----------------------------------------------------------------------------
(* One scalar: delta as a variable-length integer, and the new bias. *)

\* Mutant: the quotient is taken without the threshold.
QuotientOfAll == q \div (Base - T(k, bias))

Digit == T(k, bias) + ((q - T(k, bias)) % (Base - T(k, bias)))
Quotient == (q - T(k, bias)) \div (Base - T(k, bias))

WriteDigit ==
    /\ pc = "digits" /\ q >= T(k, bias)
    /\ Put(ByteOfDigit(Digit), "digits")
    /\ q' = Quotient
    /\ k' = k + Base
    /\ UNCHANGED <<label, pos, n, delta, bias, basics, handled, spread, kAdapt>>

WriteLastDigit ==
    /\ pc = "digits" /\ q < T(k, bias)
    /\ Put(ByteOfDigit(q), "adapt")
    /\ spread' = Spread(delta, handled + 1, handled = basics)
    /\ kAdapt' = 0
    /\ UNCHANGED <<label, pos, n, delta, bias, basics, handled, q, k>>

AdaptLoop ==
    /\ pc = "adapt" /\ spread > AdaptLimit
    /\ spread' = spread \div (Base - TMin)
    /\ kAdapt' = kAdapt + Base
    /\ UNCHANGED <<pc, label, pos, n, delta, bias, basics, handled, q, k, output>>

Adapted ==
    /\ pc = "adapt" /\ spread <= AdaptLimit
    /\ bias' = AdaptedBias(spread, kAdapt)
    /\ delta' = 0
    /\ handled' = handled + 1
    /\ pos' = pos + 1
    /\ pc' = "scan"
    /\ UNCHANGED <<label, n, basics, q, k, spread, kAdapt, output>>

\* Mutant: off by one.
ReturnPastTheEnd ==
    /\ pc = "pass" /\ handled > Len(label)
    /\ pc' = "done"
    /\ UNCHANGED <<label, pos, n, delta, bias, basics, handled, q, k, spread, kAdapt, output>>

Return ==
    /\ pc = "pass" /\ handled >= Len(label)
    /\ pc' = "done"
    /\ UNCHANGED <<label, pos, n, delta, bias, basics, handled, q, k, spread, kAdapt, output>>

Next ==
    \/ Start
    \/ CopyASCII
    \/ SkipNonASCII
    \/ EndASCII
    \/ BeginPass
    \/ Pass
    \/ Meet
    \/ EndPass
    \/ WriteDigit
    \/ WriteLastDigit
    \/ AdaptLoop
    \/ Adapted
    \/ Return

Spec == Init /\ [][Next]_vars

\* The call runs: encode is straight-line code with loops, nothing waits.
FairSpec == Spec /\ WF_vars(Next)

-----------------------------------------------------------------------------

TypeOK ==
    /\ pc \in PCs
    /\ label \in Labels /\ pos \in 0 .. Len(label)
    /\ n \in Word /\ delta \in Word /\ bias \in Nat
    /\ basics \in Nat /\ handled \in Nat
    /\ q \in Nat /\ k \in Nat /\ spread \in Nat /\ kAdapt \in Nat
    /\ output \in Buffer

\* A pass that is begun has a scalar to find, so that UInt32.max never takes
\* its place: the count of scalars handled is the count of those below n.
PassFindsScalar == pc = "pass" /\ handled < Len(label) => Unhandled # {}

\* How long a label may be for the claim that "overflows are not possible
\* for what matches the description of Swift's `Unicode.Scalar` type"
\* (Punycode.swift:52-53).  With the real parameters, 3854 scalars.
ShortEnough == (MaxScalar - InitialN + 1) * (Len(label) + 1) < WordSize

\* In such a label delta is computed without a wrap: what is added to it
\* next still fits the word.
DeltaNeverWraps ==
    /\ ShortEnough
    => /\ pc = "pass" /\ handled < Len(label) =>
            delta + (NextCodePoint - n) * (handled + 1) < WordSize
       /\ pc = "scan" => delta + 1 < WordSize

HandledScalars ==
    Kept(label, {j \in 1 .. Len(label) :
            IsASCII(label[j]) \/ label[j] < n \/ (label[j] = n /\ j <= pos)})[Len(label)]

\* Between two integers the bytes written so far decode to the scalars
\* handled so far, in their order; at the end, to the label.
PrefixDecodes ==
    pc \in {"scan", "done"} /\ ShortEnough /\ CountInBounds(output)
    => RFCDecode(Contents(output))
         = RFCOutcome("decoded", IF pc = "done" THEN label ELSE HandledScalars)

\* Bytes fit that are on the heap or no more than there are inline.
OutputFits(bytes) == ~IsInline(output) \/ Len(bytes) <= InlineCapacity

\* The call writes what RFC 3492 has it write: wherever it fits, the bytes
\* of the reference, which numbers the decoder's states instead of counting.
EncodesAsRFC ==
    pc \in Final /\ ShortEnough /\ OutputFits(RFCEncode(label))
    => pc = "done" /\ Contents(output) = RFCEncode(label)

\* The call returns or has run into undefined behaviour.
Termination == <>(pc \in Final)

=============================================================================
