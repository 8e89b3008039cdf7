--------------------------- MODULE PunycodeDecode ---------------------------
(***************************************************************************)
(* `Punycode.decode` (Punycode.swift): one call, loop iteration by loop    *)
(* iteration, on the part of a label that follows "xn--".                  *)
(*                                                                         *)
(* The output is UTF-8 appended to the bytes of the labels before this one *)
(* (a TinyBufferSubsequence), and new scalars are inserted in the middle   *)
(* of it.  Where, `scalarsIndexToUTF8Index` says: an array shared by the   *)
(* labels of a domain name whose first `count` elements hold the offset of *)
(* the last byte of each scalar decoded so far.  All stores to it are      *)
(* unchecked.                                                              *)
(***************************************************************************)
EXTENDS RFC3492

CONSTANTS
    Labels,         \* what may follow "xn--", as sequences of scalars
    Earlier,        \* what the labels before this one may have left
    Stale,          \* what their decoding may have left in the index array
    Capacity        \* elements of the array: the longest label's bytes

ASSUME LabelsAssumption ==
    /\ Labels \subseteq Seq(Nat)
    /\ \A s \in Labels : \A j \in 1 .. Len(s) : IsScalar(s[j])
ASSUME EarlierAssumption ==
    /\ Earlier \subseteq Seq(Nat \X (1 .. 4))
    /\ \A b \in Earlier : \A j \in 1 .. Len(b) : IsScalar(b[j][1])
ASSUME StaleAssumption == Stale \subseteq Nat
\* maxLabelLength counts the label's bytes, "xn--" included.
ASSUME CapacityAssumption ==
    Capacity \in Nat /\ \A s \in Labels : Len(s) + 4 <= Capacity

VARIABLES
    pc,             \* where the call is
    input,          \* the label after "xn--"
    pos,            \* scalars of it consumed
    n, i, bias,     \* the decoder's state
    oldi, w, k,     \* the inner loop's
    delta, kAdapt,  \* those of adapt
    buffer,         \* outputBuffer.base: bytes <<scalar, place in it>>
    startIndex,     \* outputBuffer.startIndex
    index,          \* scalarsIndexToUTF8IndexForReuse
    count           \* unicodeScalarsIndexToUTF8IndexCount

vars == <<pc, input, pos, n, i, bias, oldi, w, k, delta, kAdapt,
          buffer, startIndex, index, count>>

Final == {"decoded", "failed", "undefined"}
PCs == {"start", "next", "digit", "adapt"} \cup Final

\* Where scalar j starts, from the start of the output, as an index array says.
StartIn(idx, j) == IF j = 0 THEN 0 ELSE idx[j - 1] + 1
StartOf(j) == StartIn(index, j)

\* outputBuffer.count
OutputCount == Len(buffer) - startIndex

Init ==
    /\ pc = "start"
    /\ input \in Labels /\ pos = 0
    /\ n = InitialN /\ i = 0 /\ bias = InitialBias
    /\ oldi = 0 /\ w = 1 /\ k = Base
    /\ delta = 0 /\ kAdapt = 0
    /\ buffer \in Earlier /\ startIndex = Len(buffer)
    /\ \E x \in Stale : index = [j \in 0 .. Capacity - 1 |-> x]
    /\ count = 0

-----------------------------------------------------------------------------
(* Before the loop: the basic code points. *)

Delimiters == {d \in 1 .. Len(input) : input[d] = Hyphen}
LastDelimiter == CHOOSE d \in Delimiters : \A e \in Delimiters : e <= d

\* The bytes of basic, all ASCII, one byte each.
BasicBytes(basic) == [j \in 1 .. Len(basic) |-> <<basic[j], 1>>]

StartLoop(basic, consumed) ==
    /\ pos' = consumed
    /\ buffer' = buffer \o BasicBytes(basic)
    /\ index' = [j \in 0 .. Capacity - 1 |-> IF j < Len(basic) THEN j ELSE index[j]]
    /\ count' = Len(basic)
    /\ pc' = "next"

\* A delimiter in first place is consumed too, with no code points before it.
SplitAtDelimiter ==
    /\ pc = "start" /\ Delimiters # {}
    /\ LET basic == SubSeq(input, 1, LastDelimiter - 1)
       IN  /\ \A j \in 1 .. Len(basic) : IsASCII(basic[j])
           /\ StartLoop(basic, LastDelimiter)
    /\ UNCHANGED <<input, n, i, bias, oldi, w, k, delta, kAdapt, startIndex>>

NoDelimiter ==
    /\ pc = "start" /\ Delimiters = {}
    /\ StartLoop(<<>>, 0)
    /\ UNCHANGED <<input, n, i, bias, oldi, w, k, delta, kAdapt, startIndex>>

\* Mutant: what was decoded before the failure is left behind.
FailLeavingOutput == pc' = "failed" /\ UNCHANGED buffer

\* outputBuffer.removeAll empties the base, the labels before this one too.
Fail == pc' = "failed" /\ buffer' = <<>>

FailBasic ==
    /\ pc = "start" /\ Delimiters # {}
    /\ \E j \in 1 .. LastDelimiter - 1 : ~IsASCII(input[j])
    /\ Fail
    /\ UNCHANGED <<input, pos, n, i, bias, oldi, w, k, delta, kAdapt,
                   startIndex, index, count>>

-----------------------------------------------------------------------------
(* One scalar: its variable-length integer, digit by digit. *)

NextScalar ==
    /\ pc = "next" /\ pos # Len(input)
    /\ oldi' = i /\ w' = 1 /\ k' = Base
    /\ pc' = "digit"
    /\ UNCHANGED <<input, pos, n, i, bias, delta, kAdapt,
                   buffer, startIndex, index, count>>

AtDigit == pos < Len(input) /\ IsDigit(input[pos + 1])

ReadDigit ==
    /\ pc = "digit" /\ AtDigit
    /\ LET digit == DigitOf(input[pos + 1])
       IN  /\ i' = WAdd(i, WMul(digit, w))
           /\ pos' = pos + 1
           /\ \/ /\ digit < T(k, bias)
                 /\ delta' = Spread((i' - oldi) % WordSize, count + 1, oldi = 0)
                 /\ kAdapt' = 0
                 /\ pc' = "adapt"
                 /\ UNCHANGED <<w, k>>
              \/ /\ digit >= T(k, bias)
                 /\ w' = WMul(w, Base - T(k, bias))
                 /\ k' = k + Base
                 /\ UNCHANGED <<pc, delta, kAdapt>>
    /\ UNCHANGED <<input, n, bias, oldi, buffer, startIndex, index, count>>

\* Mutant: the input's end in the middle of an integer is not seen.
FailDigitPresent ==
    /\ pc = "digit" /\ pos < Len(input) /\ ~IsDigit(input[pos + 1])
    /\ Fail
    /\ UNCHANGED <<input, pos, n, i, bias, oldi, w, k, delta, kAdapt,
                   startIndex, index, count>>

FailDigit ==
    /\ pc = "digit" /\ ~AtDigit
    /\ Fail
    /\ UNCHANGED <<input, pos, n, i, bias, oldi, w, k, delta, kAdapt,
                   startIndex, index, count>>

-----------------------------------------------------------------------------
(* One scalar: the new bias, and the scalar put in its place. *)

AdaptLoop ==
    /\ pc = "adapt" /\ delta > AdaptLimit
    /\ delta' = delta \div (Base - TMin)
    /\ kAdapt' = kAdapt + Base
    /\ UNCHANGED <<pc, input, pos, n, i, bias, oldi, w, k,
                   buffer, startIndex, index, count>>

AdaptDone ==
    /\ pc = "adapt" /\ delta <= AdaptLimit
    /\ bias' = AdaptedBias(delta, kAdapt)

\* Mutant: code points are counted from the start each time.
NewNFromInitial == WAdd(InitialN, i \div (count + 1))

NewN == WAdd(n, i \div (count + 1))

\* Mutant: reduced by one too many.
NewIOffByOne == i % (count + 2)

NewI == i % (count + 1)

\* Mutant: the offset of the last byte, counted before the scalar is appended.
AppendScalarBefore(c) ==
    /\ NewI = count
    /\ buffer' = buffer \o UTF8(c)
    /\ index' = [index EXCEPT ![count] = OutputCount - 1]

AppendScalar(c) ==
    /\ NewI = count
    /\ buffer' = buffer \o UTF8(c)
    /\ index' = [index EXCEPT ![count] = OutputCount + Width(c) - 1]

\* Mutant: the elements moved up are not corrected.
InsertScalarUncorrected(c) ==
    /\ NewI < count
    /\ buffer' = Splice(buffer, startIndex + StartOf(NewI), UTF8(c))
    /\ index' = [j \in 0 .. Capacity - 1 |->
                    IF j < NewI THEN index[j]
                    ELSE IF j = NewI THEN StartOf(NewI) + Width(c) - 1
                    ELSE index[j - 1]]

\* Mutant: offsets of the label taken for offsets of the whole buffer.
InsertScalarAtBase(c) ==
    /\ NewI < count
    /\ buffer' = Splice(buffer, StartOf(NewI), UTF8(c))
    /\ index' = [j \in 0 .. Capacity - 1 |->
                    IF j < NewI THEN index[j]
                    ELSE IF j = NewI THEN StartOf(NewI) + Width(c) - 1
                    ELSE IF j <= count THEN index[j - 1] + Width(c)
                    ELSE index[j - 1]]

\* The last element of the array is dropped, the new scalar's put in and
\* those after it moved up and then corrected.
InsertScalar(c) ==
    /\ NewI < count
    /\ buffer' = Splice(buffer, startIndex + StartOf(NewI), UTF8(c))
    /\ index' = [j \in 0 .. Capacity - 1 |->
                    IF j < NewI THEN index[j]
                    ELSE IF j = NewI THEN StartOf(NewI) + Width(c) - 1
                    ELSE IF j <= count THEN index[j - 1] + Width(c)
                    ELSE index[j - 1]]

\* Mutant: ASCII is not looked for.
PutAnyScalar ==
    /\ AdaptDone
    /\ IsScalar(NewN)
    /\ AppendScalar(NewN) \/ InsertScalar(NewN)
    /\ n' = NewN /\ i' = NewI + 1
    /\ count' = count + 1
    /\ pc' = "next"
    /\ UNCHANGED <<input, pos, oldi, w, k, delta, kAdapt, startIndex>>

PutScalar ==
    /\ AdaptDone
    /\ IsScalar(NewN) /\ ~IsASCII(NewN)
    /\ AppendScalar(NewN) \/ InsertScalar(NewN)
    /\ n' = NewN /\ i' = NewI + 1
    /\ count' = count + 1
    /\ pc' = "next"
    /\ UNCHANGED <<input, pos, oldi, w, k, delta, kAdapt, startIndex>>

\* The one failure that leaves the output as it is.
FailASCII ==
    /\ AdaptDone /\ IsASCII(NewN)
    /\ n' = NewN /\ i' = NewI
    /\ pc' = "failed"
    /\ UNCHANGED <<input, pos, oldi, w, k, delta, kAdapt,
                   buffer, startIndex, index, count>>

\* Unicode.Scalar(n).unsafelyUnwrapped of nil: anything may follow, and
\* nothing is said of what does.
UnwrapNil ==
    /\ AdaptDone /\ ~IsASCII(NewN) /\ ~IsScalar(NewN)
    /\ n' = NewN /\ i' = NewI
    /\ pc' = "undefined"
    /\ UNCHANGED <<input, pos, oldi, w, k, delta, kAdapt,
                   buffer, startIndex, index, count>>

Finish ==
    /\ pc = "next" /\ pos = Len(input)
    /\ pc' = "decoded"
    /\ UNCHANGED <<input, pos, n, i, bias, oldi, w, k, delta, kAdapt,
                   buffer, startIndex, index, count>>

Next ==
    \/ SplitAtDelimiter
    \/ NoDelimiter
    \/ FailBasic
    \/ NextScalar
    \/ ReadDigit
    \/ FailDigit
    \/ AdaptLoop
    \/ PutScalar
    \/ FailASCII
    \/ UnwrapNil
    \/ Finish

Spec == Init /\ [][Next]_vars

\* The call runs: decode is straight-line code with loops, nothing waits.
FairSpec == Spec /\ WF_vars(Next)

-----------------------------------------------------------------------------

TypeOK ==
    /\ pc \in PCs
    /\ input \in Seq(Scalar) /\ pos \in 0 .. Len(input)
    /\ n \in Nat /\ i \in Nat /\ bias \in Nat
    /\ oldi \in Nat /\ w \in Nat /\ k \in Nat
    /\ delta \in Nat /\ kAdapt \in Nat
    /\ buffer \in Seq(Scalar \X (1 .. 4))
    /\ startIndex \in Nat
    /\ index \in [0 .. Capacity - 1 -> Nat]
    /\ count \in Nat

\* The bytes of buf after the first `start` are the UTF-8 of cnt whole
\* scalars, and element j of idx is the offset of the last byte of scalar j.
LayoutOf(buf, start, idx, cnt) ==
    /\ start <= Len(buf)
    /\ Len(buf) - start = StartIn(idx, cnt)
    /\ \A j \in 0 .. cnt - 1 :
        /\ idx[j] \in StartIn(idx, j) .. Len(buf) - start - 1
        /\ \A l \in 0 .. j - 1 : idx[l] < idx[j]
        /\ LET c == buf[start + idx[j] + 1][1]
           IN  /\ c \in Scalar
               /\ idx[j] = StartIn(idx, j) + Width(c) - 1
               /\ \A p \in 1 .. Width(c) :
                    buf[start + StartIn(idx, j) + p] = <<c, p>>

Layout == LayoutOf(buffer, startIndex, index, count)

\* Insertions always find a scalar boundary and keep the whole array right,
\* although only differences are stored: no scalar is ever torn.
IndexArrayCorrect == pc \in {"next", "digit", "adapt", "decoded"} => Layout

\* Every unchecked store falls inside the array: each scalar put in has
\* consumed a character of the label, and the array has room for all.
StoresInBounds ==
    /\ count <= Capacity
    /\ pc = "adapt" => count < Capacity /\ NewI <= count

\* The bytes of earlier labels survive every step but a failing one.
EarlierLabelsKept ==
    [][pc' # "failed" =>
        SubSeq(buffer', 1, startIndex) = SubSeq(buffer, 1, startIndex)]_vars

\* The scalars such a layout holds, and what was decoded so far.
DecodedIn(buf, start, idx, cnt) == [j \in 1 .. cnt |-> buf[start + idx[j - 1] + 1][1]]
Decoded == DecodedIn(buffer, startIndex, index, count)

\* A failing call leaves either nothing at all or exactly the earlier labels:
\* the check for ASCII, which fails without cleaning up, can only fail for
\* the first scalar of a label without basic code points.
NothingHalfDecoded ==
    pc = "failed" => buffer = <<>> \/ (count = 0 /\ Len(buffer) = startIndex)

\* The call agrees with RFC 3492: on what it decodes, on what it rejects,
\* and in never wrapping its way from a rejected label to a decoded one, as
\* long as the RFC's own decoder neither overflows nor leaves the scalars.
\* A hyphen in first place that is the only one counts as a delimiter, though
\* the RFC has such a label rejected: the label is decoded without it.
DecodesAsRFC ==
    pc \in Final
    => LET reference ==
            IF Delimiters = {1} THEN RFCDecodeFrom(input, 1) ELSE RFCDecode(input)
       IN  /\ reference.kind = "decoded" => pc = "decoded" /\ Decoded = reference.scalars
           /\ reference.kind = "bad" => pc = "failed"

\* At the level of scalars a call copies the basic code points before some
\* point of its input, inserts one scalar that is not ASCII at a time, and
\* ends or fails.  What a failed call leaves is not looked at.
Scalars == INSTANCE ScalarInsertion
    WITH scalars <- IF pc \in {"start", "failed"} THEN <<>> ELSE Decoded,
         phase <- CASE pc = "start" -> "start"
                    [] pc \in {"next", "digit", "adapt"} -> "insert"
                    [] pc \in Final -> pc

InsertsScalars == Scalars!Spec

\* The call returns or has run into undefined behaviour.
Termination == <>(pc \in Final)

\* "This function uses unchecked/unsafe handling of some values. These are
\* all safe." (Punycode.swift:165)
UnwrapIsSafe == pc # "undefined"

=============================================================================
