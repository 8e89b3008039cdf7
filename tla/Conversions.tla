---------------------------- MODULE Conversions ----------------------------
(***************************************************************************)
(* `IDNA._toASCII` and `IDNA._toUnicode` (IDNA_Implementation.swift): one  *)
(* call of either, on one domain name.  ASCII domain names are done with   *)
(* after a look at their bytes.  The others go through MainProcessing,     *)
(* whose steps are steps of this module, and ToASCII then goes over the    *)
(* labels of what came out, encodes those that are not ASCII and measures  *)
(* all of them.                                                            *)
(*                                                                         *)
(* What Punycode.encode writes for a label is PunycodeEncode's matter and  *)
(* the constant Encode here; that it writes to a buffer without making     *)
(* room is part of the model.                                              *)
(***************************************************************************)
EXTENDS MainProcessing, ScalarWindow

CONSTANTS
    Calls,              \* of "toASCII" and "toUnicode"
    Encode(_),          \* external to this module: Punycode of scalars
    WideSeparators,     \* label separators of three bytes
    LabelLimit,         \* 63
    NameLimit           \* 254

ASSUME CallsAssumption == Calls \subseteq {"toASCII", "toUnicode"}
\* A label is long from 64 bytes on; a name at 256 at the latest.
ASSUME LimitAssumption == LabelLimit = 63 /\ NameLimit \in 1 .. 256
ASSUME MarkerAssumption ==
    /\ {Hyphen, LetterX, LetterN} \subseteq Byte
    /\ \A letter \in {Hyphen, LetterX, LetterN} : letter < ASCIILimit
ASSUME WideSeparatorsAssumption == Continuation \notin WideSeparators

VARIABLES
    call,               \* which of the two it is
    stage,              \* where it is, outside of mainProcessing
    convertedBytes,     \* the output of ToASCII
    encoded,            \* outputBufferForReuse
    window,             \* decodedUnicodeScalars
    labelStart,         \* startIndex, where the label at hand starts
    lengthErrors,       \* like errors, of verifyDNSLength
    result

conversionVars ==
    <<call, stage, convertedBytes, encoded, window, labelStart, lengthErrors, result>>
allVars == <<vars, conversionVars>>

NotMade == [rep |-> "none"]         \* LazyTinyBuffer without its buffer
NoResult == [kind |-> "none", bytes |-> <<>>]

ConversionInit ==
    /\ Init
    /\ call \in Calls /\ stage = "check"
    /\ convertedBytes = EmptyInline /\ encoded = NotMade
    /\ window = EmptyWindow /\ labelStart = 0
    /\ lengthErrors = {}
    /\ result = NoResult

Return(kind, bytes) == stage' = "end" /\ result' = [kind |-> kind, bytes |-> bytes]

-----------------------------------------------------------------------------
(* performByteCheck and the shortcuts it opens. *)

IsUppercase(b) == b \in 65 .. 90
ASSUME LettersAssumption == 90 + 32 < ASCIILimit
Lowercased(b) == IF IsUppercase(b) THEN b + 32 ELSE b

\* The sixth bit of the bytes, and-ed onto what the accumulator starts with.
SixthBit(b) == (b \div 32) % 2
AccumulatorStart == 0
SurelyLowercase(s) == AccumulatorStart = 1 /\ \A j \in DOMAIN s : SixthBit(s[j]) = 1

CheckBytes ==
    /\ stage = "check"
    /\ stage' = IF ~AllASCII(domain) THEN "process"
                ELSE IF SurelyLowercase(domain) THEN "keep" ELSE "search"
    /\ UNCHANGED <<vars, call, convertedBytes, encoded, window, labelStart, lengthErrors, result>>

\* Mutant: the search starts one byte late.
SearchBehindFirst ==
    /\ stage = "search"
    /\ stage' =
            IF \E j \in DOMAIN domain : j > 1 /\ IsUppercase(domain[j]) THEN "lower" ELSE "keep"
    /\ UNCHANGED <<vars, call, convertedBytes, encoded, window, labelStart, lengthErrors, result>>

SearchForUppercase ==
    /\ stage = "search"
    /\ stage' = IF \E j \in DOMAIN domain : IsUppercase(domain[j]) THEN "lower" ELSE "keep"
    /\ UNCHANGED <<vars, call, convertedBytes, encoded, window, labelStart, lengthErrors, result>>

ContainsMarkerPrefix(d) == \E from \in LabelStarts(d) : HasMarkerPrefix(LabelAt(d, from))

MayShortcut == call = "toASCII" \/ ~ContainsMarkerPrefix(domain)

KeepDomain ==
    /\ stage = "keep" /\ MayShortcut
    /\ Return("noChangesNeeded", domain)
    /\ UNCHANGED <<vars, call, convertedBytes, encoded, window, labelStart, lengthErrors>>

LowercaseDomain ==
    /\ stage = "lower" /\ MayShortcut
    /\ Return("string", [j \in DOMAIN domain |-> Lowercased(domain[j])])
    /\ UNCHANGED <<vars, call, convertedBytes, encoded, window, labelStart, lengthErrors>>

ConvertAnyway ==
    /\ stage \in {"keep", "lower"} /\ ~MayShortcut
    /\ stage' = "process"
    /\ UNCHANGED <<vars, call, convertedBytes, encoded, window, labelStart, lengthErrors, result>>

-----------------------------------------------------------------------------

MainStep ==
    /\ stage = "process" /\ pc \notin Final
    /\ Next
    /\ UNCHANGED conversionVars

\* ConversionResult(consuming:)
ReturnBytes(buffer) == Return(IF IsInline(buffer) THEN "string" ELSE "bytes", Contents(buffer))

ReturnUnicode ==
    /\ stage = "process" /\ pc = "done" /\ call = "toUnicode"
    /\ IF errors = {} THEN ReturnBytes(newerBytes) ELSE Return("thrown", <<>>)
    /\ UNCHANGED <<vars, call, convertedBytes, encoded, window, labelStart, lengthErrors>>

\* convertedBytes is the buffer the text was mapped into.
StartLabels ==
    /\ stage = "process" /\ pc = "done" /\ call = "toASCII"
    /\ convertedBytes' = RemoveAll(newBytes, TRUE)
    /\ stage' = "labels"
    /\ UNCHANGED <<vars, call, encoded, window, labelStart, lengthErrors, result>>

-----------------------------------------------------------------------------
(* The labels of what mainProcessing left. *)

Processed == Contents(newerBytes)
Scalars == ScalarsOf(Processed)

WideAt(s, j) ==
    /\ j >= 3 /\ s[j - 2] \in WideSeparators
    /\ s[j - 1] = Continuation /\ s[j] = Continuation

\* Where the loop sees a separator end.  Up to the third byte it only looks
\* for a dot.
Separators(s, from) == {j \in from + 1 .. Len(s) : s[j] = Dot \/ (j > 3 /\ WideAt(s, j))}

AtLastLabel == Separators(Processed, labelStart) = {}
Separator == Min(Separators(Processed, labelStart))

EndOfLabel ==
    IF AtLastLabel THEN Len(Processed)
    ELSE IF Processed[Separator] = Dot THEN Separator - 1 ELSE Separator - 3

LabelBytes == SubSeq(Processed, labelStart + 1, EndOfLabel)
DotIfDue == IF AtLastLabel THEN <<>> ELSE <<Dot>>

\* Mutant: the first byte decides.
LabelStartsASCII == \A j \in DOMAIN LabelBytes : j = 1 => LabelBytes[j] < ASCIILimit

LabelIsASCII == AllASCII(LabelBytes)

LengthKinds(length) ==
    IF ~config.verifyDNSLength THEN {}
    ELSE When(length > LabelLimit, "labelTooLong") \cup When(length = 0, "emptyLabel")

\* Mutant: off by one.
LabelAppendedSkipping(output, length) ==
    /\ convertedBytes' = output
    /\ lengthErrors' =
            lengthErrors \cup {[at |-> labelStart, kind |-> kind] : kind \in LengthKinds(length)}
    /\ stage' = IF AtLastLabel THEN "name" ELSE "labels"
    /\ labelStart' = IF AtLastLabel THEN labelStart ELSE Separator + 1
    /\ UNCHANGED <<vars, call, result>>

\* The end of appendLabel and of the loop's turn.
LabelAppended(output, length) ==
    /\ convertedBytes' = output
    /\ lengthErrors' =
            lengthErrors \cup {[at |-> labelStart, kind |-> kind] : kind \in LengthKinds(length)}
    /\ stage' = IF AtLastLabel THEN "name" ELSE "labels"
    /\ labelStart' = IF AtLastLabel THEN labelStart ELSE Separator
    /\ UNCHANGED <<vars, call, result>>

AppendASCIILabel ==
    /\ stage = "labels" /\ LabelIsASCII
    /\ LabelAppended(AppendExact(convertedBytes, Len(LabelBytes) + 1, LabelBytes \o DotIfDue),
                 Len(LabelBytes))
    /\ UNCHANGED <<encoded, window>>

Made == IF encoded = NotMade THEN WithPreferredCapacity(Count(newBytes)) ELSE encoded

\* Mutant: the label is encoded before the window is set to it.
PunycodeOfLabelBefore == Encode(Shown(window, Scalars))

\* encode empties the buffer, then appends byte by byte.
Punycode == Encode(Shown(window', Scalars))
StoresPastTuple == IsInline(Made) /\ Len(Punycode) > InlineCapacity + 1

\* Mutant: what is encoded follows the label before.
WrittenBehind ==
    LET output[j \in 0 .. Len(Punycode)] ==
            IF j = 0 THEN Made
            ELSE LET before == output[j - 1]
                 IN  IF WritesPastTuple(before) THEN before
                     ELSE AppendUnchecked(before, Punycode[j])
    IN  output[Len(Punycode)]

Written ==
    LET output[j \in 0 .. Len(Punycode)] ==
            IF j = 0 THEN RemoveAll(Made, TRUE)
            ELSE AppendUnchecked(output[j - 1], Punycode[j])
    IN  output[Len(Punycode)]

Marker == <<LetterX, LetterN, Hyphen, Hyphen>>

\* Mutant: the marker is not counted.
AppendEncodedLabelUncounted ==
    /\ stage = "labels" /\ ~LabelIsASCII
    /\ window' = SetRange(window, ScalarEnds(Processed), labelStart, EndOfLabel)
    /\ ~StoresPastTuple
    /\ encoded' = Written
    /\ LabelAppended(AppendExact(convertedBytes, 4 + Count(encoded') + 1,
                             Marker \o Contents(encoded') \o DotIfDue),
                 Count(encoded'))

AppendEncodedLabel ==
    /\ stage = "labels" /\ ~LabelIsASCII
    /\ window' = SetRange(window, ScalarEnds(Processed), labelStart, EndOfLabel)
    /\ ~StoresPastTuple
    /\ encoded' = Written
    /\ LabelAppended(AppendExact(convertedBytes, 4 + Count(encoded') + 1,
                             Marker \o Contents(encoded') \o DotIfDue),
                 4 + Count(encoded'))

\* Nothing is said of what follows.
EncodePastTuple ==
    /\ stage = "labels" /\ ~LabelIsASCII
    /\ window' = SetRange(window, ScalarEnds(Processed), labelStart, EndOfLabel)
    /\ StoresPastTuple
    /\ stage' = "undefined"
    /\ UNCHANGED <<vars, call, convertedBytes, encoded, labelStart, lengthErrors, result>>

NameKinds(length) ==
    IF ~config.verifyDNSLength THEN {}
    ELSE When(length >= NameLimit, "nameTooLong") \cup When(length = 0, "emptyName")

ReturnASCII ==
    /\ stage = "name"
    /\ lengthErrors' = lengthErrors \cup
            {[at |-> labelStart, kind |-> kind] : kind \in NameKinds(Count(convertedBytes))}
    /\ IF errors \cup lengthErrors' = {} THEN ReturnBytes(convertedBytes)
                                         ELSE Return("thrown", <<>>)
    /\ UNCHANGED <<vars, call, convertedBytes, encoded, window, labelStart>>

\* The call has returned, or nothing is said of how it goes on.
Over == stage \in {"end", "undefined"} \/ pc \in {"stopped", "undefined"}

\* As Finished: any other state no action follows would be a deadlock.
ConversionFinished == Over /\ UNCHANGED allVars

ConversionNext ==
    \/ CheckBytes
    \/ SearchForUppercase
    \/ KeepDomain
    \/ LowercaseDomain
    \/ ConvertAnyway
    \/ MainStep
    \/ ReturnUnicode
    \/ StartLabels
    \/ AppendASCIILabel
    \/ AppendEncodedLabel
    \/ EncodePastTuple
    \/ ReturnASCII
    \/ ConversionFinished

ConversionSpec == ConversionInit /\ [][ConversionNext]_allVars

-----------------------------------------------------------------------------
(* The window, as ScalarWindowOps has it. *)

LoopBegun == call = "toASCII" /\ pc = "done" /\ stage # "process"
WindowEnds == IF LoopBegun THEN ScalarEnds(Processed) ELSE <<>>
ScalarsPassed ==
    CASE ~LoopBegun -> 0
      [] LoopBegun /\ stage = "labels" ->
            CHOOSE j \in 0 .. Len(WindowEnds) : EndOf(WindowEnds, j) = labelStart
      [] OTHER -> Len(WindowEnds) + 1

Window == INSTANCE ScalarWindowOps
    WITH ends <- WindowEnds,
         passed <- ScalarsPassed,
         range <- <<EndOf(WindowEnds, window.startIndex), EndOf(WindowEnds, window.endIndex)>>

-----------------------------------------------------------------------------
(* What the result is compared with. *)

AllSeparators(s) == {j \in 1 .. Len(s) : s[j] = Dot \/ WideAt(s, j)}
Starts(s) == {0} \cup AllSeparators(s)

\* The label that starts at `from`, whatever separator ends it.
LabelUpToSeparator(s, from) ==
    LET ends == {j \in AllSeparators(s) : j > from}
    IN  IF ends = {} THEN SubSeq(s, from + 1, Len(s))
        ELSE SubSeq(s, from + 1, Min(ends) - IF s[Min(ends)] = Dot THEN 1 ELSE 3)

ASCIILabel(label) ==
    IF AllASCII(label) THEN label ELSE Marker \o Encode(ScalarsOf(label))

\* The labels up to the one at `from` in ASCII, and all of them.
ASCIIFormUpTo(s, from) ==
    JoinedUpTo([f \in Starts(s) |-> ASCIILabel(LabelUpToSeparator(s, f))], from)
ASCIIForm(s) == ASCIIFormUpTo(s, Max(Starts(s)))

\* What the loop does not see: a separator in the first three bytes.
WideAtFront == Len(Processed) >= 3 /\ WideAt(Processed, 3)

\* Every label's Punycode fits the buffer it is written to (PunycodeEncode's
\* AppendsAreSafe is about those that do not).
PunycodeFits ==
    \/ Count(newBytes) > Threshold
    \/ \A from \in Starts(Processed) :
            LET label == LabelUpToSeparator(Processed, from)
            IN  AllASCII(label) \/ Len(Encode(ScalarsOf(label))) <= InlineCapacity

Unspoilt == ~WideAtFront /\ PunycodeFits

\* A label in Punycode is what its scalars are encoded to.  Not so where its
\* number wraps the word (Punycode.swift:246: xn--43902716a is decoded to the
\* letter of xn--tda) or its one delimiter is in first place (xn---tda).
GoesBack(label) ==
    HasMarkerPrefix(label) =>
        /\ DropMarker(label) \in DOMAIN Decoding
        /\ Encode(ScalarsOf(Converted(label))) = DropMarker(label)

\* "Verifies domain name length compatibility with DNS specification. That
\* is, each label length must be in range 1...63 and each full domain name
\* length must be in range 1...255." (IDNA.swift:22-24 and 96-98)
DNSLabelLengths == 1 .. 63
DNSNameLengths == 1 .. 255

Accepted == stage = "end" /\ result.kind # "thrown"
Strict == ~config.ignoreInvalidPunycode
TookShortcut == stage = "end" /\ pc = "map"

\* The long way on a text of the ASCII it is given.
LongText == NFC(MapText(domain))
LongWayAccepts ==
    \A from \in LabelStarts(LongText) : Verdict(LabelAt(LongText, from), config) = {}

-----------------------------------------------------------------------------

LengthErrorKinds == {"labelTooLong", "emptyLabel", "nameTooLong", "emptyName"}

ConversionTypeOK ==
    /\ TypeOK
    /\ stage \in {"check", "search", "keep", "lower", "process", "labels", "name",
                  "end", "undefined"}
    /\ call \in Calls
    /\ convertedBytes \in Buffer /\ encoded \in Buffer \cup {NotMade}
    /\ window.startIndex \in 0 .. window.endIndex
    /\ window.endIndex \in 0 .. Len(Scalars)
    /\ labelStart \in 0 .. Len(Processed)
    /\ lengthErrors \subseteq [at : Nat, kind : LengthErrorKinds]

\* Whatever ToASCII returns is ASCII: for every setting, and for labels that
\* failed on the way and were kept.
ResultIsASCII == Accepted /\ call = "toASCII" => AllASCII(result.bytes)

\* What ToASCII returns the long way is the processed text label by label in
\* ASCII, though buffer, window and decoded scalars are shared by the labels.
ResultIsLabelwise ==
    Accepted /\ call = "toASCII" /\ pc = "done" /\ Unspoilt
    => result.bytes = ASCIIForm(Processed)

\* What ToASCII accepts under the strict setting comes back: mapped,
\* normalised and decoded it is the Unicode form of the domain name.
ComesBack ==
    /\ Accepted /\ call = "toASCII" /\ pc = "done" /\ Strict
    /\ Unspoilt /\ ~DotMeetsFullBuffer(Text)
    => ConvertedText(NFC(MapText(result.bytes))) = ConvertedText(Text)

\* Labels are measured as "each label length must be in range 1...63"
\* (IDNA.swift:23) has it, each once and under its own start: encoded ones with
\* their marker, empty ones too.  And no name longer or shorter than documented
\* is let through; that others are refused is what NamesInRangePass is about.
LengthsJudged ==
    stage = "end" /\ call = "toASCII" /\ pc = "done" /\ Unspoilt
    => LET length(from) == Len(ASCIILabel(LabelUpToSeparator(Processed, from)))
           kind(from) == IF length(from) = 0 THEN "emptyLabel" ELSE "labelTooLong"
           ofLabels == {e \in lengthErrors : e.kind \in {"labelTooLong", "emptyLabel"}}
       IN  /\ ~config.verifyDNSLength => lengthErrors = {}
           /\ config.verifyDNSLength =>
                /\ ofLabels = {[at |-> from, kind |-> kind(from)] :
                        from \in {f \in Starts(Processed) : length(f) \notin DNSLabelLengths}}
                /\ Len(ASCIIForm(Processed)) \notin DNSNameLengths => lengthErrors # ofLabels

\* The shortcuts for ASCII agree with the long way under the strict setting,
\* where that accepts the labels of the name: of names whose labels in
\* Punycode go back to themselves and, for ToUnicode, in which no marker is in
\* uppercase, which the shortcut does not look for.  Lengths are another
\* matter (OnlyLengthsInRange).
ShortcutAgrees ==
    /\ TookShortcut /\ Strict
    /\ \A from \in LabelStarts(LongText) : GoesBack(LabelAt(LongText, from))
    /\ LongWayAccepts
    /\ call = "toUnicode" => ~ContainsMarkerPrefix(LongText)
    => result.bytes = IF call = "toASCII" THEN ASCIIForm(ConvertedText(LongText))
                                          ELSE ConvertedText(LongText)

\* The loop uses the window as ScalarWindowOps, whose theorems need that,
\* has it used: on scalars that are those of the text, for labels in their
\* order, whose bytes start and end with a scalar; and what it then shows is
\* that label.
ImplementsWindow == Window!Spec

-----------------------------------------------------------------------------
(* What the way back owes to the tables and to Punycode: the hypotheses of *)
(* the theorems about ComesBack and ShortcutAgrees.                        *)

\* ASCII is mapped to lowercase, wide separators to something else.
ASCIIFits ==
    /\ \A c \in UnicodeScalar : c < ASCIILimit => MappedBytes(c) = <<Lowercased(c)>>
    /\ \A c \in UnicodeScalar \cap WideSeparators : For(c).kind \notin {"valid", "deviation"}
    /\ \A b \in {Hyphen, LetterX, LetterN} : b \in UnicodeScalar /\ b # Dot /\ ~IsUppercase(b)

\* What each label of a text is, by itself, to the strict setting.
AcceptedLabels(text) ==
    {label \in {LabelAt(text, from) : from \in LabelStarts(text)} :
        \E conf \in Configurations :
            ~conf.ignoreInvalidPunycode /\ Verdict(label, conf) = {}}

\* Punycode!RoundTrip of every label of the names that is accepted.
LabelsComeBack ==
    \A d \in Domains : \A label \in AcceptedLabels(NFC(MapText(d))) :
        LET unicode == Converted(label)
            punycode == Encode(ScalarsOf(unicode))
        IN  ~AllASCII(unicode) =>
                /\ punycode \in DOMAIN Decoding
                /\ Decoding[punycode].kind = "decoded" /\ Decoding[punycode].bytes = unicode

-----------------------------------------------------------------------------
(* What the repository says, and the code does not do. *)

InDNSRange(s) ==
    /\ Len(s) \in DNSNameLengths
    /\ \A from \in LabelStarts(s) : Len(LabelAt(s, from)) \in DNSLabelLengths

\* So nothing else is accepted, whichever way it took.
OnlyLengthsInRange ==
    Accepted /\ call = "toASCII" /\ config.verifyDNSLength => InDNSRange(result.bytes)

\* And what is in range is not refused for its length.
NamesInRangePass ==
    /\ stage = "end" /\ call = "toASCII" /\ pc = "done" /\ Unspoilt
    /\ InDNSRange(ASCIIForm(Processed))
    => lengthErrors = {}

=============================================================================
