--------------------------- MODULE MainProcessing ---------------------------
(***************************************************************************)
(* `IDNA.mainProcessing` (IDNA_Implementation.swift): one domain name is   *)
(* mapped and normalised as a whole, then its labels are converted and     *)
(* checked one by one, each appended to the output behind the ones before. *)
(* Most errors do not end the work: they are collected and the next label  *)
(* follows.                                                                *)
(*                                                                         *)
(* What Punycode.decode does to the output is PunycodeDecode's matter.     *)
(* Here it is a table of outcomes, one per text after "xn--".              *)
(***************************************************************************)
EXTENDS TinyBuffers, IDNAMapping, SequencesExt

CONSTANTS
    Domains,            \* the domain names, as sequences of scalars
    Configurations,     \* ignoreInvalidPunycode, checkHyphens, useSTD3ASCIIRules
    Decoding,           \* external to this module: the outcomes of decode
    Continuation,       \* the byte that is not the first of its scalar
    Dot, Hyphen, LetterX, LetterN,
    LettersDigitsHyphen,\* the ASCII that STD3 rules allow
    Marks               \* external: general category M

ASSUME DecodingAssumption ==
    \A s \in DOMAIN Decoding :
        /\ Decoding[s].kind \in {"decoded", "emptied", "untouched", "unwrapped"}
        /\ Decoding[s].bytes \in Seq(Byte)
        \* PunycodeDecode!NothingHalfDecoded
        /\ Decoding[s].kind = "untouched" => Decoding[s].bytes = <<>>
ASSUME DomainsAssumption == Domains \subseteq Seq(UnicodeScalar)
ASSUME ScalarBytesAssumption ==
    /\ UnicodeScalar \cup {Continuation, Dot} \subseteq Byte
    /\ \A j \in DOMAIN MappingTable : MappingTable[j].mapped_utf8_bytes \in Seq(Byte)

VARIABLES
    pc,             \* where the call is
    config,         \* self.configuration
    domain,         \* the span
    newBytes,       \* mapped, then normalised
    newerBytes,     \* the output
    indexCapacity,  \* capacity of scalarsIndexToUTF8IndexForReuse
    startIndex,     \* where the label at hand starts
    errors          \* what was recorded, by label; order and repeats are left out

vars == <<pc, config, domain, newBytes, newerBytes, indexCapacity, startIndex, errors>>

Final == {"done", "stopped", "undefined"}

Init ==
    /\ pc = "map"
    /\ config \in Configurations /\ domain \in Domains
    /\ newBytes = EmptyInline /\ newerBytes = EmptyInline
    /\ indexCapacity = 0 /\ startIndex = 0
    /\ errors = {}

-----------------------------------------------------------------------------
(* Text.  The first byte of a scalar names it, whatever the others are.    *)

UTF8(c) ==
    CASE c < ASCIILimit -> <<c>>
      [] c >= ASCIILimit /\ c < 2048 -> <<c, Continuation>>
      [] OTHER -> <<c, Continuation, Continuation>>

\* The bytes after the first one of a scalar: behind it, and two at most.
WholeScalars(s) ==
    \A j \in DOMAIN s : s[j] = Continuation =>
        /\ j > 1 /\ s[j - 1] >= ASCIILimit
        /\ j > 2 => ~(s[j - 1] = Continuation /\ s[j - 2] = Continuation)

\* What the tables hold and decode writes is UTF-8.  The count byte is ASCII:
\* where it is read as a byte of text it is a scalar.
ASSUME WholeScalarsAssumption ==
    /\ Continuation \notin UnicodeScalar /\ Continuation >= ASCIILimit
    /\ Dot < ASCIILimit /\ InlineCapacity + 1 < ASCIILimit
    /\ \A j \in DOMAIN MappingTable : WholeScalars(MappingTable[j].mapped_utf8_bytes)
    /\ \A p \in NFCTable : WholeScalars(p[2])
    /\ \A s \in DOMAIN Decoding : WholeScalars(Decoding[s].bytes)

\* Where the bytes of each scalar of a text end.
ScalarEnds(s) ==
    LET ends[j \in 0 .. Len(s)] ==
            IF j = 0 THEN <<>>
            ELSE IF j = Len(s) \/ s[j + 1] # Continuation THEN Append(ends[j - 1], j)
            ELSE ends[j - 1]
    IN  ends[Len(s)]

\* The scalars of a text, each by its first byte.
ScalarsOf(s) ==
    LET ends == ScalarEnds(s)
    IN  [j \in DOMAIN ends |-> s[IF j = 1 THEN 1 ELSE ends[j - 1] + 1]]

Dots(s, from) == {j \in from + 1 .. Len(s) : s[j] = Dot}
LabelEnd(s, from) == IF Dots(s, from) = {} THEN Len(s) ELSE Min(Dots(s, from)) - 1
LabelAt(s, from) == SubSeq(s, from + 1, LabelEnd(s, from))
LabelStarts(s) == {0} \cup Dots(s, 0)

HasMarkerPrefix(s) == Len(s) >= 4 /\ SubSeq(s, 1, 4) = <<LetterX, LetterN, Hyphen, Hyphen>>
DropMarker(s) == SubSeq(s, 5, Len(s))

InNFC(s) == NFC(s) = s

-----------------------------------------------------------------------------
(* 1. Map, in two passes, and 2. Normalise *)

\* Mutant: a mapped scalar is given the room of the original.
MappedSizeOfSource(c) == IF For(c).kind = "ignored" THEN 0 ELSE Len(UTF8(c))

MappedSize(c) ==
    CASE For(c).kind = "mapped" -> Len(For(c).bytes)
      [] For(c).kind = "ignored" -> 0
      [] OTHER -> Len(UTF8(c))

MappedBytes(c) ==
    CASE For(c).kind = "mapped" -> For(c).bytes
      [] For(c).kind = "ignored" -> <<>>
      [] OTHER -> UTF8(c)

RequiredCapacity(d) ==
    LET sum[j \in 0 .. Len(d)] == IF j = 0 THEN 0 ELSE sum[j - 1] + MappedSize(d[j])
    IN  sum[Len(d)]

MapText(d) ==
    LET text[j \in 0 .. Len(d)] == IF j = 0 THEN <<>> ELSE text[j - 1] \o MappedBytes(d[j])
    IN  text[Len(d)]

Map ==
    /\ pc = "map"
    /\ newBytes' = Edit(WithRequiredCapacity(RequiredCapacity(domain)), MapText(domain))
    /\ pc' = "normalise"
    /\ UNCHANGED <<config, domain, newerBytes, indexCapacity, startIndex, errors>>

\* Mutant: what follows the last dot is forgotten.
MaxLabelLengthAtDots(s) ==
    Max({0} \cup {Len(LabelAt(s, from)) : from \in LabelStarts(s) \ {Max(LabelStarts(s))}})

MaxLabelLength(s) == Max({Len(LabelAt(s, from)) : from \in LabelStarts(s)})

Normalise ==
    /\ pc = "normalise" /\ NFCFits(newBytes)
    /\ newBytes' = EnsureNFC(newBytes)
    /\ newerBytes' = WithPreferredCapacity(Count(newBytes'))
    /\ indexCapacity' = MaxLabelLength(Contents(newBytes'))
    /\ pc' = "label"
    /\ UNCHANGED <<config, domain, startIndex, errors>>

NormaliseStops ==
    /\ pc = "normalise" /\ ~NFCFits(newBytes)
    /\ pc' = "stopped"
    /\ UNCHANGED <<config, domain, newBytes, newerBytes, indexCapacity, startIndex, errors>>

-----------------------------------------------------------------------------
(* Validity criteria *)

When(condition, kind) == IF condition THEN {kind} ELSE {}

HyphensThirdAndFourth(s) == Len(s) >= 4 /\ s[3] = Hyphen /\ s[4] = Hyphen
HyphenAtAnEnd(s) == Len(s) >= 1 /\ (s[1] = Hyphen \/ s[Len(s)] = Hyphen)

verifyValidLabel(s, conf) ==
    LET scalars == ToSet(ScalarsOf(s))
        strict == ~conf.ignoreInvalidPunycode
    IN  UNION {
        When(strict /\ ~InNFC(s), "notNFC"),
        When(conf.checkHyphens /\ HyphensThirdAndFourth(s), "hyphens34"),
        When(conf.checkHyphens /\ HyphenAtAnEnd(s), "edgeHyphen"),
        When(~conf.checkHyphens /\ strict /\ HasMarkerPrefix(s), "startsWithXN"),
        When(strict /\ s # <<>> /\ s[1] \in Marks, "startsWithMark"),
        When(strict /\ \E c \in scalars : For(c).kind \notin {"valid", "deviation"},
             "invalidScalar"),
        When(conf.useSTD3ASCIIRules /\
             \E c \in scalars : c < ASCIILimit /\ c \notin LettersDigitsHyphen, "std3")}

checkInvalidPunycode(s, conf) ==
    IF conf.ignoreInvalidPunycode THEN {}
    ELSE When(s = <<>>, "emptyAfterPunycode") \cup When(AllASCII(s), "onlyASCII")

-----------------------------------------------------------------------------
(* 4. Convert and validate, label by label *)

Text == Contents(newBytes)
Label == LabelAt(Text, startIndex)
IsLastLabel == Dots(Text, startIndex) = {}

\* One pass of the loop over the labels, up to the dot: what the label leaves
\* in the output, what it records, and whether a dot is to follow.
EndLabel(output, kinds, converted) ==
    /\ newerBytes' = output
    /\ errors' = errors \cup {[at |-> startIndex, kind |-> kind] : kind \in kinds}
    /\ pc' = IF IsLastLabel THEN "done" ELSE IF converted THEN "dot" ELSE "label"
    /\ startIndex' = IF IsLastLabel \/ converted THEN startIndex
                     ELSE LabelEnd(Text, startIndex) + 1
    /\ UNCHANGED <<config, domain, newBytes, indexCapacity>>

KeepLabel ==
    /\ pc = "label" /\ ~HasMarkerPrefix(Label)
    /\ EndLabel(AppendCopying(newerBytes, Label), verifyValidLabel(Label, config), TRUE)

Refused == ~config.ignoreInvalidPunycode /\ ~AllASCII(Label)

RefuseNonASCII ==
    /\ pc = "label" /\ HasMarkerPrefix(Label)
    /\ Refused
    /\ EndLabel(newerBytes, {"xnButNonASCII"}, FALSE)

\* The table has an outcome for every text that comes up: without one the
\* call would be in deadlock.
CallsDecode ==
    HasMarkerPrefix(Label) /\ ~Refused /\ DropMarker(Label) \in DOMAIN Decoding
Outcome == Decoding[DropMarker(Label)]

\* Mutant: the label is copied as it was.
AppendedUndecoded == AppendCopying(newerBytes, Label)

\* Room asked for by the count of the subsequence, which holds nothing yet:
\* earlier labels are in the buffer and not in that count.
Reserved == PreferablyReserveCapacity(newerBytes, Max({Len(DropMarker(Label)), 4}))

\* The bytes decoded up to the end or the failure.  With no delimiter and
\* nothing decoded, append is not called at all.
Appended ==
    IF Outcome.bytes = <<>> /\ Hyphen \notin ToSet(DropMarker(Label))
    THEN Reserved ELSE AppendCopying(Reserved, Outcome.bytes)

\* Mutant: all of the output is checked, not only what was decoded.
DecodeJudgingAll ==
    /\ pc = "label" /\ CallsDecode
    /\ Outcome.kind = "decoded"
    /\ EndLabel(Appended,
                checkInvalidPunycode(Contents(Appended), config)
                    \cup verifyValidLabel(Contents(Appended), config),
                TRUE)

\* Mutant: what was decoded is not verified, as a label in Unicode is.
DecodeUnverified ==
    /\ pc = "label" /\ CallsDecode
    /\ Outcome.kind = "decoded"
    /\ LET conversion == SubSeq(Contents(Appended), Count(newerBytes) + 1, Count(Appended))
       IN  EndLabel(Appended, checkInvalidPunycode(conversion, config), TRUE)

Decode ==
    /\ pc = "label" /\ CallsDecode
    /\ Outcome.kind = "decoded"
    /\ LET conversion == SubSeq(Contents(Appended), Count(newerBytes) + 1, Count(Appended))
       IN  EndLabel(Appended,
                    checkInvalidPunycode(conversion, config)
                        \cup verifyValidLabel(conversion, config),
                    TRUE)

\* A failing decode empties the output, earlier labels included, or in one
\* case leaves it untouched.
LeftByFailure == IF Outcome.kind = "emptied" THEN RemoveAll(Appended, TRUE) ELSE Appended

\* Mutant: a failure is not recorded.
DecodeFailsSilently ==
    /\ pc = "label" /\ CallsDecode
    /\ Outcome.kind \in {"emptied", "untouched"}
    /\ EndLabel(LeftByFailure, {}, FALSE)

DecodeFails ==
    /\ pc = "label" /\ CallsDecode
    /\ Outcome.kind \in {"emptied", "untouched"}
    /\ \/ /\ config.ignoreInvalidPunycode
          /\ EndLabel(AppendCopying(LeftByFailure, Label),
                      verifyValidLabel(Label, config), TRUE)
       \/ /\ ~config.ignoreInvalidPunycode
          /\ EndLabel(LeftByFailure, {"decodeFailed"}, FALSE)

\* PunycodeDecode!UnwrapNil: decode does not come back to this call.
DecodeUnwrapsNil ==
    /\ pc = "label" /\ CallsDecode
    /\ Outcome.kind = "unwrapped"
    /\ pc' = "undefined"
    /\ UNCHANGED <<config, domain, newBytes, newerBytes, indexCapacity, startIndex, errors>>

AppendDot ==
    /\ pc = "dot" /\ ~WritesPastTuple(newerBytes)
    /\ newerBytes' = AppendUnchecked(newerBytes, Dot)
    /\ startIndex' = LabelEnd(Text, startIndex) + 1
    /\ pc' = "label"
    /\ UNCHANGED <<config, domain, newBytes, indexCapacity, errors>>

\* The store misses the buffer: nothing is said of what follows.
DotPastTuple ==
    /\ pc = "dot" /\ WritesPastTuple(newerBytes)
    /\ pc' = "undefined"
    /\ UNCHANGED <<config, domain, newBytes, newerBytes, indexCapacity, startIndex, errors>>

\* Nothing more happens.  A state any other action is missing from would be
\* reported as a deadlock.
Finished == pc \in Final /\ UNCHANGED vars

Next ==
    \/ Map
    \/ Normalise
    \/ NormaliseStops
    \/ KeepLabel
    \/ RefuseNonASCII
    \/ Decode
    \/ DecodeFails
    \/ DecodeUnwrapsNil
    \/ AppendDot
    \/ DotPastTuple
    \/ Finished

Spec == Init /\ [][Next]_vars

-----------------------------------------------------------------------------
(* What the result is compared with: labels converted one by one. *)

Undecodable(label) ==
    HasMarkerPrefix(label) /\ Decoding[DropMarker(label)].kind # "decoded"

Converted(label) ==
    IF HasMarkerPrefix(label) /\ ~Undecodable(label)
    THEN Decoding[DropMarker(label)].bytes ELSE label

\* Pieces with dots between them, from the one at 0 to the one at `from`.
JoinedUpTo(piece, from) ==
    LET text[f \in DOMAIN piece] ==
            IF f = 0 THEN piece[0]
            ELSE text[Max({g \in DOMAIN piece : g < f})] \o <<Dot>> \o piece[f]
    IN  text[from]

\* The output up to the end of the label that starts at `from`.
ConvertedUpTo(s, from) ==
    JoinedUpTo([f \in LabelStarts(s) |-> Converted(LabelAt(s, f))], from)

ConvertedText(s) == ConvertedUpTo(s, Max(LabelStarts(s)))

\* A dot is due when an inline buffer is exactly full.
DotMeetsFullBuffer(s) ==
    /\ Len(s) <= Threshold
    /\ \E from \in LabelStarts(s) \ {Max(LabelStarts(s))} :
            Len(ConvertedUpTo(s, from)) = InlineCapacity

\* What is wrong with a label taken by itself.
Verdict(label, conf) ==
    LET strict == ~conf.ignoreInvalidPunycode
        result == Converted(label)
    IN  IF ~HasMarkerPrefix(label) THEN verifyValidLabel(label, conf)
        ELSE IF strict /\ ~AllASCII(label) THEN {"xnButNonASCII"}
        ELSE IF strict /\ Undecodable(label) THEN {"decodeFailed"}
        ELSE IF Undecodable(label) THEN verifyValidLabel(label, conf)
        ELSE checkInvalidPunycode(result, conf) \cup verifyValidLabel(result, conf)

-----------------------------------------------------------------------------

TypeOK ==
    /\ pc \in {"map", "normalise", "label", "dot"} \cup Final
    /\ config \in Configurations /\ domain \in Seq(UnicodeScalar)
    /\ newBytes \in Buffer /\ newerBytes \in Buffer
    /\ indexCapacity \in Nat /\ startIndex \in Nat
    /\ \A e \in errors : e.at \in LabelStarts(Text)

\* The first pass of the mapping asks for the room the second one fills, and
\* normalising never leaves more than there is room for.
MappedTextFits == CountInBounds(newBytes) /\ WithinCapacity(newBytes)

\* The index array all labels share has room for the label being decoded:
\* what PunycodeDecode takes for granted (CapacityAssumption).
IndexArrayHasRoom ==
    pc = "label" /\ HasMarkerPrefix(Label) =>
        Len(DropMarker(Label)) + 4 <= indexCapacity

\* Under the strict setting a result without errors is the text with each of
\* its labels converted, though labels are appended to, inserted into and
\* wiped from one shared buffer.
StrictOutputIsConverted ==
    /\ pc = "done" /\ ~config.ignoreInvalidPunycode /\ errors = {}
    /\ ~DotMeetsFullBuffer(Text)
    => Contents(newerBytes) = ConvertedText(Text)

\* The same when invalid Punycode is ignored and every label can be decoded.
LaxOutputIsConverted ==
    /\ pc = "done" /\ config.ignoreInvalidPunycode
    /\ \A from \in LabelStarts(Text) : ~Undecodable(LabelAt(Text, from))
    /\ ~DotMeetsFullBuffer(Text)
    => Contents(newerBytes) = ConvertedText(Text)

\* Every label is judged, and on its own bytes alone: what earlier labels
\* left in the output or recorded, and failures among them, do not matter.
EveryLabelJudged ==
    pc = "done" =>
        errors = UNION {
            {[at |-> from, kind |-> kind] : kind \in Verdict(LabelAt(Text, from), config)} :
            from \in LabelStarts(Text)}

\* A result accepted under the strict setting is stable: mapped, normalised,
\* converted and checked again it is itself, without errors.
StrictOutputIsStable ==
    /\ pc = "done" /\ ~config.ignoreInvalidPunycode /\ errors = {}
    /\ ~DotMeetsFullBuffer(Text)
    => LET again == NFC(MapText(ScalarsOf(Contents(newerBytes))))
       IN  /\ again = Contents(newerBytes)
           /\ ConvertedText(again) = again
           /\ \A from \in LabelStarts(again) : Verdict(LabelAt(again, from), config) = {}

-----------------------------------------------------------------------------
(* What an accepted result owes to the data of Unicode and to decode, whose *)
(* tables are constants: the hypotheses of the theorems about it.          *)

\* Every scalar is there with the bytes UTF-8 gives it, and nothing else is.
InUTF8(s) ==
    /\ s # <<>> => s[1] # Continuation
    /\ \A j \in DOMAIN s : s[j] # Continuation =>
            LET next == j + Len(UTF8(s[j]))
            IN  /\ s[j] \in UnicodeScalar
                /\ next <= Len(s) + 1
                /\ \A l \in j + 1 .. next - 1 : s[l] = Continuation
                /\ next <= Len(s) => s[next] # Continuation

TablesInUTF8 ==
    /\ \A j \in DOMAIN MappingTable : InUTF8(MappingTable[j].mapped_utf8_bytes)
    /\ \A p \in NFCTable : InUTF8(p[2])
    /\ \A s \in DOMAIN Decoding : InUTF8(Decoding[s].bytes)

\* A dot is valid, and a text in NFC where each of its labels is.
DotIsNeutral ==
    /\ Dot \in UnicodeScalar /\ For(Dot).kind = "valid"
    /\ \A p \in NFCTable : \E from \in LabelStarts(p[1]) : ~InNFC(LabelAt(p[1], from))

\* The ASCII that decode leaves is copied from what it is given.
DecodingAddsNoDot ==
    \A s \in DOMAIN Decoding : Dot \notin ToSet(s) => Dot \notin ToSet(Decoding[s].bytes)

DataFits == TablesInUTF8 /\ DotIsNeutral /\ DecodingAddsNoDot

-----------------------------------------------------------------------------

\* "Assumes the buffer has enough capacity to hold the element."
\* (TinyBuffer.swift:92, of append(unchecked:)): the dot is appended so.
DotHasRoom == pc = "dot" => HasRoomForOne(newerBytes)

\* "Use the original label" (IDNA_Implementation.swift:457), when a label
\* cannot be decoded and that is to be ignored.
OriginalLabelsKept ==
    /\ pc = "done" /\ config.ignoreInvalidPunycode
    /\ ~DotMeetsFullBuffer(Text)
    => Contents(newerBytes) = ConvertedText(Text)

=============================================================================
