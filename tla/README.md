# Verification of swift-idna

TLA+ models of swift-idna (`src/Sources/SwiftIDNA`), TLC configurations that
check them on small instances, and proofs of their main invariants that TLAPS
checks for every value of the constants.

swift-idna is a sequential library: a call maps one domain name to another one
or throws. Nothing runs concurrently, nothing is stored between calls and
nothing is retried. What makes it hard is memory and bookkeeping. Buffers
change representation on the way, bytes are stored with unchecked accessors at
offsets that are kept incrementally, labels share buffers, arithmetic wraps,
and failures are collected while the work goes on. The README of the library
says that unchecked access is "only made possible thanks to the massive test
suite"; these models go where that suite does not.

## The system

| Component | State | Operations | Interacts with |
|---|---|---|---|
| `TinyBuffer` (`Collections/TinyBuffer.swift`, `+UniqueArray.swift`, `+OutputSpan.swift`) | 23 byte cells and a count byte in one tuple, or a heap array with a capacity | initialisers, reserve, append (unchecked, span, exact extra), insert, edit, removeAll, ensureNFC | every buffer of a conversion is one |
| `TinyBufferSubsequence` | a `TinyBuffer` and where the label at hand starts | append, insert, reserve, removeAll | handed to `Punycode.decode` |
| Punycode decoding (`Punycode.swift` 195-332) | n, i, bias, the inner loop's w and k, the index array and its count | one loop iteration per scalar | writes to the subsequence; the index array (`LazyRigidArray`) is shared by all labels |
| Punycode encoding (`Punycode.swift` 79-160) | delta, n, bias, h, a reused output buffer (`LazyTinyBuffer`) | one pass per distinct scalar | reads the window over the decoded scalars |
| Window over the scalars (`Collections/DecodedUnicodeScalars.swift`) | first and last index, byte offset of the end | set to the bytes of a label, forward only | filled once per call, set for labels that are encoded |
| Mapping table (`IDNAMapping.swift`, `CSwiftIDNA`) | two generated arrays | look up a scalar | main processing |
| Main processing (`IDNA_Implementation.swift` 253-609) | mapped text, output, index array, start of the label, errors | map, normalise, one step per label, the dot between labels | calls decode; called by both public operations |
| ToASCII and ToUnicode (`IDNA_Implementation.swift` 9-245, `ByteCheck+IDNA.swift`) | converted bytes, buffers for reuse, errors | shortcut, process, encode label by label, check lengths | compose all of the above |
| Error collection, helpers, generators, tests, benchmarks | | | see `PROJECT.json`, "components" |

What makes each correct:

- `TinyBuffer`: stores stay inside the storage; read through `withSpan` it is
  a byte string, whatever its representation and however it came to it.
- decode: the index array always says where each scalar ends; stores to it stay
  inside; earlier labels' bytes survive; what is decoded is what RFC 3492 says;
  failures leave nothing half done.
- encode: every pass finds a scalar; no arithmetic wraps; what is written up to
  any integer decodes to the scalars handled so far; the bytes fit the buffer
  they are appended to.
- window: it shows exactly the scalars of the label it was set to last.
- main processing: the second pass of the mapping fits the room the first one
  asked for; each label is judged on its own; the result is the label-by-label
  conversion; an accepted result is stable.
- ToASCII and ToUnicode: a result of ToASCII is ASCII, is the labels one by one,
  and comes back when it is processed again; lengths are judged of what is
  returned; the shortcuts agree with the long way.

The places where this code is hard to test are listed with their lines in
`PROJECT.json`, "hazards".

## Modules

| Module | Models | Correspondence |
|---|---|---|
| `Splicing` | insertion into a byte range | one operator |
| `TinyBuffers` | `TinyBuffer` as a value | one operator per operation; the inline form keeps all 24 cells, the count byte being the last, so that stores through the count cell are seen |
| `TinyBufferOps` | one buffer under every legal sequence of calls | `buf`; one action per operation; `stopped` when a precondition of the standard library fails |
| `ByteString` | what a buffer promises (abstract) | |
| `PunycodeParameters` | `Punycode.Constants`, digits, thresholds, `adapt` outside its loop, `&+`, `&*` | wrapping is `% WordSize` |
| `PunycodeDecode` | `Punycode.decode` and `adapt` | the variables have the source's names; one action per branch of the loop body; bytes are pairs of scalar and place in it, so that a torn scalar is visible |
| `ScalarInsertion` | decoding as insertion of scalars (abstract) | |
| `PunycodeEncode` | `Punycode.encode` and `adapt` | likewise; EXTENDS `TinyBuffers`, so that the unchecked appends meet the real buffer |
| `PunycodeRoundTrip` | encode, then decode of what was written | composes the two; `HandOver` is the way from `appendLabel` to a later `convertAndValidateLabel`, whose index array is as long as the label it reads |
| `RFC3492` | the decoder of RFC 3492, sections 6.1 and 6.2 (reference), one character at a time | |
| `RFC3492Encoding` | its encoder, section 6.3 (reference; recursive functions over unbounded integers), used by `PunycodeEncode` and `PunycodeRoundTrip` | |
| `IDNAMapping` | `IDNAMapping.for(scalar:)`, `cswift_idna_mapping_lookup` | the two tables are constants |
| `MainProcessing` | `mainProcessing` and what it calls | `Map`, `Normalise`, one action per way a label can end, `AppendDot`; EXTENDS `TinyBuffers` and `IDNAMapping` |
| `ScalarWindow` | `DecodedUnicodeScalars.Subsequence` as a value | `SetRange` is `set(utf8OffsetRange:)` |
| `ScalarWindowOps` | the window set to labels from left to right, some left out | what its caller has to keep to (abstract for `Conversions`) |
| `Conversions` | one call of `_toASCII` or `_toUnicode` | EXTENDS `MainProcessing`, whose steps are steps of the call (`MainStep`), and `ScalarWindow`; shortcuts, the loop over separators, one action per kind of label, the checks of lengths |
| `MC...` | instances for TLC | |
| `..._proofs` | the theorems about the module named; those about `PunycodeRoundTrip` are at the end of `PunycodeDecode_proofs`, those about `MainProcessing` in the first half of `Conversions_proofs` | |

How they meet:

- `MainProcessing` takes the outcome of decoding a text as the constant
  `Decoding`, with four kinds of outcome: decoded; failed with the whole output
  emptied; failed with the output left alone; and the nil scalar unwrapped, which
  is undefined (`DecodeUnwrapsNil`, see the run `decode_unwrap`). These are the ways
  `PunycodeDecode` ends. That a failure leaves nothing of the label, and that the one
  that leaves the output alone comes with nothing decoded, is `NothingHalfDecoded`,
  proved of `PunycodeDecode`. In return `PunycodeDecode` assumes that the index array has as
  many elements as the longest label has bytes (`CapacityAssumption`), which is
  `IndexArrayHasRoom`, proved of `MainProcessing`.
- `Conversions` takes what encode writes as the operator `Encode`, appended byte
  by byte without making room. That encode writes what section 6.3 of the RFC
  writes (`EncodesAsRFC`), and that it decodes to the label, are proved of
  `PunycodeEncode` and `PunycodeRoundTrip`. That it is ASCII, and adds no dot and no
  uppercase letter, are the hypotheses `EncodesASCII` and `EncodesPlainly` of the
  theorems about conversions, and the theorems `EncodedIsASCII` and
  `EncodedIsPlain` about `PunycodeEncode`.
- `Conversions` implements `ScalarWindowOps` (the property `ImplementsWindow`): it
  uses the window in the way the theorem about it asks for (`WindowImplemented`).

Operators introduced by "Mutant:" are broken variants of the definition after
them. They are not used by the models; each shows that a property notices the
mistake it stands for.

## Runs

Passing runs:

| Run | Shows | Bounds |
|---|---|---|
| `tiny_buffer` | `StorageRespected`: the count byte never exceeds the cells, no heap buffer exceeds its capacity. `ImplementsByteString`: refinement of `ByteString` | 4 inline cells, threshold 5, up to 6 bytes: both thresholds, the exactly full inline buffer and every move to the heap are reached; contents over three byte values of which two are not ASCII |
| `decode` | `IndexArrayCorrect`, `StoresInBounds`, `NothingHalfDecoded`, `EarlierLabelsKept`, `InsertsScalars`, `DecodesAsRFC`, `Termination` | 4 digits, a word of 32 values, scalars of 1 to 4 bytes with a surrogate; all labels of up to 4 characters out of 7 and up to 5 out of 4; three earlier outputs; clean and stale index array. Wrapping, insertions before, between and after scalars of each width, and every failure occur |
| `encode` | `PassFindsScalar`, `DeltaNeverWraps`, `EncodesAsRFC`, `PrefixDecodes`, `Termination` | 4 digits, a word of 40 values, 6 inline bytes; all labels of up to 4 of 7 code points and up to 5 of 3; fresh and used buffers, inline and on the heap. Labels of five can make delta wrap, so that `ShortEnough` is no empty condition |
| `round_trip` | `EncodesAsRFC`, `DecodesAsRFC`, `RoundTrip` | the parameters of RFC 3492, real code points, 23 and 35 bytes. Encoded: all labels of up to 3 of 6 scalars, at the edges of the widths of UTF-8 and of the surrogates, and labels of 17 to 34 scalars; decoded: what was written, all labels of up to 4 of 6 characters, and five longer ones. TLC has 32-bit integers, so the word has 2^31 - 1 values; these labels stay below that |
| `conversions` | of `mainProcessing`, in every call: `MappedTextFits`, `IndexArrayHasRoom`, `EveryLabelJudged`, `StrictOutputIsConverted`, `LaxOutputIsConverted`, `StrictOutputIsStable`; of the whole call: `ResultIsASCII`, `ResultIsLabelwise`, `ComesBack`, `LengthsJudged`, `ShortcutAgrees`, `ImplementsWindow` | the real 23 and 35, real code points and real Punycode. Both calls under ten configurations: all eight of the other three settings with hyphens checked, and without that the two in which only `ignoreInvalidPunycode` varies, as hyphens are a matter of single labels. 668 domain names. For `mainProcessing`: one label out of 30, two of which one is out of eight, three out of five; labels of 10, 12 and 20 to 23 bytes put the output below, at and above the inline limit. For the calls: ASCII names that take each shortcut or miss it by a letter, empty labels first, last and next to each other, scalars of one to three bytes in every arrangement of up to three labels, Punycode that decodes to separators, that wraps or that unwraps nil, labels of 63 and 64 bytes encoded and not, names of 253 to 256 bytes. 114085 states |

The properties about an output exclude, by name, what a violation run is about:
`DotMeetsFullBuffer` (`main_processing_dot`) and `PunycodeFits` (`encode_room`). Two
more exclusions state what the code does at an edge: `WideAtFront`, a separator in
the first three bytes, and, for `ShortcutAgrees`, labels that are not what their
decoding is encoded to (`GoesBack`). `xn--43902716a`, whose number wraps 2^32, and
`xn---tda`, with a stray hyphen, are such labels, are among the names of the run,
and both are accepted: there the shortcut and the long way do give different
results. `ShortcutAgrees` also leaves out `XN--` in a call of ToUnicode. All of these
are under "Observations".

`mainProcessing` has no passing run of its own: each of its steps is a step of a
call (`MainStep`), so its properties are checked there, on the names that get past
the shortcuts, and its type invariant is a part of `ConversionTypeOK`. `MCMainProcessing` holds its tables and labels, and is run by itself
for the two violations below.

`decode` and `encode` run under weak fairness of `Next`: a call is straight-line
code with loops that wait for nothing, so a step that can be taken is.
`Termination` is about the loops: every digit read consumes input, every digit
written divides, every pass handles a scalar, `adapt` divides. The other
specifications have no fairness and claim no liveness. `MainProcessing` and
`Conversions` are checked for deadlock instead: `Finished` and
`ConversionFinished` stutter in final states only, so a label no action handles
would be reported, and every other action moves the call forward. The other
models may stop: a finished call of decode or encode has no next step, and
neither has a stopped buffer or one all of whose operations would exceed
`MaxBytes`.

Runs that end in a violation, each a disagreement between the code and what a
comment of it says:

| Run | Comment | What the code does |
|---|---|---|
| `main_processing_dot` | "Assumes the buffer has enough capacity to hold the element." (`TinyBuffer.swift:92`) | `IDNA_Implementation.swift:293` appends the dot unchecked. Labels that fill the 23 inline bytes exactly, in a text of at most 35 bytes, make it overwrite the count byte: the result has a byte 24 for the dot |
| `main_processing_original` | "Use the original label" (`IDNA_Implementation.swift:457`) | with invalid Punycode ignored, a label that fails to decode wipes the labels before it (`TinyBufferSubSequence.swift:50-54`), without an error |
| `decode_unwrap` | "These are all safe." (`Punycode.swift:165`) | `unsafelyUnwrapped` of nil (277) for numbers that are surrogates or past U+10FFFF: four characters are enough |
| `encode_room` | "These are all safe." (`Punycode.swift:49`) | a label is encoded by unchecked appends (92, 99, 142, 148) into a buffer made for the bytes of the mapped text (`IDNA_Implementation.swift:33-35`). A text of 24 bytes, 22 letters and U+00DF, takes 26 in Punycode: the 24th overwrites the count byte, the 25th falls past the tuple |
| `conversions_verify` | "each label length must be in range 1...63" (`IDNA.swift:22-24`) | an ASCII domain name returns before lengths are looked at (`IDNA_Implementation.swift:12-17`): with `verifyDNSLength` on, empty labels and labels of 64 letters are accepted |
| `conversions_name` | "each full domain name length must be in range 1...255" (`IDNA.swift:22-24`, `96-98`); the error is named `...DomainNameToBe254BytesOrLess` (`IDNA.MappingErrors.swift:75`) | `IDNA_Implementation.swift:103` refuses 254 bytes and more: names of 254 and 255 bytes are errors. `LengthsJudged`, which passes, is the other half: no name out of range is let through, and labels are judged exactly as documented |
| `tiny_buffer_nfc` | "Ensures the buffer contains only valid UTF-8 and NFC-normalized bytes." (`TinyBuffer.swift:234`) | NFC may be longer than the text (U+00E0 U+0323), and the storage is not grown: the process stops |

### Observations

Found while modelling, and part of the models, but contradicting no line of the
repository plainly enough for a run of their own:

- A label whose only hyphen comes first is decoded as if the hyphen were not
  there (`Punycode.swift:206`); RFC 3492 rejects it. `DecodesAsRFC` says so.
- Up to the third byte of a name the loop over labels only looks for a dot
  (`IDNA_Implementation.swift:52-57`), so that a three-byte separator there is no
  separator. The mapping turns these into dots; one can only be there when it came
  out of Punycode and invalid scalars are not checked.
- A label whose number wraps 2^32 (`Punycode.swift:246`) is decoded, to the text of
  another label: `xn--43902716a` to that of `xn--tda`. The long way of ToASCII, taken
  when another label is not ASCII, then returns `xn--tda` for it, the shortcut the
  label as it is. RFC 3492 rejects it; no comment or test of the repository speaks
  of such a label.
- The test that skips looking for uppercase letters and-s the bytes onto a
  number that starts at zero (`ByteCheck+IDNA.swift:24`), so that it never succeeds
  and the slower search always runs. `ShortcutAgrees` holds either way.
- ToUnicode looks for `xn--` in lowercase only (221) before it takes the shortcut: a
  name in ASCII with `XN--` is lowercased and not decoded. The comment, "labels that start
  with “xn--”" (`+Span.swift:23`), leaves the case open.
- "this line is never triggered in tests" (112): a name of which only ignored
  scalars are left, a soft hyphen for one, triggers it; `LengthsJudged` covers it.

## Proofs

All theorems hold for every value of the constants that the named `ASSUME`s of
the modules allow; TLC evaluates these assumptions for the constants of the
runs. The real values (23 and 35; RFC 3492's parameters, 0x10FFFF, 2^32)
satisfy them.

**`TinyBufferOps`.** `IndInv` is `TypeOK /\ StorageRespected`. Types alone are not
inductive, as an unchecked append to a full inline buffer writes
`InlineCapacity + 1` into the count cell and the next one misses the tuple; the
guard `HasRoomForOne` is the documented precondition. `Implementation` shows that
`Contents` maps every step to a step of `ByteString` or a stutter. For the inline
insertion this means that the byte saved through the count cell is read back
before the count byte is rewritten. The facts about single operations are
lemmas of `TinyBuffers_proofs`, used for `MainProcessing` again.

**`PunycodeDecode`.** `IndInv` has six parts: types; the values before the first
step (`AtStart`); `Progress`, that no more scalars are decoded than characters
consumed, and strictly fewer before one is put in; `IndexArrayCorrect`;
`Unwrapped`, that n stays among the code points and i below the word; and
`NothingHalfDecoded`. `StoresInBounds` follows from `Progress` and the capacity of
the array. `IndexArrayCorrect` needs `Unwrapped` only for the width of the scalar
put in, and rests on lemmas about splicing and about the layout of UTF-8 in the
buffer: appending at the end and inserting at a boundary keep every other scalar
whole. `NothingHalfDecoded` is about the one failure that does not clean up. It
holds because n never goes down and is no longer ASCII once a scalar is in, and
`Unwrapped` excludes the wrap that could bring it back to ASCII: n is at most
MaxScalar, i / (count + 1) below the word, and the word more than twice
MaxScalar. If basic code points came first, the divisor is at least 2 and the sum
does not reach the word. `Implementation` maps the bytes to scalars and gives
every iteration a step of `ScalarInsertion`.

`DecodesAsRFC` compares the call with a decoder that reads the same characters
over the unbounded integers. `AgreesWithRFC` runs it along: as long as the RFC's
decoder has not overflowed it has the n, the bias and the scalars of the call, and
its i and weight where these fit the word; where the call fails, so does the
RFC's; where it unwraps nil, the RFC's has overflowed. It rests on `RFC3492_proofs`: the
decoder's states exist and step as it reads (`StateIsRead`), a failed one stays so, its
weight and sum only grow, so that what wraps in the call has overflowed in the
RFC, and its `RFCReduce` is what the loop of `adapt` comes to from any point of it.

**`PunycodeEncode`.** `PassFindsScalar` is not inductive: `handled` is a counter, and
that it is less than the length says nothing of which scalars are left. `Counted`
ties it to the number of scalars that are ASCII, below n, or equal to n and passed
already; a count short of the length then leaves one that is not below n.
`Bounded` bounds delta by the distance n has come, times the length plus one, plus
the place in the pass; with n at most MaxScalar this stays below the word in
labels that are `ShortEnough`, of up to 3854 scalars with the real parameters.

`PrefixDecodes` needs the invariant `Follows`, relative to `IndInv`. It reads what
has been written so far by the RFC's decoder. `LaidOut`: it is ASCII, and behind
the basic code points and their delimiter there is no hyphen. `Arrived`: the decoder,
having read it, is where the call is. Before and during a pass its scalars are
those handled, in the label's order, and its i plus delta are the places up to the
scalar at hand; among digits, its i plus q at the weight it has reached is where the
integer leads; behind the last digit it has inserted the scalar and reduces the
same delta in `adapt`. `Kept` says which scalars are handled and in which order, and
`KeptInsert` that handling one more inserts it there. The assumptions this needs of the
constants, beyond those of the decoder, are those of section 5 of the RFC: digits
and the hyphen are distinct, and TMin + 1 < Base, without which weights would not
grow.

`EncodesAsRFC` needs a third invariant, `Writes`, relative to the other two. The
reference (`RFC3492Encoding`) makes no passes: it names an insertion by how many
scalars are there already, says which scalar is next and how many of those before it in
the label are there, and writes how many states of the decoder away that is, over
unbounded integers. The lemmas about it show that the scalars below n, with those
equal to n up to a place, are the ones that many insertions have put in, in the label's
order. `Follows` says the same of what the call has handled, so that delta and the bias agree,
and then the digits, one by one. `Fitting` bounds the label and the room in the
output, which the RFC leaves open.

**`PunycodeRoundTrip`** (in `PunycodeDecode_proofs`). `RoundTripInv` has the invariants
of both calls side by side, `Follows` and `AgreesWithRFC` among them, and `Handed`, that
the decoder's input is what the encoder left. Both speak of the same decoder of the
RFC, so that `RoundTrip` follows for every label, every size of buffer and whatever
was decoded before. The exception `DecodesAsRFC` makes, a lone hyphen in first place, is
none here: what is written starts with a hyphen only where more than that is
basic (`DoneIsASCII`). `EncodesAsRFC` follows in the same way, from `Writes` kept
beside the rest.

**`ScalarWindowOps`.** The window ends where a label ended, its byte offset is that
of its end, and the next label starts behind it. So the forward search finds
exactly one place for each bound, as ends rise strictly, and the window shows the
label (`WindowIsLabel`).

**`MainProcessing`.** `IndInv` has three parts. `Storage`: both buffers are
representations within their storage, except that the output may have a count
one too large after a dot met a full inline buffer. `Beginning`: nothing is
recorded before the first label. `Labels`: the label at hand starts at the
text's start or behind a dot, the index array has the room of the longest label,
and the errors are exactly the verdicts of the labels that start earlier (and of
this one when only its dot is due). This gives `TypeOK`, `MappedTextFits`,
`IndexArrayHasRoom` and `EveryLabelJudged`. `Output` is a second invariant relative
to the first: as long as no label failed and no dot met a full buffer, the output
is within its storage and holds the labels converted so far, on the heap throughout
if the text is longer than the threshold. That needs no more room than decode asks
for, which is that of the label at hand alone (`Reserved`): the subsequence counts
from the start of the label, so earlier labels are not in its count, and an
inline output may well stay inline until the next dot meets it full. It needs to know which
errors mean that a label failed, hence the verdicts. From both follow
`StrictOutputIsConverted` and `LaxOutputIsConverted`. The recursive functions of
the model (the sum of sizes, the mapped text, the output up to a label) are shown to
exist by taking the least point at which they would not (`LeastFailure`), which
stands in for induction.

`StrictOutputIsStable`, that what a strict call accepted is mapped, normalised and
judged the same when it is processed again, is not about the code alone. Its
hypothesis `DataFits` says what of Unicode it rests on: mapping and NFC are in UTF-8
(`TablesInUTF8`), NFC puts no dot in or takes one out and works on either side of one
by itself (`DotIsNeutral`), and a label accepted as valid is in NFC. The last is a
check of the code's; the others hold of the real tables, and TLC evaluates all of
it for the tables of the runs. That decoding yields no dot is no hypothesis about
data but true of the code: what it yields is not all ASCII, and ASCII in it is
copied from the label. The proof keeps `Readable`, that the text is in UTF-8 and that
decode has an outcome for each label that has been passed. A label that passed
without a fault is then `Settled`: its scalars map to themselves
(`MapsToItself`), it is in NFC, has no dot, and is judged without a fault again. The
output is such labels with dots between them; `ComesApart` shows that a text put
together in this way comes apart in the same labels, so that the second call meets
the labels of the first.

**`Conversions`** (in `Conversions_proofs`, as are the theorems above about
`MainProcessing`). `MainImplemented` carries those theorems over: a conversion makes
`mainProcessing`'s own steps or leaves its state alone. `ConversionInv` adds four
parts.

- `Flow`: where the call is (`Control`), where the label at hand starts (`Place`),
  that the text and what is left of it consist of whole scalars (`WholeText`), and
  where the window is (`WindowKept`). `WholeText` is what keeps the window on
  scalars: no byte is a continuation without a scalar in front, and no three
  continuations follow each other where only two may, so that a separator of three
  bytes is never one that starts inside of a scalar. From it every start of a
  label, and every end of one, is the end of a scalar (`PlaceFacts`), the scalars
  passed are numbered in the order of their ends (`IndicesOrdered`), and each turn of
  the loop is a step of `ScalarWindowOps` (`WindowImplemented`). The theorem
  about that module then says what the window shows, and `ScalarsOfPart` that it is
  the scalars of the label's bytes.
- `Stored`: the output is within its storage and ASCII, and the buffer for Punycode
  is one that holds, or holds one byte too many. It is not the empty, fresh or
  correct one: `RemoveAll` in front of every encoding is what makes it irrelevant.
  `WrittenFacts` says what the unchecked appends leave to be read: the bytes, or with
  one too many for the cells the last one replaced by the count. That this is ASCII
  too needs the count to be (24 in the code).
- `Labelwise`: of texts that are `Unspoilt`, the output is the labels up to the one at
  hand, each in ASCII with a dot behind it, and the errors about lengths are those
  of the same labels. `LabelAtHand` shows that the labels the loop goes through
  with its two ways to see a separator are the ones between all separators, and
  `FormIsRecursive` that joining them is one step of the loop at a time.
- `Returned`: the result is ASCII, and after the long way it is the output.

`ResultIsASCII`, `ResultIsLabelwise`, `LengthsJudged` and `ConversionTypeOK` follow. The
hypothesis of these four is `EncodesASCII`, about the operator `Encode`; the
assumptions on constants are that markers, dots and lowercase letters are ASCII, that
a continuation byte is neither a scalar's first byte nor the first of a separator,
and that the mapping table, the normal form and the outcomes of decoding are whole
scalars (`WholeScalarsAssumption`). All of them hold of UTF-8.

`EncodedIsASCII` (in `PunycodeEncode_proofs`) discharges the hypothesis: every byte
`encode` appends is below `InitialN`, and the one read back from an overwritten
count is `InlineCapacity + 1`. Its own hypothesis, `Below`, is 128 <= 128 and
24 < 128 in the code.

The way back, `ComesBack` and `ShortcutAgrees`, takes what one label owes to the tables
and to Punycode as hypotheses, and proves that whole names follow: for any number
and order of labels, all buffers they share, and both ways through the call.

- `ASCIIFits`: the mapping table takes ASCII to its lowercase and accepts no
  separator of three bytes; the marker has no dot and no uppercase letter.
- `EncodesPlainly`, for `ComesBack`: besides ASCII of the label, encode writes nothing
  that is a dot, uppercase or no scalar. `EncodedIsPlain` discharges it: it is digits,
  the hyphen, or an overwritten count (24).
- `LabelsComeBack`, for `ComesBack`: each label that the strict setting accepts decodes
  from its own Punycode. This is `RoundTrip`, proved of `PunycodeRoundTrip` for every label
  that is short enough, but there about a run of the two algorithms and here about
  the table `Decoding` and the operator `Encode`; nothing proved connects the two.

`ShortcutAgrees` supposes nothing about what decode and encode make of labels. It is
a statement about the names all of whose labels in Punycode are what their decoding
is encoded to (`GoesBack`), which the code does not make true of every label it
accepts, and the theorem has that condition where the property has it, name by
name, instead of a hypothesis about all of them.

TLC evaluates `DataFits`, `ASCIIFits` and `LabelsComeBack` for the tables and
names of `conversions`. In the proof of `AcceptedAlwaysComesBack`, labels without a
fault are `Settled` (`LabelsSettle`); their ASCII forms are `Plain`, bytes that are mapped to
themselves (`PlainLabel`), and each is converted back to its label (`DecodedBack`).
There is no wide separator in such a text (`NoWideSeparator`), so `FormOfJoined` takes
the ASCII form apart into these labels, and `JoinedLabels` takes its mapped text apart
again. `TextKept` and `Answered` are the invariants this adds: which text the labels
are of, and that a result that is not thrown had no errors before it.
`ShortcutAlwaysAgrees` uses the same lemmas the other way round: the name in lowercase is
the mapped text (`LoweredIsMapped`), each of its labels is put back as it was
(`LabelGoesBack`), and a text is its own labels with dots between them (`OwnLabels`).

tlapm's SMT translation takes `DOMAIN s = 1 .. Len(s)` of every s. The lemmas
therefore show that something is a sequence before they use its length.

Model-checked only:

- `Termination`, which is liveness.
- `LabelsComeBack`, of the tables of `conversions`: a hypothesis of the theorem about
  the way back, `AcceptedAlwaysComesBack`.

## Not modelled

- The generated tables, which make up nearly all lines of the C files. What is code
  in them, the lookup, is `IDNAMapping`; a table as long as the generated one says
  no more about it than the 33 entries of the runs. The share of lines that the
  models can cover is small for that reason: the mapping and test tables are more
  than a hundred thousand lines of data, and their tests are data as well.
- NFC, the general category of scalars and growth of heap arrays, which belong to
  Swift and its packages: constants, or an operator that grows to what is needed.
- Order, repetition and texts of errors and their conversion to a thrown value; a
  label's errors are a set of kinds.
- `checkBidi`, `checkJoiners` and `replaceBadCharacters`, which do nothing in the code.
- The overloads of the public functions by type of string, and the views of
  string storage per platform: they hand bytes on.
- `IDNAUnicodeScalarView` as a `Sequence` for callers, and descriptions. A conversion
  takes only its bytes, which are in `IDNAMapping`.
- Liveness of `Conversions` and `MainProcessing`: no loop of theirs waits or goes
  back, and a missing step would be a deadlock in their runs.
- Generators, tests and benchmarks, which hold no logic of a conversion.

Abstractions of data: in `MainProcessing` and `Conversions` a byte other than the
first of a scalar is one value, `Continuation`, and the first byte names the scalar;
in `PunycodeDecode` bytes carry the scalar they belong to, where tearing one matters.
