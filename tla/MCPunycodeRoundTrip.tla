------------------------ MODULE MCPunycodeRoundTrip ------------------------
(***************************************************************************)
(* PunycodeRoundTrip with the parameters of RFC 3492, real code points and *)
(* real buffer sizes.  Labels have at most 35 bytes, for which             *)
(* outputBufferForReuse may be inline or, in a longer domain name, on the  *)
(* heap.  The word has 2^31 - 1 values here, as TLC's integers have 32     *)
(* bits: the labels chosen stay below it, so that no word wraps.           *)
(***************************************************************************)
EXTENDS PunycodeRoundTrip

As(m) == [j \in 1 .. m |-> 97]

-----------------------------------------------------------------------------
(* To encode *)

\* Letters of two, three and four bytes, the last scalar and the neighbours
\* of the surrogates, among each other and among ASCII.
Alphabet == {97, 45, 252, 55295, 57344, 1114111}
ShortTexts == UNION {[1 .. m -> Alphabet] : m \in 1 .. 3}

\* A sharp s or an ideograph behind letters: up to 35 bytes.
LongTexts == {As(m) \o <<223>> : m \in 17 .. 33} \cup {As(m) \o <<20013>> : m \in 17 .. 32}

NotASCII(s) == \E j \in 1 .. Len(s) : ~IsASCII(s[j])
MCTexts == {s \in ShortTexts : NotASCII(s)} \cup LongTexts \cup {<<>>}

Buffers == INSTANCE TinyBuffers
MCReused == {Buffers!EmptyInline, Buffers!Heap(<<>>, 64), Buffers!Heap(<<97, 45, 98>>, 64)}
MCByte == 0 .. 127

-----------------------------------------------------------------------------
(* To decode *)

\* Up to four of: a, b, z, 0, 9 and the hyphen.
ShortLabels == UNION {[1 .. m -> {97, 98, 122, 48, 57, 45}] : m \in 0 .. 4}

\* bcher-kva and mnchen-3ya, of German words, 1ca of one letter, and fa-hia,
\* whose last digits insert in first place.
Words == {
    <<98, 99, 104, 101, 114, 45, 107, 118, 97>>,
    <<109, 110, 99, 104, 101, 110, 45, 51, 121, 97>>,
    <<49, 99, 97>>,
    <<102, 97, 45, 104, 105, 97>>}

\* 9999a, whose one number is past the last scalar.
PastTheLast == <<57, 57, 57, 57, 97>>

MCLabels == ShortLabels \cup Words \cup {PastTheLast}
MCEarlier == {<<>>, << <<97, 1>>, <<46, 1>> >>}
MCSurrogates == 55296 .. 57343

-----------------------------------------------------------------------------

\* "This function uses unchecked/unsafe handling of some values. These are
\* all safe." (Punycode.swift:49, of encode)
AppendsAreSafe == ePC # "undefined"

=============================================================================
