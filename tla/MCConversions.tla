--------------------------- MODULE MCConversions ---------------------------
(***************************************************************************)
(* Conversions with the real buffer sizes, limits, markers and Punycode,   *)
(* on domain names that take the shortcuts, that miss them by a letter,    *)
(* with labels in every arrangement of up to three, and at the limits of   *)
(* lengths.  What Punycode makes of a label is computed by RFC3492Encoding.*)
(***************************************************************************)
EXTENDS Conversions, MCMainProcessing

Bootstring == INSTANCE RFC3492Encoding WITH
    Base <- 36, TMin <- 1, TMax <- 26, Skew <- 38, Damp <- 700, InitialBias <- 72,
    InitialN <- 128, LetterA <- 97, LetterZ <- 122, Digit0 <- 48, Digit9 <- 57,
    ThreeBytesFrom <- 2048, FourBytesFrom <- 65536, MaxScalar <- 1114111,
    Surrogates <- 55296 .. 57343, WordSize <- 2147483647

\* Hyphens are a matter of labels alone, lengths one of what comes after.
MCConversionConfigurations ==
    {conf \in [ignoreInvalidPunycode : BOOLEAN, checkHyphens : BOOLEAN,
               useSTD3ASCIIRules : BOOLEAN, verifyDNSLength : BOOLEAN] :
        ~conf.checkHyphens => ~conf.useSTD3ASCIIRules /\ ~conf.verifyDNSLength}

-----------------------------------------------------------------------------
(* Labels *)

\* What a label of letters of one, two and three bytes is made of.
Letters_ == {97, UDiaeresis, ADotBelow}
Words == {<<>>} \cup UNION {[1 .. m -> Letters_] : m \in 1 .. 2}
FewWords == {<<>>, <<97>>, <<UDiaeresis>>, <<ADotBelow, 97>>}

\* Up to 63 bytes and one more once encoded, with a text on the heap; 23 and
\* one more, inline and on the heap.
LongWords == {As(m) \o <<UDiaeresis>> : m \in {17, 18, 19, 54, 55, 56}}

\* Separators that come out of decoding, when that is not checked.
WithSeparator == {<<97, FullStop, UDiaeresis>>, <<FullStop, UDiaeresis>>,
                  <<UDiaeresis, FullStop, FullStop, ADotBelow>>, <<97, FullStop>>}

UnicodeLabels ==
    {w \in Words \cup LongWords \cup WithSeparator : \E j \in DOMAIN w : w[j] > 127}
        \cup {<<Eszett>>, <<ADiaeresis>>, As(22) \o <<Eszett>>,
              As(21) \o <<100, ZCaron>>, As(19) \o <<ADotBelow, Grave>>}
BytesOf(scalars) == FlattenSeq([j \in DOMAIN scalars |-> UTF8(scalars[j])])

\* Labels are encoded again and again: what they give is kept (`@@` makes the
\* function a table), of two labels too that are no valid output.
EncodedLabels == UnicodeLabels \cup {Xn(<<UDiaeresis>>)}
PunycodeOf ==
    [w \in EncodedLabels |-> Bootstring!RFCEncode(w)]
        @@ (<<Unassigned>> :> Bootstring!RFCEncode(<<Unassigned>>))
MCEncode(scalars) ==
    IF scalars \in DOMAIN PunycodeOf THEN PunycodeOf[scalars] ELSE Bootstring!RFCEncode(scalars)

\* 43902716a: the number of tda and 2^32 more.
TdaWrapped == <<52, 51, 57, 48, 50, 55, 49, 54, 97>>

MCConversionDecoding ==
    LET table == PunycodeOf
    IN  MCDecoding
        @@ (<<45>> \o Tda :> Decodes(<<UDiaeresis, 128>>))
        @@ (TdaWrapped :> Decodes(<<UDiaeresis, 128>>))
        @@ [p \in {table[w] : w \in UnicodeLabels} |->
                Decodes(BytesOf(CHOOSE w \in UnicodeLabels : table[w] = p))]

-----------------------------------------------------------------------------
(* Domain names *)

Joined(p, q) == p \o <<46>> \o q
XNTda == <<88, 78, 45, 45, 84, 68, 65>>

ASCIINames ==
    {<<>>, <<97>>, <<65>>, <<90>>, <<97, 90, 95>>, <<48, 45, 49>>, <<46>>, As(63), As(64),
     XNTda, Joined(XNTda, Xn(Tda)), Joined(<<65>>, Xn(Tda)), Joined(<<97>>, Xn(Tda)),
     Xn(<<45>> \o Tda), Xn(<<57, 57>>), Joined(Xn(Tda), Xn(<<57, 57>>)),
     <<97>> \o Xn(Tda), As(1) \o <<45, 45>>} \cup {Xn(s) : s \in {Tda, TdaWrapped, Zca, Wca, <<>>, ADash}}

Arranged ==
    {Joined(p[1], p[2]) : p \in Words \X FewWords}
        \cup {Joined(p[1], Joined(p[2], p[3])) : p \in FewWords \X FewWords \X FewWords}

Others ==
    {<<SoftHyphen>>, <<UpperUDiaeresis, 65>>, <<97, FullStop, UDiaeresis>>, <<Unassigned>>,
     <<97, Diaeresis>>, Xn(<<UDiaeresis>>), As(22) \o <<Eszett>>,
     Joined(As(63), <<UDiaeresis>>), Joined(As(64), <<UDiaeresis>>),
     Joined(<<UDiaeresis>>, Xn(<<57, 57>>)), Joined(<<UDiaeresis>>, Xn(TdaWrapped))}
        \cup LongWords
        \cup {Joined(w, <<UDiaeresis>>) : w \in LongWords}
        \cup {Xn(PunycodeOf[w]) : w \in WithSeparator}
        \cup {Joined(<<UDiaeresis>>, Xn(PunycodeOf[w])) : w \in WithSeparator}
        \cup {Joined(Xn(PunycodeOf[w]), <<UDiaeresis>>) : w \in WithSeparator}

\* xn--tda, three labels of 63 bytes and one more: 253 to 256 bytes.
LongNames ==
    {Joined(<<UDiaeresis>>, Joined(As(63), Joined(As(63), Joined(As(63), As(m))))) :
        m \in 53 .. 56}

\* Those of MCMainProcessing, with fewer of three labels.
Fewer == {<<UDiaeresis>>, As(10), As(12), As(23), Xn(ADashB)}

MCConversionDomains ==
    ASCIINames \cup Arranged \cup Others \cup LongNames \cup Names(Fewer)

\* The tables and labels are as the theorems about them ask for.
ASSUME ASCIIFits /\ LabelsComeBack

=============================================================================
