-------------------------- MODULE MCMainProcessing --------------------------
(***************************************************************************)
(* MainProcessing with the real buffer sizes, markers and Punycode, on     *)
(* domain names of one label out of a pool, of two of which one is out of  *)
(* a smaller pool, and of three out of the smallest.  Scalars have their   *)
(* Unicode values; every byte of a scalar but the first is 128.            *)
(***************************************************************************)
EXTENDS MainProcessing

MCConfigurations ==
    [ignoreInvalidPunycode : BOOLEAN, checkHyphens : BOOLEAN, useSTD3ASCIIRules : BOOLEAN]

ADiaeresis == 228
AGrave == 224
Eszett == 223
UpperUDiaeresis == 220
UDiaeresis == 252
Diaeresis == 776          \* combining marks
Grave == 768
DotBelow == 803
ADotBelow == 7841
SoftHyphen == 173
Unassigned == 888
Dz == 454                 \* one scalar, mapped to d and z with caron
ZCaron == 382
FullStop == 12290         \* ideographic

NonASCII == {ADiaeresis, AGrave, Eszett, UpperUDiaeresis, UDiaeresis, Diaeresis, Grave,
             DotBelow, ADotBelow, SoftHyphen, Unassigned, Dz, ZCaron, FullStop}
MCByte == 0 .. 128 \cup NonASCII

MCMarks == {Diaeresis, Grave, DotBelow}
MCUnicodeScalar == (0 .. 127) \cup NonASCII

\* Entries in the order of the first scalar that has them, as generated.
Entry(type, bytes) ==
    [type |-> type, mapped_utf8_bytes |-> bytes, mapped_byte_count |-> Len(bytes)]
MCMappingTable == [j \in 0 .. 32 |->
    CASE j = 0 -> Entry(IDNA_RESULT_VALID, <<>>)
      [] j \in 1 .. 26 -> Entry(IDNA_RESULT_MAPPED, <<96 + j>>)
      [] j = 27 -> Entry(IDNA_RESULT_IGNORED, <<>>)
      [] j = 28 -> Entry(IDNA_RESULT_MAPPED, <<UDiaeresis, 128>>)
      [] j = 29 -> Entry(IDNA_RESULT_DEVIATION, <<115, 115>>)
      [] j = 30 -> Entry(IDNA_RESULT_MAPPED, <<100, ZCaron, 128>>)
      [] j = 31 -> Entry(IDNA_RESULT_DISALLOWED, <<>>)
      [] j = 32 -> Entry(IDNA_RESULT_MAPPED, <<46>>)]
MCLookupTable == [c \in MCUnicodeScalar |->
    CASE c \in 65 .. 90 -> c - 64
      [] c = SoftHyphen -> 27
      [] c = UpperUDiaeresis -> 28
      [] c = Eszett -> 29
      [] c = Dz -> 30
      [] c = Unassigned -> 31
      [] c = FullStop -> 32
      [] OTHER -> 0]
MCLettersDigitsHyphen == (97 .. 122) \cup (48 .. 57) \cup {45}

-----------------------------------------------------------------------------
(* Punycode and what it decodes to, in bytes. *)

Decodes(bytes) == [kind |-> "decoded", bytes |-> bytes]
Empties(bytes) == [kind |-> "emptied", bytes |-> bytes]

Tda == <<116, 100, 97>>
Zca == <<122, 99, 97>>
Wca == <<119, 99, 97>>
ADash == <<97, 45>>
ADashB == <<97, 45, 98>>
ACcb == <<97, 45, 99, 99, 98>>
ABcb == <<97, 45, 98, 99, 98>>
Xn3ra == <<120, 110, 45, 45, 45, 51, 114, 97>>
PastTheLast == <<57, 57, 57, 57, 97>>
Wrapping == <<115, 122, 57, 48, 50, 55, 49, 54, 97>>

MCDecoding ==
    Tda :> Decodes(<<UDiaeresis, 128>>)
    @@ Zca :> Decodes(<<Eszett, 128>>)
    @@ Wca :> Decodes(<<UpperUDiaeresis, 128>>)
    @@ <<>> :> Decodes(<<>>)
    @@ ADash :> Decodes(<<97>>)
    @@ ACcb :> Decodes(<<97, Diaeresis, 128>>)
    @@ ABcb :> Decodes(<<Diaeresis, 128, 97>>)
    @@ Xn3ra :> Decodes(<<120, 110, 45, 45, UDiaeresis, 128>>)
    @@ ADashB :> Empties(<<97>>)
    @@ <<57, 57>> :> Empties(<<>>)
    @@ <<UDiaeresis, 128>> :> Empties(<<>>)
    @@ Wrapping :> [kind |-> "untouched", bytes |-> <<>>]
    @@ PastTheLast :> [kind |-> "unwrapped", bytes |-> <<>>]

-----------------------------------------------------------------------------
(* Domain names *)

Xn(s) == <<120, 110, 45, 45>> \o s
As(m) == [j \in 1 .. m |-> 97]

Plain == {
    <<>>, <<65>>, <<UpperUDiaeresis>>, <<97, Diaeresis>>, <<Diaeresis, 97>>,
    <<Unassigned>>, <<SoftHyphen>>, <<45, 97>>, <<97, 98, 45, 45>>, <<95>>,
    <<97, FullStop, 97>>, As(19) \o <<AGrave, DotBelow>>,
    As(21) \o <<Dz>>}

Marked == {Xn(s) : s \in DOMAIN MCDecoding \ {<<UDiaeresis, 128>>}}
            \cup {Xn(<<UDiaeresis>>), <<88, 78, 45, 45>> \o Tda}

Few == {<<UDiaeresis>>, As(10), As(12), As(23), Xn(<<>>), Xn(Tda), Xn(ADashB), Xn(Wrapping)}

\* Only these get past the shortcuts for ASCII (_toASCII 12-20, _toUnicode
\* 216-228).
GetsHere(d) ==
    \/ \E j \in DOMAIN d : d[j] >= ASCIILimit
    \/ \E from \in LabelStarts(d) : HasMarkerPrefix(LabelAt(d, from))

Names(few) ==
    LET pool == Plain \cup Marked \cup Few
        names == pool
            \cup {p[1] \o <<46>> \o p[2] : p \in (Few \X pool) \cup (pool \X Few)}
            \cup {p[1] \o <<46>> \o p[2] \o <<46>> \o p[3] : p \in few \X few \X few}
    IN  {d \in names : GetsHere(d)}

MCDomains == Names(Few)

-----------------------------------------------------------------------------
(* NFC: a and the diaeresis compose; a with grave, dot below comes apart   *)
(* and is put together the other way, one byte longer.  Only the pool has  *)
(* such labels, so that at most one of them is in a text.                  *)

MCNFCTable ==
    LET others == (Few \ {<<UDiaeresis>>}) \cup {<<UDiaeresis, 128>>}
        before == {<<>>} \cup {f \o <<46>> : f \in others}
        after == {<<>>} \cup {<<46>> \o f : f \in others}
    IN  {<<p[1] \o <<97, Diaeresis, 128>> \o p[2], p[1] \o <<ADiaeresis, 128>> \o p[2]>> :
            p \in before \X after}
        \cup
        {<<p[1] \o As(19) \o <<AGrave, 128, DotBelow, 128>> \o p[2],
           p[1] \o As(19) \o <<ADotBelow, 128, 128, Grave, 128>> \o p[2]>> :
            p \in before \X after}

\* The tables are as the theorems about them ask for.
ASSUME DataFits

=============================================================================
