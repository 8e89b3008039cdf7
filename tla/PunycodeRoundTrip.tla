------------------------- MODULE PunycodeRoundTrip -------------------------
(***************************************************************************)
(* PunycodeEncode followed by PunycodeDecode: a label of ToASCII, and what *)
(* a later conversion makes of the label that came out.  `convertAndVali-  *)
(* dateLabel` drops the "xn--" that `appendLabel` put before the bytes, so *)
(* that the decoder's input is what the encoder wrote.  Inputs of other    *)
(* origin are decoded too.                                                 *)
(***************************************************************************)
EXTENDS PunycodeDecode

CONSTANTS
    Texts,          \* labels to encode, as sequences of scalars
    Reused,         \* as in PunycodeEncode
    Byte, InlineCapacity, Threshold, ASCIILimit, NFCTable   \* as in TinyBuffers

ASSUME BufferAssumption ==
    /\ InlineCapacity \in Nat \ {0}
    /\ Threshold \in Nat /\ Threshold >= InlineCapacity
    /\ Byte \subseteq Nat /\ 0 .. InlineCapacity + 1 \subseteq Byte
    /\ 0 .. InitialN - 1 \subseteq Byte
    /\ ASCIILimit \in Nat
    /\ NFCTable \subseteq Seq(Byte) \X Seq(Byte)
ASSUME TextsAssumption ==
    /\ Texts \subseteq Seq(Nat)
    /\ \A s \in Texts : \A j \in 1 .. Len(s) : IsScalar(s[j])

VARIABLES
    turn,           \* who is called
    ePC, label, ePos, eN, eDelta, eBias, basics, handled, q, eK, spread, eKAdapt, output

encoderVars ==
    <<ePC, label, ePos, eN, eDelta, eBias, basics, handled, q, eK, spread, eKAdapt, output>>
roundVars == <<vars, encoderVars, turn>>

Encoder == INSTANCE PunycodeEncode
    WITH Labels <- Texts, pc <- ePC, pos <- ePos, n <- eN, delta <- eDelta, bias <- eBias,
         k <- eK, kAdapt <- eKAdapt

ASSUME EncoderAssumption ==
    /\ Reused \subseteq Encoder!Buffer
    /\ \A p \in NFCTable : ~Encoder!AllASCII(p[1])

\* While there is nothing to decode yet the input is <<>>, one of Labels.
RoundTripInit ==
    /\ Init
    /\ Encoder!Init
    /\ \/ turn = "encode" /\ label # <<>> /\ input = <<>>
       \/ turn = "decode" /\ label = <<>> /\ output = Encoder!EmptyInline

EncoderStep ==
    /\ turn = "encode"
    /\ Encoder!Next
    /\ UNCHANGED <<vars, turn>>

\* Mutant: one byte too many is dropped with the marker.
HandOverOneTooFew ==
    /\ turn = "encode" /\ ePC = "done" /\ Encoder!CountInBounds(output)
    /\ Len(Encoder!Contents(output)) + 4 <= Capacity
    /\ turn' = "decode"
    /\ input' = Tail(Encoder!Contents(output))
    /\ UNCHANGED <<encoderVars, pc, pos, n, i, bias, oldi, w, k, delta, kAdapt,
                   buffer, startIndex, index, count>>

\* Wherever the bytes can be read: an overwritten count makes no sense.  The
\* later conversion has made its index array as long as this label.
HandOver ==
    /\ turn = "encode" /\ ePC = "done" /\ Encoder!CountInBounds(output)
    /\ Len(Encoder!Contents(output)) + 4 <= Capacity
    /\ turn' = "decode"
    /\ input' = Encoder!Contents(output)
    /\ UNCHANGED <<encoderVars, pc, pos, n, i, bias, oldi, w, k, delta, kAdapt,
                   buffer, startIndex, index, count>>

DecoderStep ==
    /\ turn = "decode"
    /\ Next
    /\ UNCHANGED <<encoderVars, turn>>

RoundTripNext ==
    \/ EncoderStep
    \/ HandOver
    \/ DecoderStep

RoundTripSpec == RoundTripInit /\ [][RoundTripNext]_roundVars

-----------------------------------------------------------------------------

\* What is written for a label whose deltas fit the word decodes to that
\* label, on either side of the widths of UTF-8 and of the surrogates: in one
\* decoder that the bytes of earlier labels and of the index array do not
\* disturb.
RoundTrip ==
    label # <<>> /\ Encoder!ShortEnough /\ turn = "decode" /\ pc \in Final
    => pc = "decoded" /\ Decoded = label

\* The encoder writes what RFC 3492 has it write, wherever that fits.
EncodesAsRFC == label # <<>> => Encoder!EncodesAsRFC

=============================================================================
