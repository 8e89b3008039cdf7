-------------------------- MODULE RFC3492Encoding --------------------------
(***************************************************************************)
(* Bootstring encoding as RFC 3492, section 6.3, has it: the reference for *)
(* `Punycode.encode`.  The scalars that are not ASCII are inserted among   *)
(* the ones before them in the order of their values, equal ones from the  *)
(* left.  The insertion of c at place `at` among h scalars is state        *)
(* c * (h + 1) + at of the decoder, and what is written is how many states *)
(* it is away.  An insertion is named by how many scalars it finds, from   *)
(* the ASCII ones alone to all but one.                                    *)
(***************************************************************************)
EXTENDS RFC3492, FiniteSets

\* The scalars of s at the places in P, up to each place.
Kept(s, P) ==
    LET upTo[j \in 0 .. Len(s)] ==
            IF j = 0 THEN <<>>
            ELSE IF j \in P THEN Append(upTo[j - 1], s[j]) ELSE upTo[j - 1]
    IN  upTo

\* What is written of q from the digit at k on.
RFCDigits(bias) ==
    LET digits[q \in Nat] == [k \in Nat |->
            LET t == RFCThreshold(k, bias)
            IN  IF q < t THEN <<ByteOfDigit(q)>>
                ELSE <<ByteOfDigit(t + ((q - t) % (Base - t)))>>
                        \o digits[(q - t) \div (Base - t)][k + Base]]
    IN  digits

ASCIIPlaces(s) == {j \in 1 .. Len(s) : IsASCII(s[j])}
RFCBasics(s) == Cardinality(ASCIIPlaces(s))

\* The places of what is there before the scalar at j is inserted.
RFCEarlier(s, j) ==
    {l \in 1 .. Len(s) : IsASCII(s[l]) \/ s[l] < s[j] \/ (s[l] = s[j] /\ l < j)}

\* Which scalar is inserted among h others, and how many of them are before it.
RFCPlace(s, h) ==
    CHOOSE j \in 1 .. Len(s) : ~IsASCII(s[j]) /\ Cardinality(RFCEarlier(s, j)) = h
RFCAt(s, h) == Cardinality({l \in RFCEarlier(s, RFCPlace(s, h)) : l < RFCPlace(s, h)})

\* The states the decoder has behind it when h scalars are there.
RFCBehind(s, h) ==
    IF h = RFCBasics(s) THEN [n |-> InitialN, i |-> 0]
    ELSE [n |-> s[RFCPlace(s, h - 1)], i |-> RFCAt(s, h - 1) + 1]

RFCDelta(s, h) ==
    (s[RFCPlace(s, h)] - RFCBehind(s, h).n) * (h + 1) + RFCAt(s, h) - RFCBehind(s, h).i

RFCBias(s, h) ==
    IF h = RFCBasics(s) THEN InitialBias
    ELSE RFCAdapt(RFCDelta(s, h - 1), h, h - 1 = RFCBasics(s))

\* What is written when h scalars are there.
RFCWritten(s) ==
    LET basic == Kept(s, ASCIIPlaces(s))[Len(s)]
        written[h \in RFCBasics(s) .. Len(s)] ==
            IF h = RFCBasics(s) THEN basic \o (IF basic = <<>> THEN <<>> ELSE <<Hyphen>>)
            ELSE written[h - 1] \o RFCDigits(RFCBias(s, h - 1))[RFCDelta(s, h - 1)][Base]
    IN  written

RFCEncode(s) == RFCWritten(s)[Len(s)]

=============================================================================
