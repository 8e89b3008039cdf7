------------------------------ MODULE RFC3492 ------------------------------
(***************************************************************************)
(* Bootstring decoding as RFC 3492, sections 6.1 and 6.2, defines it, over *)
(* the unbounded integers: what `Punycode.decode` is compared with, and    *)
(* what `Punycode.encode` is to write something for.  This module is the   *)
(* reference; it models no code of the repository.                         *)
(***************************************************************************)
EXTENDS PunycodeParameters, Splicing

\* The loop of adapt, from k = 0, and what follows it.
RFCReduce(d) ==
    LET reduced[delta \in Nat] ==
            IF delta > ((Base - TMin) * TMax) \div 2
            THEN Base + reduced[delta \div (Base - TMin)]
            ELSE ((Base - TMin + 1) * delta) \div (delta + Skew)
    IN  reduced[d]

RFCAdapt(delta, numpoints, firsttime) ==
    LET damped == IF firsttime THEN delta \div Damp ELSE delta \div 2
    IN  RFCReduce(damped + (damped \div numpoints))

RFCThreshold(k, bias) ==
    IF k <= bias + TMin THEN TMin ELSE IF k >= bias + TMax THEN TMax ELSE k - bias

-----------------------------------------------------------------------------
(* The decoder reads one character at a time.  Between two of them it is   *)
(* in the middle of a generalised variable-length integer, unless k is     *)
(* Base.  It fails where the number read cannot be written in a word or    *)
(* leads past the scalars ("overflow"), and at a character that is no      *)
(* digit ("bad").                                                          *)

RFCInitial(basic) ==
    [kind |-> "reading", n |-> InitialN, i |-> 0, oldi |-> 0, w |-> 1, k |-> Base,
     bias |-> InitialBias, out |-> basic]

\* The integer ends and brings i to `sum`.
RFCInsert(st, sum) ==
    LET length == Len(st.out) + 1
        newN == st.n + sum \div length
        at == sum % length
    IN  IF sum >= WordSize \/ ~IsScalar(newN) THEN [st EXCEPT !.kind = "overflow"]
        ELSE [kind |-> "reading", n |-> newN, i |-> at + 1, oldi |-> at + 1,
              w |-> 1, k |-> Base,
              bias |-> RFCAdapt(sum - st.oldi, length, st.oldi = 0),
              out |-> Splice(st.out, at, <<newN>>)]

RFCRead(st, c) ==
    IF st.kind # "reading" THEN st
    ELSE IF ~IsDigit(c) THEN [st EXCEPT !.kind = "bad"]
    ELSE LET sum == st.i + DigitOf(c) * st.w
             t == RFCThreshold(st.k, st.bias)
         IN  IF DigitOf(c) < t THEN RFCInsert(st, sum)
             ELSE [st EXCEPT !.i = sum, !.w = @ * (Base - t), !.k = @ + Base]

\* The state after p characters of s, the first `consumed` of which are the
\* basic code points and the delimiter.
RFCState(s, consumed) ==
    LET state[p \in consumed .. Len(s)] ==
            IF p = consumed THEN RFCInitial(SubSeq(s, 1, consumed - 1))
            ELSE RFCRead(state[p - 1], s[p])
    IN  state

RFCOutcome(kind, scalars) == [kind |-> kind, scalars |-> scalars]

RFCDecodeFrom(s, consumed) ==
    LET last == RFCState(s, consumed)[Len(s)]
    IN  IF \E j \in 1 .. consumed - 1 : ~IsASCII(s[j]) THEN RFCOutcome("bad", <<>>)
        ELSE IF last.kind # "reading" THEN RFCOutcome(last.kind, <<>>)
        ELSE IF last.k # Base THEN RFCOutcome("bad", <<>>)
        ELSE RFCOutcome("decoded", last.out)

\* "if more than zero code points were consumed then consume one more (the
\* delimiter, which will be discarded)": a delimiter that nothing precedes
\* is not consumed, and is then no digit.
RFCConsumed(s) ==
    LET hyphens == {d \in 1 .. Len(s) : s[d] = Hyphen}
        last == CHOOSE d \in hyphens : \A e \in hyphens : e <= d
    IN  IF hyphens \subseteq {1} THEN 0 ELSE last

RFCDecode(s) == RFCDecodeFrom(s, RFCConsumed(s))

=============================================================================
