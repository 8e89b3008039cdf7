-------------------------- MODULE ScalarInsertion --------------------------
(***************************************************************************)
(* Decoding Punycode as its definition sees it: a string of scalars that   *)
(* starts with the basic code points of the input and grows by insertion.  *)
(***************************************************************************)
EXTENDS Splicing

CONSTANTS Scalar, InitialN

VARIABLES input, scalars, phase

vars == <<input, scalars, phase>>

Init == scalars = <<>> /\ phase = "start"

CopyBasic ==
    /\ phase = "start" /\ phase' = "insert"
    /\ \E d \in 0 .. Len(input) :
        /\ scalars' = SubSeq(input, 1, d)
        /\ \A j \in 1 .. d : input[j] < InitialN

Insert ==
    /\ phase = "insert" /\ phase' = "insert"
    /\ \E c \in Scalar, at \in 0 .. Len(scalars) :
        /\ c >= InitialN
        /\ scalars' = Splice(scalars, at, <<c>>)

Fail ==
    /\ phase \in {"start", "insert"} /\ phase' = "failed"
    /\ scalars' = <<>>

End ==
    /\ phase = "insert" /\ phase' \in {"decoded", "undefined"}
    /\ UNCHANGED scalars

Next == (CopyBasic \/ Insert \/ Fail \/ End) /\ UNCHANGED input

Spec == Init /\ [][Next]_vars

=============================================================================
