----------------------------- MODULE ByteString -----------------------------
(***************************************************************************)
(* What a TinyBuffer promises: a string of bytes, whatever its storage.    *)
(* Every operation completes, except that normalising a text whose normal  *)
(* form is longer than the text may stop the process instead.              *)
(***************************************************************************)
EXTENDS Integers, Sequences

CONSTANTS
    Strings,    \* the byte strings an operation can be given
    Normal(_)   \* the normal form of a byte string

VARIABLES
    bytes,      \* the contents
    stopped     \* the process has been stopped by a failed precondition

vars == <<bytes, stopped>>

Init == bytes = <<>> /\ stopped = FALSE

AppendBytes ==
    /\ \E s \in Strings : bytes' = bytes \o s
    /\ stopped' = FALSE

InsertBytes ==
    /\ \E s \in Strings, i \in 0 .. Len(bytes) :
        bytes' = SubSeq(bytes, 1, i) \o s \o SubSeq(bytes, i + 1, Len(bytes))
    /\ stopped' = FALSE

Clear == bytes' = <<>> /\ stopped' = FALSE

Normalise == bytes' = Normal(bytes) /\ stopped' = FALSE

Stop ==
    /\ Len(Normal(bytes)) > Len(bytes)
    /\ stopped' = TRUE /\ bytes' = bytes

Next == ~stopped /\ (AppendBytes \/ InsertBytes \/ Clear \/ Normalise \/ Stop)

Spec == Init /\ [][Next]_vars

=============================================================================
