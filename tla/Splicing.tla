------------------------------ MODULE Splicing ------------------------------
(* Insertion of one sequence into another. *)
EXTENDS Integers, Sequences

\* s with t put in after its first i elements
Splice(s, i, t) == SubSeq(s, 1, i) \o t \o SubSeq(s, i + 1, Len(s))

=============================================================================
