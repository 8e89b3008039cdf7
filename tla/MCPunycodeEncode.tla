-------------------------- MODULE MCPunycodeEncode --------------------------
(***************************************************************************)
(* PunycodeEncode with four digits, a word of 40 values and the code       *)
(* points of MCPunycodeDecode, into buffers that hold six bytes inline.    *)
(* Labels of five scalars can make delta wrap.                             *)
(***************************************************************************)
EXTENDS PunycodeEncode

Strings(characters, length) == UNION {[1 .. m -> characters] : m \in 0 .. length}

MCLabels == Strings({0, 1, 3, 6, 7, 9, 14}, 4) \cup Strings({3, 6, 14}, 5)
MCSurrogates == {10}

\* Fresh ones, inline and on the heap, and ones an earlier label has used.
MCReused == {
    EmptyInline, Inline([c \in 0 .. 6 |-> IF c = CountCell THEN 3 ELSE 5]),
    Heap(<<>>, 9), Heap(<<5, 0, 1>>, 9)}

=============================================================================
