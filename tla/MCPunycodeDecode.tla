-------------------------- MODULE MCPunycodeDecode --------------------------
(***************************************************************************)
(* PunycodeDecode with four digits and a five-bit word.  The code points   *)
(* are, in order: 0 the hyphen, 1 and 2 the digits of values 2 and 3, 3    *)
(* and 4 the letters of values 0 and 1, 5 another ASCII character, 6 to 8  *)
(* two-byte, 9 to 11 three-byte and 12 to 14 four-byte scalars; 10 is a    *)
(* surrogate.                                                              *)
(***************************************************************************)
EXTENDS PunycodeDecode

Strings(characters, length) == UNION {[1 .. m -> characters] : m \in 0 .. length}

MCLabels == Strings({0, 1, 2, 3, 4, 5, 7}, 4) \cup Strings({0, 2, 3, 4}, 5)
MCEarlier == {<<>>, << <<3, 1>>, <<0, 1>> >>, << <<7, 1>>, <<7, 2>>, <<0, 1>> >>}
MCSurrogates == {10}

=============================================================================
