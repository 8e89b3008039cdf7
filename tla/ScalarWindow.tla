---------------------------- MODULE ScalarWindow ----------------------------
(***************************************************************************)
(* The values of `DecodedUnicodeScalars.Subsequence` (Collections/         *)
(* DecodedUnicodeScalars.swift): the window over the decoded scalars of a  *)
(* domain name that is given a range of bytes and shows its scalars.       *)
(*                                                                         *)
(* The scalars enter by where their bytes end: ends[j] is the offset at    *)
(* which the bytes of scalar j end, so that its width is the distance from *)
(* the one before.  The window searches forward only, from where it ended. *)
(***************************************************************************)
EXTENDS Integers, Sequences

EndOf(ends, j) == IF j = 0 THEN 0 ELSE ends[j]

EmptyWindow == [startIndex |-> 0, endIndex |-> 0, endIndexByteOffset |-> 0]

\* Mutant: the bytes of earlier labels are not counted.
MetForgettingOffset(ends, from, offset, bound) ==
    {j \in from + 1 .. Len(ends) : EndOf(ends, j) - EndOf(ends, from) = bound}

\* One loop over the scalars behind `from`: where the bytes counted from
\* `offset` on come to `bound`.  Widths are positive: there is one such
\* place, or none.
Met(ends, from, offset, bound) ==
    {j \in from + 1 .. Len(ends) : offset + (EndOf(ends, j) - EndOf(ends, from)) = bound}

\* set(utf8OffsetRange:).  What is not met leaves its index as it was, and
\* the count of bytes where the loop left it.
SetRange(w, ends, lower, upper) ==
    LET starts == Met(ends, w.endIndex, w.endIndexByteOffset, lower)
        start == IF lower = 0 THEN 0
                 ELSE IF starts = {} THEN w.startIndex ELSE CHOOSE j \in starts : TRUE
        offset == IF lower = 0 THEN w.endIndexByteOffset
                  ELSE IF starts = {}
                  THEN w.endIndexByteOffset + EndOf(ends, Len(ends)) - EndOf(ends, w.endIndex)
                  ELSE lower
        stops == Met(ends, start, offset, upper)
    IN  IF stops = {} THEN [w EXCEPT !.startIndex = start]
        ELSE [startIndex |-> start, endIndex |-> CHOOSE j \in stops : TRUE,
              endIndexByteOffset |-> upper]

\* The scalars a window shows.
Shown(w, scalars) == SubSeq(scalars, w.startIndex + 1, w.endIndex)

=============================================================================
