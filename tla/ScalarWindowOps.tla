-------------------------- MODULE ScalarWindowOps --------------------------
(***************************************************************************)
(* A window over decoded scalars as its callers are to use it: the domain  *)
(* name is decoded once, then the window is set to some of its labels,     *)
(* from left to right.  Labels in between it is never told of, and         *)
(* separators take one scalar of any width.  Conversions implements this.  *)
(***************************************************************************)
EXTENDS ScalarWindow

VARIABLES
    ends,       \* the domain name, by where its scalars' bytes end
    window,     \* decodedUnicodeScalars
    passed,     \* scalars up to and including the last label's separator
    range       \* the bytes last asked for, <<lower, upper>>

vars == <<ends, window, passed, range>>

\* Where the scalars of a text end: none is without bytes.
Rising(e) ==
    /\ e \in Seq(Nat)
    /\ \A i, j \in 0 .. Len(e) : i < j => EndOf(e, i) < EndOf(e, j)

Init ==
    /\ ends = <<>>
    /\ window = EmptyWindow
    /\ passed = 0
    /\ range = <<0, 0>>

\* (TLC computes a bound value once.)
Fill ==
    /\ ends = <<>> /\ passed = 0
    /\ \A e \in {ends'} : Rising(e)
    /\ UNCHANGED <<window, passed, range>>

\* A label the window is not set to.
PassLabel ==
    /\ passed' \in Nat /\ passed' > passed
    /\ UNCHANGED <<ends, window, range>>

\* A label that is not all ASCII: its scalars are first + 1 .. last.
SetToLabel(first, last) ==
    /\ passed' \in Nat /\ passed' > last
    /\ range' = <<EndOf(ends, first), EndOf(ends, last)>>
    /\ window' = SetRange(window, ends, EndOf(ends, first), EndOf(ends, last))
    /\ UNCHANGED ends

Next ==
    \/ Fill
    \/ PassLabel
    \/ \E first \in passed .. Len(ends) - 1 : \E last \in first + 1 .. Len(ends) :
            SetToLabel(first, last)

Spec == Init /\ [][Next]_vars

-----------------------------------------------------------------------------

WindowType == [startIndex : Nat, endIndex : Nat, endIndexByteOffset : Nat]

\* The indices of the window stay within the scalars.
TypeOK ==
    /\ ends \in Seq(Nat)
    /\ window \in WindowType /\ window.endIndex <= Len(ends)
    /\ passed \in Nat /\ range \in Nat \X Nat

\* The window shows exactly the scalars whose bytes lie in the range that
\* was asked for, whatever labels came before or were left out: the byte
\* offset kept between the calls belongs to the index kept with it.
WindowIsLabel ==
    \A j \in 1 .. Len(ends) :
        j \in window.startIndex + 1 .. window.endIndex
        <=> EndOf(ends, j - 1) >= range[1] /\ EndOf(ends, j) <= range[2]

=============================================================================
