----------------------- MODULE ScalarWindowOps_proofs -----------------------
(***************************************************************************)
(* Theorems about the window over decoded scalars, for texts of any length *)
(* and labels in any number.                                               *)
(***************************************************************************)
EXTENDS ScalarWindowOps, TLAPS

(***************************************************************************)
(* The inductive invariant: the byte offset the window keeps is the one at *)
(* which its last scalar ends, the range is that of its scalars, and no    *)
(* label to come starts before it.                                         *)
(***************************************************************************)
Kept ==
    /\ window \in WindowType
    /\ window.startIndex <= window.endIndex /\ window.endIndex <= Len(ends)
    /\ window.endIndexByteOffset = EndOf(ends, window.endIndex)
    /\ range = <<EndOf(ends, window.startIndex), EndOf(ends, window.endIndex)>>
    /\ passed \in Nat
    /\ window.endIndex < passed \/ (passed = 0 /\ window.endIndex = 0)

IndInv == Rising(ends) /\ Kept

LEMMA Ends ==
    ASSUME NEW e, Rising(e), NEW j \in 0 .. Len(e)
    PROVE  EndOf(e, j) \in Nat /\ Len(e) \in Nat
  BY DEF Rising, EndOf

LEMMA EndsDiffer ==
    ASSUME NEW e, Rising(e), NEW i \in 0 .. Len(e), NEW j \in 0 .. Len(e),
           EndOf(e, i) = EndOf(e, j)
    PROVE  i = j
<1>1. Len(e) \in Nat /\ EndOf(e, i) \in Nat /\ EndOf(e, j) \in Nat
  BY Ends
<1>2. ~(i < j) /\ ~(j < i)
  BY <1>1 DEF Rising
<1> QED
  BY <1>1, <1>2

\* A loop that counts from the right offset stops where the bound is met,
\* and nowhere else.
LEMMA MeetsOnce ==
    ASSUME NEW e, Rising(e), NEW from \in 0 .. Len(e), NEW j \in from + 1 .. Len(e)
    PROVE  Met(e, from, EndOf(e, from), EndOf(e, j)) = {j}
<1> DEFINE S == Met(e, from, EndOf(e, from), EndOf(e, j))
<1>1. Len(e) \in Nat /\ EndOf(e, from) \in Nat
  BY Ends
<1>2. \A l \in from + 1 .. Len(e) : l \in 0 .. Len(e) /\ EndOf(e, l) \in Nat
  <2> SUFFICES ASSUME NEW l \in from + 1 .. Len(e)
               PROVE  l \in 0 .. Len(e) /\ EndOf(e, l) \in Nat
    OBVIOUS
  <2>1. l \in 0 .. Len(e)
    BY <1>1
  <2> QED
    BY <2>1, Ends
<1>3. \A l \in from + 1 .. Len(e) :
        EndOf(e, from) + (EndOf(e, l) - EndOf(e, from)) = EndOf(e, l)
  BY <1>1, <1>2
<1>4. S = {l \in from + 1 .. Len(e) : EndOf(e, l) = EndOf(e, j)}
  BY <1>3 DEF Met
<1>5. \A l \in from + 1 .. Len(e) : EndOf(e, l) = EndOf(e, j) => l = j
  BY <1>2, EndsDiffer
<1> HIDE DEF S
<1>6. S = {j}
  BY <1>4, <1>5
<1> QED
  BY <1>6 DEF S

\* What SetRange makes of a window whose offset belongs to its index, given
\* the bytes of the scalars first + 1 .. last behind it.
LEMMA SetRangeFindsLabel ==
    ASSUME NEW e, Rising(e), NEW w \in WindowType,
           w.endIndex <= Len(e), w.endIndexByteOffset = EndOf(e, w.endIndex),
           NEW first \in 0 .. Len(e), NEW last \in first + 1 .. Len(e),
           w.endIndex < first \/ (w.endIndex = 0 /\ first = 0)
    PROVE  SetRange(w, e, EndOf(e, first), EndOf(e, last))
             = [startIndex |-> first, endIndex |-> last,
                endIndexByteOffset |-> EndOf(e, last)]
<1> DEFINE lower == EndOf(e, first)
           upper == EndOf(e, last)
           starts == Met(e, w.endIndex, w.endIndexByteOffset, lower)
           start == IF lower = 0 THEN 0
                    ELSE IF starts = {} THEN w.startIndex ELSE CHOOSE j \in starts : TRUE
           offset == IF lower = 0 THEN w.endIndexByteOffset
                     ELSE IF starts = {}
                     THEN w.endIndexByteOffset + EndOf(e, Len(e)) - EndOf(e, w.endIndex)
                     ELSE lower
           stops == Met(e, start, offset, upper)
<1>1. Len(e) \in Nat /\ w.endIndex \in 0 .. Len(e) /\ 0 \in 0 .. Len(e) /\ EndOf(e, 0) = 0
  <2>1. Len(e) \in Nat
    BY DEF Rising
  <2> QED
    BY <2>1 DEF WindowType, EndOf
<1>2. lower = 0 => first = 0
  BY <1>1, EndsDiffer
<1>3. start = first /\ offset = EndOf(e, first)
  <2>1. CASE lower = 0
    <3>1. first = 0 /\ w.endIndex = 0
      BY <1>1, <1>2, <2>1 DEF WindowType
    <3> QED
      BY <1>1, <2>1, <3>1
  <2>2. CASE lower # 0
    <3>1. first \in w.endIndex + 1 .. Len(e)
      BY <1>1, <2>2
    <3>2. starts = {first}
      BY <1>1, <3>1, MeetsOnce
    <3> HIDE DEF starts
    <3>3. starts # {} /\ (CHOOSE j \in starts : TRUE) = first
      BY <3>2
    <3> QED
      BY <2>2, <3>3
  <2> QED
    BY <2>1, <2>2
<1>4. stops = {last}
  <2>1. Met(e, first, EndOf(e, first), EndOf(e, last)) = {last}
    BY MeetsOnce
  <2> HIDE DEF start, offset
  <2> QED
    BY <1>3, <2>1
<1> HIDE DEF stops
<1>5. stops # {} /\ (CHOOSE j \in stops : TRUE) = last
  BY <1>4
<1> QED
  BY <1>3, <1>5 DEF SetRange, stops

THEOREM Invariant == Spec => []IndInv
<1>1. Init => IndInv
  <2> SUFFICES ASSUME Init PROVE IndInv
    OBVIOUS
  <2>1. ends = <<>> /\ Len(ends) = 0 /\ ends \in Seq(Nat)
    BY DEF Init
  <2>2. Rising(ends)
    BY <2>1 DEF Rising
  <2> QED
    BY <2>1, <2>2 DEF Init, IndInv, Kept, EmptyWindow, WindowType, EndOf
<1>2. IndInv /\ [Next]_vars => IndInv'
  <2> SUFFICES ASSUME IndInv, [Next]_vars PROVE IndInv'
    OBVIOUS
  <2>1. Rising(ends) /\ Len(ends) \in Nat
    BY DEF IndInv, Rising
  <2>2. CASE \E first \in passed .. Len(ends) - 1 : \E last \in first + 1 .. Len(ends) :
                SetToLabel(first, last)
    <3>1. PICK first \in passed .. Len(ends) - 1 :
            \E last \in first + 1 .. Len(ends) : SetToLabel(first, last)
      BY <2>2
    <3>2. PICK last \in first + 1 .. Len(ends) : SetToLabel(first, last)
      BY <3>1
    <3>3. /\ first \in 0 .. Len(ends) /\ last \in 0 .. Len(ends) /\ first < last
          /\ window.endIndex < first \/ (window.endIndex = 0 /\ first = 0)
      BY <2>1, <3>1, <3>2 DEF IndInv, Kept, WindowType
    <3>4. window' = [startIndex |-> first, endIndex |-> last,
                     endIndexByteOffset |-> EndOf(ends, last)]
      BY <2>1, <3>2, <3>3, SetRangeFindsLabel DEF IndInv, Kept, SetToLabel
    <3>5. EndOf(ends, last) \in Nat
      BY <2>1, <3>3, Ends
    <3>6. last < passed' /\ passed' \in Nat
      BY <3>2 DEF SetToLabel
    <3> QED
      BY <2>1, <3>2, <3>3, <3>4, <3>5, <3>6 DEF IndInv, Kept, SetToLabel, WindowType
  <2>3. CASE Fill
    <3>1. Rising(ends') /\ Len(ends') \in Nat
      BY <2>3 DEF Fill, Rising
    <3>2. window = [startIndex |-> 0, endIndex |-> 0, endIndexByteOffset |-> 0]
      BY <2>1, <2>3 DEF IndInv, Kept, Fill, WindowType, EndOf
    <3> QED
      BY <2>3, <3>1, <3>2 DEF IndInv, Kept, Fill, WindowType, EndOf
  <2>4. CASE PassLabel
    BY <2>1, <2>4 DEF IndInv, Kept, PassLabel, WindowType
  <2>5. CASE UNCHANGED vars
    BY <2>5 DEF IndInv, Kept, vars, WindowType
  <2> QED
    BY <2>2, <2>3, <2>4, <2>5 DEF Next
<1> QED
  BY <1>1, <1>2, PTL DEF Spec

\* The window's indices stay within the scalars.
THEOREM TypeCorrect == Spec => []TypeOK
<1>1. IndInv => TypeOK
  <2> SUFFICES ASSUME IndInv PROVE TypeOK
    OBVIOUS
  <2>1. Rising(ends) /\ Len(ends) \in Nat
    BY DEF IndInv, Rising
  <2>2. /\ window.startIndex \in 0 .. Len(ends) /\ window.endIndex \in 0 .. Len(ends)
    BY <2>1 DEF IndInv, Kept, WindowType
  <2>3. range \in Nat \X Nat
    BY <2>1, <2>2, Ends DEF IndInv, Kept
  <2> QED
    BY <2>1, <2>3 DEF IndInv, Kept, TypeOK, Rising
<1> QED
  BY <1>1, Invariant, PTL

\* The window shows the scalars of the label it was last set to, whatever
\* the widths of the scalars and whichever labels were left out before.
THEOREM WindowAlwaysLabel == Spec => []WindowIsLabel
<1>1. IndInv => WindowIsLabel
  <2> SUFFICES ASSUME IndInv, NEW j \in 1 .. Len(ends)
               PROVE  j \in window.startIndex + 1 .. window.endIndex
                      <=> EndOf(ends, j - 1) >= range[1] /\ EndOf(ends, j) <= range[2]
    BY DEF WindowIsLabel
  <2> DEFINE a == window.startIndex
             b == window.endIndex
  <2>1. Rising(ends) /\ Len(ends) \in Nat
    BY DEF IndInv, Rising
  <2>2. /\ a \in 0 .. Len(ends) /\ b \in 0 .. Len(ends)
        /\ j \in 0 .. Len(ends) /\ j - 1 \in 0 .. Len(ends)
        /\ range[1] = EndOf(ends, a) /\ range[2] = EndOf(ends, b)
    BY <2>1 DEF IndInv, Kept, WindowType
  <2> HIDE DEF a, b
  <2>3. /\ EndOf(ends, a) \in Nat /\ EndOf(ends, b) \in Nat
        /\ EndOf(ends, j) \in Nat /\ EndOf(ends, j - 1) \in Nat
    BY <2>1, <2>2, Ends
  <2>4. \A l, m \in 0 .. Len(ends) : l < m => EndOf(ends, l) < EndOf(ends, m)
    BY <2>1 DEF Rising
  <2>5. EndOf(ends, j - 1) >= EndOf(ends, a) <=> j - 1 >= a
    <3>1. j - 1 < a => EndOf(ends, j - 1) < EndOf(ends, a)
      BY <2>2, <2>4
    <3>2. a < j - 1 => EndOf(ends, a) < EndOf(ends, j - 1)
      BY <2>2, <2>4
    <3>3. j - 1 < a \/ a < j - 1 \/ a = j - 1
      BY <2>2
    <3> QED
      BY <2>2, <2>3, <3>1, <3>2, <3>3
  <2>6. EndOf(ends, j) <= EndOf(ends, b) <=> j <= b
    <3>1. b < j => EndOf(ends, b) < EndOf(ends, j)
      BY <2>2, <2>4
    <3>2. j < b => EndOf(ends, j) < EndOf(ends, b)
      BY <2>2, <2>4
    <3>3. b < j \/ j < b \/ j = b
      BY <2>2
    <3> QED
      BY <2>2, <2>3, <3>1, <3>2, <3>3
  <2> QED
    BY <2>2, <2>5, <2>6 DEF a, b
<1> QED
  BY <1>1, Invariant, PTL

=============================================================================
