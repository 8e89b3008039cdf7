------------------------- MODULE TinyBuffers_proofs -------------------------
(***************************************************************************)
(* Lemmas about TinyBuffers, for every inline capacity, threshold, byte    *)
(* alphabet and normal form: operation by operation, what becomes of the   *)
(* contents, and that a good buffer stays good.                            *)
(***************************************************************************)
EXTENDS TinyBuffers, Splicing_proofs

GoodBuffer(b) == b \in Buffer /\ CountInBounds(b) /\ WithinCapacity(b)

-----------------------------------------------------------------------------
(* Reading a buffer. *)

\* An inline buffer's contents are the string its first cells spell.
LEMMA InlineReads ==
    ASSUME NEW cells \in Cells, NEW t \in Seq(Byte),
           Len(t) = cells[CountCell], Len(t) <= InlineCapacity,
           \A j \in 1 .. Len(t) : cells[j - 1] = t[j]
    PROVE  /\ GoodBuffer(Inline(cells))
           /\ Contents(Inline(cells)) = t
<1> DEFINE b == Inline(cells)
<1>1. b \in InlineBuffer /\ IsInline(b) /\ b.cells = cells
  BY DEF Inline, InlineBuffer, IsInline
<1>2. GoodBuffer(b)
  BY <1>1 DEF GoodBuffer, Buffer, CountInBounds, WithinCapacity
<1>3. Contents(b) = [j \in 1 .. Len(t) |-> cells[j - 1]]
  BY <1>1 DEF Contents
<1>4. [j \in 1 .. Len(t) |-> cells[j - 1]] = [j \in 1 .. Len(t) |-> t[j]]
  OBVIOUS
<1>5. t = [j \in 1 .. Len(t) |-> t[j]]
  BY LenProperties
<1> QED
  BY <1>2, <1>3, <1>4, <1>5

\* A heap buffer's contents are its array's.
LEMMA HeapReads ==
    ASSUME NEW t \in Seq(Byte), NEW capacity \in Nat, Len(t) <= capacity
    PROVE  /\ GoodBuffer(Heap(t, capacity))
           /\ Contents(Heap(t, capacity)) = t
  BY DEF Heap, HeapBuffer, GoodBuffer, Buffer, CountInBounds, WithinCapacity,
         IsInline, Contents

\* What is known of a good buffer, by representation.
LEMMA InlineFacts ==
    ASSUME NEW b, GoodBuffer(b), IsInline(b)
    PROVE  /\ b = Inline(b.cells)
           /\ b.cells \in Cells
           /\ b.cells[CountCell] \in 0 .. InlineCapacity
           /\ \A c \in 0 .. InlineCapacity : b.cells[c] \in Byte
           /\ Contents(b) \in Seq(Byte)
           /\ Len(Contents(b)) = b.cells[CountCell]
           /\ \A j \in 1 .. Len(Contents(b)) : Contents(b)[j] = b.cells[j - 1]
<1>1. b = Inline(b.cells) /\ b.cells \in Cells
  BY DEF GoodBuffer, Buffer, InlineBuffer, HeapBuffer, IsInline, Inline
<1>2. \A c \in 0 .. InlineCapacity : b.cells[c] \in Byte
  BY <1>1 DEF Cells
<1>3. b.cells[CountCell] \in 0 .. InlineCapacity
  <2>1. CountCell \in 0 .. InlineCapacity
    BY InlineCapacityAssumption DEF CountCell
  <2>2. b.cells[CountCell] \in Nat
    BY <1>2, <2>1, ByteAssumption
  <2>3. b.cells[CountCell] <= InlineCapacity
    BY DEF GoodBuffer, CountInBounds
  <2> QED
    BY <2>2, <2>3, InlineCapacityAssumption
<1>4. Contents(b) = [j \in 1 .. b.cells[CountCell] |-> b.cells[j - 1]]
  BY DEF Contents
<1>5. \A j \in 1 .. b.cells[CountCell] : b.cells[j - 1] \in Byte
  BY <1>2, <1>3, InlineCapacityAssumption
<1>6. [j \in 1 .. b.cells[CountCell] |-> b.cells[j - 1]] \in Seq(Byte)
  BY <1>3, <1>5, SMT
<1> QED
  BY <1>1, <1>2, <1>3, <1>4, <1>6

LEMMA HeapFacts ==
    ASSUME NEW b, GoodBuffer(b), ~IsInline(b)
    PROVE  /\ b = Heap(b.bytes, b.capacity)
           /\ b.bytes \in Seq(Byte) /\ b.capacity \in Nat
           /\ Len(b.bytes) <= b.capacity
           /\ Contents(b) = b.bytes
  BY DEF GoodBuffer, Buffer, InlineBuffer, HeapBuffer, IsInline, Heap,
         WithinCapacity, Contents

LEMMA ContentsType ==
    ASSUME NEW b, GoodBuffer(b)
    PROVE  /\ Contents(b) \in Seq(Byte)
           /\ Count(b) = Len(Contents(b))
           /\ Count(b) \in Nat
  BY InlineFacts, HeapFacts, LenProperties DEF Count

LEMMA EmptyReads ==
    GoodBuffer(EmptyInline) /\ Contents(EmptyInline) = <<>>
<1>1. [c \in 0 .. InlineCapacity |-> 0] \in Cells
  BY ByteAssumption, InlineCapacityAssumption DEF Cells
<1>2. <<>> \in Seq(Byte) /\ Len(<<>>) = 0
  BY EmptySeq
<1>3. [c \in 0 .. InlineCapacity |-> 0][CountCell] = 0
  BY InlineCapacityAssumption DEF CountCell
<1> QED
  BY <1>1, <1>2, <1>3, InlineReads, InlineCapacityAssumption DEF EmptyInline

-----------------------------------------------------------------------------
(* Writing a buffer. *)

\* Appending in place spells the old string and then the new one; only the
\* cells past the count and the count byte change.
LEMMA EditAppendReads ==
    ASSUME NEW b, GoodBuffer(b), IsInline(b), NEW s \in Seq(Byte),
           Count(b) + Len(s) <= InlineCapacity
    PROVE  /\ GoodBuffer(Inline(EditAppend(b.cells, s)))
           /\ Contents(Inline(EditAppend(b.cells, s))) = Contents(b) \o s
<1> DEFINE count == b.cells[CountCell]
           t == Contents(b) \o s
           cells == EditAppend(b.cells, s)
<1>1. /\ b.cells \in Cells /\ count \in 0 .. InlineCapacity
      /\ \A c \in 0 .. InlineCapacity : b.cells[c] \in Byte
      /\ Contents(b) \in Seq(Byte) /\ Len(Contents(b)) = count
      /\ \A j \in 1 .. count : Contents(b)[j] = b.cells[j - 1]
  BY InlineFacts
<1>2. Len(s) \in Nat /\ count + Len(s) <= InlineCapacity
  BY LenProperties DEF Count
<1>3. /\ t \in Seq(Byte) /\ Len(t) = count + Len(s)
      /\ \A j \in 1 .. count + Len(s) :
            t[j] = IF j <= count THEN Contents(b)[j] ELSE s[j - count]
  BY <1>1, ConcatProperties
<1>4. \A c \in 0 .. InlineCapacity :
        cells[c] = IF c = CountCell THEN count + Len(s)
                   ELSE IF c \in count .. count + Len(s) - 1 THEN s[c - count + 1]
                   ELSE b.cells[c]
  BY DEF EditAppend
<1>5. cells \in Cells
  <2>1. cells = [c \in 0 .. InlineCapacity |-> cells[c]]
    BY DEF EditAppend
  <2>2. \A c \in 0 .. InlineCapacity : cells[c] \in Byte
    <3> SUFFICES ASSUME NEW c \in 0 .. InlineCapacity PROVE cells[c] \in Byte
      OBVIOUS
    <3>1. CASE c = CountCell
      <4>1. count + Len(s) \in 0 .. InlineCapacity + 1
        BY <1>1, <1>2, InlineCapacityAssumption
      <4>2. count + Len(s) \in Byte
        BY <4>1, ByteAssumption
      <4> QED
        BY <1>4, <3>1, <4>2
    <3>2. CASE c # CountCell /\ c \in count .. count + Len(s) - 1
      <4>1. c - count + 1 \in 1 .. Len(s)
        BY <1>1, <1>2, <3>2
      <4> QED
        BY <1>4, <3>2, <4>1, ElementOfSeq
    <3>3. CASE c # CountCell /\ c \notin count .. count + Len(s) - 1
      BY <1>1, <1>4, <3>3
    <3> QED
      BY <3>1, <3>2, <3>3
  <2> QED
    BY <2>1, <2>2 DEF Cells
<1>6. cells[CountCell] = Len(t)
  BY <1>3, <1>4, InlineCapacityAssumption DEF CountCell
<1>7. \A j \in 1 .. Len(t) : cells[j - 1] = t[j]
  <2> SUFFICES ASSUME NEW j \in 1 .. Len(t) PROVE cells[j - 1] = t[j]
    OBVIOUS
  <2>1. j - 1 \in 0 .. InlineCapacity /\ j - 1 # CountCell
    BY <1>1, <1>2, <1>3, InlineCapacityAssumption DEF CountCell
  <2>2. CASE j <= count
    <3>1. j - 1 \notin count .. count + Len(s) - 1
      BY <1>1, <1>2, <2>2
    <3> QED
      BY <1>1, <1>3, <1>4, <2>1, <2>2, <3>1
  <2>3. CASE j > count
    <3>1. j - 1 \in count .. count + Len(s) - 1 /\ j - 1 - count + 1 = j - count
      BY <1>1, <1>2, <1>3, <2>3
    <3> QED
      BY <1>1, <1>3, <1>4, <2>1, <2>3, <3>1
  <2> QED
    BY <1>1, <2>2, <2>3
<1> HIDE DEF cells, t
<1> QED
  BY <1>2, <1>3, <1>5, <1>6, <1>7, InlineReads DEF cells, t

\* append(copying:), append(exactExtraRequiredCapacity:)
LEMMA AppendExactReads ==
    ASSUME NEW b, GoodBuffer(b), NEW s \in Seq(Byte),
           NEW extra \in Nat, Len(s) <= extra
    PROVE  /\ GoodBuffer(AppendExact(b, extra, s))
           /\ Contents(AppendExact(b, extra, s)) = Contents(b) \o s
<1>1. /\ Contents(b) \in Seq(Byte) /\ Len(Contents(b)) = Count(b) /\ Count(b) \in Nat
      /\ Len(s) \in Nat
  BY ContentsType, LenProperties
<1>2. Contents(b) \o s \in Seq(Byte) /\ Len(Contents(b) \o s) = Count(b) + Len(s)
  BY <1>1, ConcatProperties
<1>3. CASE IsInline(b)
  <2>1. Count(b) = b.cells[CountCell]
    BY <1>3 DEF Count
  <2>2. CASE Count(b) + extra > InlineCapacity
    <3>1. AppendExact(b, extra, s) = Heap(Contents(b) \o s, Count(b) + extra)
      BY <1>3, <2>1, <2>2 DEF AppendExact
    <3>2. /\ Count(b) + extra \in Nat
          /\ Len(Contents(b) \o s) <= Count(b) + extra
      BY <1>1, <1>2
    <3> QED
      BY ONLY <1>2, <3>1, <3>2, HeapReads
  <2>3. CASE ~(Count(b) + extra > InlineCapacity)
    <3>1. AppendExact(b, extra, s) = Inline(EditAppend(b.cells, s))
      BY <1>3, <2>1, <2>3 DEF AppendExact
    <3>2. Count(b) + Len(s) <= InlineCapacity
      BY <1>1, <2>3, InlineCapacityAssumption
    <3> QED
      BY <1>3, <3>1, <3>2, EditAppendReads
  <2> QED
    BY <2>2, <2>3
<1>4. CASE ~IsInline(b)
  <2>1. b.capacity \in Nat /\ Len(b.bytes) <= b.capacity /\ Contents(b) = b.bytes
    BY <1>4, HeapFacts
  <2>2. AppendExact(b, extra, s)
          = Heap(Contents(b) \o s, GrownTo(b.capacity, Len(b.bytes) + extra))
    BY <1>4, <2>1 DEF AppendExact
  <2>3. /\ GrownTo(b.capacity, Len(b.bytes) + extra) \in Nat
        /\ Len(Contents(b) \o s) <= GrownTo(b.capacity, Len(b.bytes) + extra)
    BY <1>1, <1>2, <2>1 DEF GrownTo
  <2> QED
    BY ONLY <1>2, <2>2, <2>3, HeapReads
<1> QED
  BY <1>3, <1>4

\* append(unchecked:) under its documented precondition
LEMMA AppendUncheckedReads ==
    ASSUME NEW b, GoodBuffer(b), HasRoomForOne(b), NEW s \in Seq(Byte), Len(s) = 1
    PROVE  /\ GoodBuffer(AppendUnchecked(b, s[1]))
           /\ Contents(AppendUnchecked(b, s[1])) = Contents(b) \o s
<1>1. s[1] \in Byte
  BY ElementOfSeq
<1>2. CASE IsInline(b)
  <2>1. /\ b.cells \in Cells
        /\ b.cells[CountCell] \in 0 .. InlineCapacity - 1
        /\ Count(b) = b.cells[CountCell]
    BY <1>2, InlineFacts, InlineCapacityAssumption DEF HasRoomForOne, Count
  <2>2. AppendUnchecked(b, s[1]) = Inline(EditAppend(b.cells, s))
    <3>1. AppendUnchecked(b, s[1])
            = Inline([b.cells EXCEPT ![b.cells[CountCell]] = s[1],
                                     ![CountCell] = b.cells[CountCell] + 1])
      BY <1>2 DEF AppendUnchecked
    <3>2. [b.cells EXCEPT ![b.cells[CountCell]] = s[1],
                          ![CountCell] = b.cells[CountCell] + 1]
            = EditAppend(b.cells, s)
      <4> DEFINE count == b.cells[CountCell]
      <4>1. /\ count \in 0 .. InlineCapacity - 1 /\ b.cells \in Cells
            /\ CountCell = InlineCapacity
        BY <2>1 DEF CountCell
      <4>2. EditAppend(b.cells, s)
              = [c \in 0 .. InlineCapacity |->
                    IF c = CountCell THEN count + 1
                    ELSE IF c = count THEN s[1] ELSE b.cells[c]]
        <5>1. \A c \in 0 .. InlineCapacity :
                (c \in count .. count + Len(s) - 1) <=> c = count
          BY <4>1
        <5>2. \A c \in 0 .. InlineCapacity :
                c = count => s[c - count + 1] = s[1]
          BY <4>1
        <5> QED
          BY <5>1, <5>2 DEF EditAppend
      <4> HIDE DEF count
      <4>3. [b.cells EXCEPT ![count] = s[1], ![CountCell] = count + 1]
              = [c \in 0 .. InlineCapacity |->
                    IF c = CountCell THEN count + 1
                    ELSE IF c = count THEN s[1] ELSE b.cells[c]]
        BY <4>1 DEF Cells
      <4> QED
        BY <4>2, <4>3 DEF count
    <3> QED
      BY <3>1, <3>2
  <2>3. Count(b) + Len(s) <= InlineCapacity
    BY <2>1, InlineCapacityAssumption
  <2> QED
    BY <1>2, <2>2, <2>3, EditAppendReads
<1>3. CASE ~IsInline(b)
  <2>1. /\ b.bytes \in Seq(Byte) /\ b.capacity \in Nat
        /\ Len(b.bytes) <= b.capacity /\ Contents(b) = b.bytes
    BY <1>3, HeapFacts
  <2>2. Append(b.bytes, s[1]) = b.bytes \o s
    <3>1. s = <<s[1]>>
      BY LenProperties
    <3> QED
      BY <1>1, <2>1, <3>1, AppendIsConcat
  <2>3. /\ b.bytes \o s \in Seq(Byte)
        /\ Len(b.bytes \o s) = Len(b.bytes) + 1
    BY <2>1, ConcatProperties
  <2>4. /\ GrownTo(b.capacity, Len(b.bytes) + 1) \in Nat
        /\ Len(b.bytes) + 1 <= GrownTo(b.capacity, Len(b.bytes) + 1)
    BY <2>1, LenProperties DEF GrownTo
  <2> QED
    BY <1>3, <2>1, <2>2, <2>3, <2>4, HeapReads DEF AppendUnchecked
<1> QED
  BY <1>2, <1>3

\* uncheckedInsert: the byte saved past the new end, even when it goes
\* through the count cell, and the moved tail leave the spliced string.
LEMMA InlineInsertReads ==
    ASSUME NEW b, GoodBuffer(b), IsInline(b), NEW s \in Seq(Byte), Len(s) > 0,
           NEW index \in 0 .. Count(b), Count(b) + Len(s) <= InlineCapacity
    PROVE  /\ GoodBuffer(Inline(InlineInsert(b.cells, s, index)))
           /\ Contents(Inline(InlineInsert(b.cells, s, index)))
                = Splice(Contents(b), index, s)
<1> DEFINE used == b.cells[CountCell]
           newCount == used + Len(s)
           saved == [b.cells EXCEPT ![newCount] = b.cells[index]]
           t == Splice(Contents(b), index, s)
           cells == InlineInsert(b.cells, s, index)
<1>1. /\ b.cells \in Cells /\ used \in 0 .. InlineCapacity
      /\ \A c \in 0 .. InlineCapacity : b.cells[c] \in Byte
      /\ Contents(b) \in Seq(Byte) /\ Len(Contents(b)) = used
      /\ \A j \in 1 .. used : Contents(b)[j] = b.cells[j - 1]
  BY InlineFacts
<1>2. /\ Len(s) \in Nat \ {0} /\ newCount \in 1 .. InlineCapacity /\ used < newCount
      /\ index \in 0 .. used /\ InlineCapacity \in Nat
  BY <1>1, LenProperties, InlineCapacityAssumption DEF Count
<1>3. /\ t \in Seq(Byte) /\ Len(t) = newCount
      /\ \A j \in 1 .. newCount :
            t[j] = IF j <= index THEN Contents(b)[j]
                   ELSE IF j <= index + Len(s) THEN s[j - index]
                   ELSE Contents(b)[j - Len(s)]
  <2> DEFINE old == Contents(b)
  <2>1. old \in Seq(Byte) /\ Len(old) = used /\ index \in 0 .. Len(old)
    BY <1>1, <1>2
  <2> HIDE DEF old
  <2>2. /\ Splice(old, index, s) \in Seq(Byte)
        /\ Len(Splice(old, index, s)) = Len(old) + Len(s)
        /\ \A j \in 1 .. Len(old) + Len(s) :
            Splice(old, index, s)[j] = IF j <= index THEN old[j]
                                       ELSE IF j <= index + Len(s) THEN s[j - index]
                                       ELSE old[j - Len(s)]
    BY <2>1, SpliceFacts, ZenonT(30)
  <2> DEFINE u == Splice(old, index, s)
  <2>3. Len(u) = newCount
    BY <2>1, <2>2
  <2> HIDE DEF u
  <2> QED
    BY <2>1, <2>2, <2>3 DEF old, u
<1>4. /\ \A c \in 0 .. InlineCapacity : saved[c] \in Byte
      /\ \A c \in 0 .. used : c < newCount => saved[c] = b.cells[c]
  BY <1>1, <1>2 DEF Cells
<1>5. \A c \in 0 .. InlineCapacity :
        cells[c] = IF c = CountCell THEN newCount
                   ELSE IF c \in index .. index + Len(s) - 1 THEN s[c - index + 1]
                   ELSE IF c \in index + Len(s) .. newCount - 1 THEN saved[c - Len(s)]
                   ELSE saved[c]
  BY DEF InlineInsert
<1>6. cells = [c \in 0 .. InlineCapacity |-> cells[c]]
  BY DEF InlineInsert
<1> HIDE DEF saved, t, cells
<1>7. cells \in Cells
  <2>1. \A c \in 0 .. InlineCapacity : cells[c] \in Byte
    <3> SUFFICES ASSUME NEW c \in 0 .. InlineCapacity PROVE cells[c] \in Byte
      OBVIOUS
    <3>1. CASE c = CountCell
      BY <1>2, <1>5, <3>1, ByteAssumption
    <3>2. CASE c # CountCell /\ c \in index .. index + Len(s) - 1
      <4>1. c - index + 1 \in 1 .. Len(s)
        BY <1>1, <1>2, <3>2
      <4> QED
        BY <1>5, <3>2, <4>1, ElementOfSeq
    <3>3. CASE /\ c # CountCell /\ c \notin index .. index + Len(s) - 1
               /\ c \in index + Len(s) .. newCount - 1
      <4>1. c - Len(s) \in 0 .. InlineCapacity
        BY <1>1, <1>2, <3>3
      <4> QED
        BY <1>4, <1>5, <3>3, <4>1
    <3>4. CASE /\ c # CountCell /\ c \notin index .. index + Len(s) - 1
               /\ c \notin index + Len(s) .. newCount - 1
      BY <1>4, <1>5, <3>4
    <3> QED
      BY <3>1, <3>2, <3>3, <3>4
  <2> QED
    BY <1>6, <2>1 DEF Cells
<1>8. cells[CountCell] = Len(t)
  BY <1>2, <1>3, <1>5 DEF CountCell
<1>9. \A j \in 1 .. Len(t) : cells[j - 1] = t[j]
  <2> SUFFICES ASSUME NEW j \in 1 .. newCount PROVE cells[j - 1] = t[j]
    BY <1>3
  <2>1. j - 1 \in 0 .. InlineCapacity /\ j - 1 # CountCell
    BY <1>1, <1>2 DEF CountCell
  <2>2. CASE j <= index
    <3>1. /\ j - 1 \notin index .. index + Len(s) - 1
          /\ j - 1 \notin index + Len(s) .. newCount - 1
          /\ j - 1 \in 0 .. used /\ j - 1 < newCount /\ j \in 1 .. used
      BY <1>1, <1>2, <2>2
    <3> QED
      BY <1>1, <1>3, <1>4, <1>5, <2>1, <2>2, <3>1
  <2>3. CASE j > index /\ j <= index + Len(s)
    <3>1. /\ j - 1 \in index .. index + Len(s) - 1
          /\ j - 1 - index + 1 = j - index
      BY <1>1, <1>2, <2>3
    <3>2. t[j] = s[j - index]
      BY <1>1, <1>2, <1>3, <2>3
    <3> QED
      BY <1>5, <2>1, <3>1, <3>2
  <2>4. CASE j > index + Len(s)
    <3>1. /\ j - 1 \notin index .. index + Len(s) - 1
          /\ j - 1 \in index + Len(s) .. newCount - 1
          /\ j - 1 - Len(s) \in 0 .. used /\ j - 1 - Len(s) < newCount
          /\ j - Len(s) \in 1 .. used /\ j - 1 - Len(s) = j - Len(s) - 1
      BY <1>1, <1>2, <2>4
    <3>2. cells[j - 1] = saved[j - 1 - Len(s)]
      BY <1>5, <2>1, <3>1
    <3>3. saved[j - 1 - Len(s)] = b.cells[j - 1 - Len(s)]
      BY <1>4, <3>1
    <3>4. t[j] = Contents(b)[j - Len(s)]
      BY <1>1, <1>2, <1>3, <2>4
    <3> QED
      BY <1>1, <3>1, <3>2, <3>3, <3>4
  <2> QED
    BY <1>1, <1>2, <2>2, <2>3, <2>4
<1>10. Len(t) <= InlineCapacity
  BY <1>2, <1>3
<1> QED
  BY <1>3, <1>7, <1>8, <1>9, <1>10, InlineReads DEF t, cells

\* insert(copying:at:)
LEMMA InsertReads ==
    ASSUME NEW b, GoodBuffer(b), NEW s \in Seq(Byte), Len(s) > 0,
           NEW index \in 0 .. Count(b)
    PROVE  /\ GoodBuffer(InsertCopying(b, s, index))
           /\ Contents(InsertCopying(b, s, index)) = Splice(Contents(b), index, s)
<1> DEFINE t == Splice(Contents(b), index, s)
<1>1. /\ Contents(b) \in Seq(Byte) /\ Len(Contents(b)) = Count(b) /\ Count(b) \in Nat
      /\ Len(s) \in Nat
  BY ContentsType, LenProperties
<1>2. t \in Seq(Byte) /\ Len(t) = Count(b) + Len(s)
  <2> DEFINE old == Contents(b)
  <2>1. old \in Seq(Byte) /\ Len(old) = Count(b) /\ index \in 0 .. Len(old)
    BY <1>1
  <2> HIDE DEF old
  <2>2. Splice(old, index, s) \in Seq(Byte)
        /\ Len(Splice(old, index, s)) = Len(old) + Len(s)
    BY <2>1, SpliceFacts
  <2> QED
    BY <2>1, <2>2 DEF old
<1> HIDE DEF t
<1>3. CASE IsInline(b)
  <2>1. Count(b) = b.cells[CountCell]
    BY <1>3 DEF Count
  <2>2. CASE Count(b) + Len(s) > InlineCapacity
    <3>1. InsertCopying(b, s, index) = Heap(t, Count(b) + Len(s))
      BY <1>3, <2>1, <2>2 DEF InsertCopying, t
    <3>2. Count(b) + Len(s) \in Nat /\ Len(t) <= Count(b) + Len(s)
      BY <1>1, <1>2
    <3> QED
      BY <1>2, <3>1, <3>2, HeapReads DEF t
  <2>3. CASE ~(Count(b) + Len(s) > InlineCapacity)
    <3>1. InsertCopying(b, s, index) = Inline(InlineInsert(b.cells, s, index))
      BY <1>3, <2>1, <2>3 DEF InsertCopying
    <3>2. Count(b) + Len(s) <= InlineCapacity
      BY <1>1, <2>3, InlineCapacityAssumption
    <3> QED
      BY <1>3, <3>1, <3>2, InlineInsertReads
  <2> QED
    BY <2>2, <2>3
<1>4. CASE ~IsInline(b)
  <2>1. /\ b.capacity \in Nat /\ Len(b.bytes) <= b.capacity
        /\ Contents(b) = b.bytes /\ Count(b) = Len(b.bytes)
    BY <1>1, <1>4, HeapFacts
  <2> DEFINE capacity == GrownTo(b.capacity, Len(b.bytes) + Len(s))
  <2>2. InsertCopying(b, s, index) = Heap(t, capacity)
    BY <1>4, <2>1 DEF InsertCopying, t
  <2>3. capacity \in Nat /\ Len(t) <= capacity
    BY <1>1, <1>2, <2>1 DEF GrownTo
  <2> QED
    BY <1>2, <2>2, <2>3, HeapReads DEF t
<1> QED
  BY <1>3, <1>4

\* preferablyReserveCapacity
LEMMA ReserveReads ==
    ASSUME NEW b, GoodBuffer(b), NEW n \in Nat
    PROVE  /\ GoodBuffer(PreferablyReserveCapacity(b, n))
           /\ Contents(PreferablyReserveCapacity(b, n)) = Contents(b)
<1>1. CASE IsInline(b) /\ n > Threshold
  <2>1. PreferablyReserveCapacity(b, n) = Heap(Contents(b), n)
    BY <1>1, ThresholdAssumption DEF PreferablyReserveCapacity, CopiedToHeap
  <2>2. Contents(b) \in Seq(Byte) /\ Len(Contents(b)) <= n
    BY <1>1, InlineFacts, InlineCapacityAssumption, ThresholdAssumption
  <2> QED
    BY <2>1, <2>2, HeapReads
<1>2. CASE IsInline(b) /\ ~(n > Threshold)
  <2>1. n <= Threshold
    BY <1>2, ThresholdAssumption
  <2> QED
    BY <1>2, <2>1 DEF PreferablyReserveCapacity
<1>3. CASE ~IsInline(b)
  <2>1. PreferablyReserveCapacity(b, n) = Heap(b.bytes, GrownTo(b.capacity, n))
    BY <1>3 DEF PreferablyReserveCapacity
  <2>2. /\ b.bytes \in Seq(Byte) /\ Contents(b) = b.bytes
        /\ GrownTo(b.capacity, n) \in Nat /\ Len(b.bytes) <= GrownTo(b.capacity, n)
    BY <1>3, HeapFacts, LenProperties DEF GrownTo
  <2> QED
    BY <2>1, <2>2, HeapReads
<1> QED
  BY <1>1, <1>2, <1>3

\* removeAll(keepingCapacity:)
LEMMA RemoveReads ==
    ASSUME NEW b, GoodBuffer(b), NEW keep \in BOOLEAN
    PROVE  /\ GoodBuffer(RemoveAll(b, keep))
           /\ Contents(RemoveAll(b, keep)) = <<>>
<1>1. CASE IsInline(b)
  BY <1>1, EmptyReads DEF RemoveAll
<1>2. CASE ~IsInline(b)
  <2> DEFINE capacity == IF keep THEN b.capacity ELSE 0
  <2>1. RemoveAll(b, keep) = Heap(<<>>, capacity)
    BY <1>2 DEF RemoveAll
  <2>2. capacity \in Nat /\ <<>> \in Seq(Byte) /\ Len(<<>>) <= capacity
    BY <1>2, HeapFacts, EmptySeq
  <2> QED
    BY <2>1, <2>2, HeapReads
<1> QED
  BY <1>1, <1>2

-----------------------------------------------------------------------------
(* Normalising. *)

\* ASCII text, the empty text among it, is its own normal form, so that
\* skipping it changes nothing.
LEMMA NFCFacts ==
    ASSUME NEW s \in Seq(Byte)
    PROVE  /\ NFC(s) \in Seq(Byte)
           /\ AllASCII(s) => NFC(s) = s
<1>1. NFC(s) \in Seq(Byte)
  <2>1. CASE \E p \in NFCTable : p[1] = s
    <3>1. (CHOOSE p \in NFCTable : p[1] = s) \in NFCTable
      BY <2>1
    <3> QED
      BY <2>1, <3>1, NFCTableAssumption DEF NFC
  <2>2. CASE ~\E p \in NFCTable : p[1] = s
    BY <2>2 DEF NFC
  <2> QED
    BY <2>1, <2>2
<1>2. ASSUME AllASCII(s) PROVE NFC(s) = s
  BY <1>2, ASCIIIsNFCAssumption DEF NFC
<1> QED
  BY <1>1, <1>2

\* _uncheckedAssumingValidUTF8_ensureNFC, when it returns
LEMMA EnsureNFCReads ==
    ASSUME NEW b, GoodBuffer(b), NFCFits(b)
    PROVE  /\ GoodBuffer(EnsureNFC(b))
           /\ Contents(EnsureNFC(b)) = NFC(Contents(b))
<1> DEFINE t == NFC(Contents(b))
<1>1. Contents(b) \in Seq(Byte)
  BY ContentsType
<1>2. t \in Seq(Byte)
  BY <1>1, NFCFacts
<1>3. CASE SkipsNFC(b)
  <2>1. AllASCII(Contents(b))
    BY <1>3, EmptySeq DEF SkipsNFC, AllASCII
  <2>2. EnsureNFC(b) = b
    BY <1>3 DEF EnsureNFC
  <2> QED
    BY <1>1, <2>1, <2>2, NFCFacts
<1>4. CASE ~SkipsNFC(b) /\ IsInline(b)
  <2>1. Len(t) <= InlineCapacity
    BY <1>4 DEF NFCFits, StorageCapacity
  <2>2. EnsureNFC(b) = Inline(EditAppend(EmptyInline.cells, t))
    BY <1>4 DEF EnsureNFC
  <2>3. GoodBuffer(EmptyInline) /\ Contents(EmptyInline) = <<>> /\ IsInline(EmptyInline)
    BY EmptyReads DEF EmptyInline, Inline, IsInline
  <2>4. Count(EmptyInline) = 0
    BY <2>3, ContentsType, EmptySeq
  <2>5. Len(t) \in Nat /\ Count(EmptyInline) + Len(t) <= InlineCapacity
    BY <1>2, <2>1, <2>4, LenProperties
  <2> HIDE DEF t
  <2>6. /\ GoodBuffer(Inline(EditAppend(EmptyInline.cells, t)))
        /\ Contents(Inline(EditAppend(EmptyInline.cells, t))) = <<>> \o t
    BY <1>2, <2>3, <2>5, EditAppendReads
  <2>7. <<>> \o t = t
    BY <1>2, ConcatEmptySeq
  <2> QED
    BY <2>2, <2>6, <2>7 DEF t
<1>5. CASE ~SkipsNFC(b) /\ ~IsInline(b)
  <2>1. Len(t) <= b.capacity
    BY <1>5 DEF NFCFits, StorageCapacity
  <2>2. b.capacity \in Nat /\ Contents(b) = b.bytes
    BY <1>5, HeapFacts
  <2>3. EnsureNFC(b) = Heap(t, b.capacity)
    BY <1>5, <2>2 DEF EnsureNFC
  <2> QED
    BY <1>2, <2>1, <2>2, <2>3, HeapReads
<1> QED
  BY <1>3, <1>4, <1>5

\* The process stops only for a normal form longer than the text: the text
\* itself fits the storage it is in.
LEMMA StopsOnlyWhenLonger ==
    ASSUME NEW b, GoodBuffer(b), ~NFCFits(b)
    PROVE  Len(NFC(Contents(b))) > Len(Contents(b))
<1>1. /\ Contents(b) \in Seq(Byte) /\ Len(Contents(b)) \in Nat
      /\ Len(NFC(Contents(b))) \in Nat
  BY ContentsType, NFCFacts, LenProperties
<1>2. Len(NFC(Contents(b))) > StorageCapacity(b)
  <2>1. StorageCapacity(b) \in Nat
    BY HeapFacts, InlineCapacityAssumption DEF StorageCapacity
  <2> QED
    BY <1>1, <2>1 DEF NFCFits
<1>3. CASE IsInline(b)
  <2>1. StorageCapacity(b) = InlineCapacity /\ Len(Contents(b)) <= InlineCapacity
    BY <1>3, InlineFacts, InlineCapacityAssumption DEF StorageCapacity
  <2> QED
    BY <1>1, <1>2, <2>1, InlineCapacityAssumption
<1>4. CASE ~IsInline(b)
  <2>1. /\ StorageCapacity(b) = b.capacity /\ Len(Contents(b)) <= b.capacity
        /\ b.capacity \in Nat
    BY <1>4, HeapFacts DEF StorageCapacity
  <2> QED
    BY <1>1, <1>2, <2>1
<1> QED
  BY <1>3, <1>4

-----------------------------------------------------------------------------
(* Buffers that an unchecked append may have overfilled by one. *)

LooseBuffer(b) ==
    b \in Buffer /\ (IsInline(b) => b.cells[CountCell] <= InlineCapacity + 1) /\ WithinCapacity(b)

LEMMA LooseCells ==
    ASSUME NEW b, LooseBuffer(b), IsInline(b)
    PROVE  b.cells \in Cells /\ b.cells[CountCell] \in 0 .. InlineCapacity + 1
<1>1. b \in InlineBuffer
  BY DEF LooseBuffer, Buffer, HeapBuffer, IsInline
<1>2. b.cells \in [0 .. InlineCapacity -> Byte]
  BY <1>1 DEF InlineBuffer, Cells
<1>3. b.cells[CountCell] \in Byte
  BY <1>2, InlineCapacityAssumption DEF CountCell
<1>4. b.cells[CountCell] \in Nat
  BY <1>3, ByteAssumption
<1> QED
  BY <1>2, <1>4, InlineCapacityAssumption DEF LooseBuffer, Cells

LEMMA LooseFacts ==
    ASSUME NEW b, LooseBuffer(b)
    PROVE  /\ Contents(b) \in Seq(Byte)
           /\ Count(b) = Len(Contents(b)) /\ Count(b) \in Nat
           /\ ~GoodBuffer(b) => IsInline(b) /\ Count(b) = InlineCapacity + 1
<1>1. CASE GoodBuffer(b)
  BY <1>1, ContentsType
<1>2. CASE ~GoodBuffer(b)
  <2>0. IsInline(b)
    BY <1>2 DEF LooseBuffer, GoodBuffer, CountInBounds
  <2>1. IsInline(b) /\ b.cells \in Cells /\ b.cells[CountCell] \in 0 .. InlineCapacity + 1
    BY <2>0, LooseCells
  <2>2. b.cells[CountCell] = InlineCapacity + 1
    BY <1>2, <2>1, InlineCapacityAssumption DEF LooseBuffer, GoodBuffer, CountInBounds
  <2>3. Contents(b) = [j \in 1 .. InlineCapacity + 1 |-> b.cells[j - 1]]
    BY <2>1, <2>2 DEF Contents
  <2>4. \A j \in 1 .. InlineCapacity + 1 : b.cells[j - 1] \in Byte
    BY <2>1, InlineCapacityAssumption DEF Cells
  <2>5. Contents(b) \in [1 .. InlineCapacity + 1 -> Byte]
    BY <2>3, <2>4
  <2>6. Contents(b) \in Seq(Byte) /\ Len(Contents(b)) = InlineCapacity + 1
    <3> HIDE DEF Contents
    <3>1. InlineCapacity + 1 \in Nat
      BY InlineCapacityAssumption
    <3> QED
      BY <2>5, <3>1, LenProperties, SeqDef
  <2> QED
    BY <1>2, <2>1, <2>2, <2>6, InlineCapacityAssumption DEF Count
<1> QED
  BY <1>1, <1>2

LEMMA GoodIsLoose ==
    ASSUME NEW b, GoodBuffer(b)
    PROVE  LooseBuffer(b)
  BY InlineFacts, InlineCapacityAssumption DEF GoodBuffer, LooseBuffer

LEMMA LooseAppend ==
    ASSUME NEW b, LooseBuffer(b), NEW s \in Seq(Byte)
    PROVE  /\ LooseBuffer(AppendCopying(b, s))
           /\ Contents(AppendCopying(b, s)) = Contents(b) \o s
<1>1. Len(s) \in Nat /\ Len(s) <= Len(s)
  BY LenProperties
<1>2. CASE GoodBuffer(b)
  BY <1>1, <1>2, AppendExactReads, GoodIsLoose DEF AppendCopying
<1>3. CASE ~GoodBuffer(b)
  <2>1. /\ IsInline(b) /\ b.cells[CountCell] = InlineCapacity + 1
        /\ Contents(b) \in Seq(Byte) /\ Len(Contents(b)) = InlineCapacity + 1
    BY <1>3, LooseFacts DEF Count
  <2>2. AppendCopying(b, s) = Heap(Contents(b) \o s, InlineCapacity + 1 + Len(s))
    BY <1>1, <2>1, InlineCapacityAssumption DEF AppendCopying, AppendExact
  <2>3. /\ Contents(b) \o s \in Seq(Byte)
        /\ Len(Contents(b) \o s) = InlineCapacity + 1 + Len(s)
    BY <2>1, ConcatProperties, ZenonT(30)
  <2>4. InlineCapacity + 1 + Len(s) \in Nat
    BY <1>1, InlineCapacityAssumption
  <2>5. InlineCapacity + 1 + Len(s) <= InlineCapacity + 1 + Len(s)
    BY <2>4
  <2> QED
    BY <2>2, <2>3, <2>4, <2>5, HeapReads, GoodIsLoose
<1> QED
  BY <1>2, <1>3

LEMMA LooseReserve ==
    ASSUME NEW b, LooseBuffer(b), NEW n \in Nat
    PROVE  /\ LooseBuffer(PreferablyReserveCapacity(b, n))
           /\ Contents(PreferablyReserveCapacity(b, n)) = Contents(b)
<1>1. CASE GoodBuffer(b)
  BY <1>1, ReserveReads, GoodIsLoose
<1>2. CASE ~GoodBuffer(b)
  <2>1. /\ IsInline(b) /\ Contents(b) \in Seq(Byte)
        /\ Len(Contents(b)) = InlineCapacity + 1
    BY <1>2, LooseFacts
  <2>2. CASE n > Threshold
    <3>1. PreferablyReserveCapacity(b, n) = Heap(Contents(b), n)
      BY <2>1, <2>2, ThresholdAssumption DEF PreferablyReserveCapacity, CopiedToHeap
    <3>2. Len(Contents(b)) <= n
      BY <2>1, <2>2, InlineCapacityAssumption, ThresholdAssumption
    <3> QED
      BY <2>1, <3>1, <3>2, HeapReads, GoodIsLoose
  <2>3. CASE ~(n > Threshold)
    <3>1. PreferablyReserveCapacity(b, n) = b
      BY <2>1, <2>3, ThresholdAssumption DEF PreferablyReserveCapacity
    <3> QED
      BY <3>1
  <2> QED
    BY <2>2, <2>3
<1> QED
  BY <1>1, <1>2

LEMMA LooseRemove ==
    ASSUME NEW b, LooseBuffer(b)
    PROVE  LooseBuffer(RemoveAll(b, TRUE)) /\ Contents(RemoveAll(b, TRUE)) = <<>>
<1>1. CASE GoodBuffer(b)
  BY <1>1, RemoveReads, GoodIsLoose
<1>2. CASE ~GoodBuffer(b)
  BY <1>2, LooseFacts, EmptyReads, GoodIsLoose DEF RemoveAll
<1> QED
  BY <1>1, <1>2

\* A byte stored unchecked, where the buffer ends or in the count byte's place.
LEMMA LooseUnchecked ==
    ASSUME NEW b, LooseBuffer(b), ~WritesPastTuple(b), NEW e \in Byte
    PROVE  /\ LooseBuffer(AppendUnchecked(b, e))
           /\ Contents(AppendUnchecked(b, e))
                = Contents(b) \o <<IF HasRoomForOne(b) THEN e ELSE InlineCapacity + 1>>
<1>1. CASE HasRoomForOne(b)
  <2>1. GoodBuffer(b)
    <3>1. CASE IsInline(b)
      <4>1. b.cells[CountCell] \in 0 .. InlineCapacity + 1
        BY <3>1, LooseCells
      <4>2. b.cells[CountCell] <= InlineCapacity
        BY <1>1, <3>1, <4>1, InlineCapacityAssumption DEF HasRoomForOne
      <4> QED
        BY <4>2 DEF LooseBuffer, GoodBuffer, CountInBounds
    <3>2. CASE ~IsInline(b)
      BY <3>2 DEF LooseBuffer, GoodBuffer, CountInBounds
    <3> QED
      BY <3>1, <3>2
  <2>2. <<e>> \in Seq(Byte) /\ Len(<<e>>) = 1 /\ <<e>>[1] = e
    OBVIOUS
  <2> QED
    BY <1>1, <2>1, <2>2, AppendUncheckedReads, GoodIsLoose
<1>2. CASE ~HasRoomForOne(b)
  <2> DEFINE count == b.cells[CountCell]
             more == InlineCapacity + 1
  <2>1. IsInline(b) /\ b.cells \in Cells /\ count \in 0 .. more
    BY <1>2, LooseCells DEF HasRoomForOne
  <2>2. count = InlineCapacity /\ more \in Nat /\ more \in Byte
    BY <1>2, <2>1, InlineCapacityAssumption, ByteAssumption DEF HasRoomForOne, WritesPastTuple
  <2> DEFINE cells == [b.cells EXCEPT ![count] = e, ![CountCell] = count + 1]
  <2>3. /\ cells \in Cells /\ cells[InlineCapacity] = more
        /\ \A c \in 0 .. InlineCapacity - 1 : cells[c] = b.cells[c]
    BY <2>1, <2>2, InlineCapacityAssumption DEF Cells, CountCell
  <2>4. AppendUnchecked(b, e) = Inline(cells)
    BY <2>1 DEF AppendUnchecked
  <2> HIDE DEF cells
  <2>5. /\ Inline(cells) \in Buffer /\ IsInline(Inline(cells)) /\ Inline(cells).cells = cells
    BY <2>3 DEF Buffer, InlineBuffer, Inline, IsInline
  <2>6. LooseBuffer(Inline(cells))
    BY <2>2, <2>3, <2>5 DEF LooseBuffer, WithinCapacity, CountCell
  <2>7. Contents(Inline(cells)) = [j \in 1 .. more |-> cells[j - 1]]
    BY <2>3, <2>5 DEF Contents, CountCell
  <2>8. Contents(b) = [j \in 1 .. InlineCapacity |-> b.cells[j - 1]]
    BY <2>1, <2>2 DEF Contents
  <2>9. \A j \in 1 .. InlineCapacity : b.cells[j - 1] \in Byte
    BY <2>1, InlineCapacityAssumption DEF Cells
  <2>10. Contents(b) \in Seq(Byte) /\ Len(Contents(b)) = InlineCapacity
    <3>1. Contents(b) \in [1 .. InlineCapacity -> Byte]
      BY <2>8, <2>9
    <3> QED
      BY <3>1, InlineCapacityAssumption, LenProperties, SeqDef
  <2>11. Contents(b) \o <<more>> = [j \in 1 .. more |-> cells[j - 1]]
    <3> DEFINE s == Contents(b)
    <3>1. s \in Seq(Byte) /\ <<more>> \in Seq(Byte) /\ Len(<<more>>) = 1 /\ <<more>>[1] = more
      BY <2>2, <2>10
    <3>2. Len(s) = InlineCapacity /\ \A j \in 1 .. InlineCapacity : s[j] = b.cells[j - 1]
      BY <2>8, <2>10
    <3> HIDE DEF s, more
    <3>3. /\ s \o <<more>> \in Seq(Byte) /\ Len(s \o <<more>>) = InlineCapacity + 1
          /\ \A j \in 1 .. InlineCapacity + 1 :
                (s \o <<more>>)[j]
                    = IF j <= InlineCapacity THEN s[j] ELSE <<more>>[j - InlineCapacity]
      BY <3>1, <3>2, ConcatProperties
    <3>4. more = InlineCapacity + 1
      BY DEF more
    <3>5. \A j \in 1 .. more : (s \o <<more>>)[j] = cells[j - 1]
      BY <2>3, <3>1, <3>2, <3>3, <3>4, InlineCapacityAssumption
    <3>6. s \o <<more>> = [j \in 1 .. more |-> (s \o <<more>>)[j]]
      BY <3>3, <3>4, <2>2, LenProperties
    <3> QED
      BY <3>5, <3>6 DEF s
  <2> QED
    BY <1>2, <2>4, <2>6, <2>7, <2>11
<1> QED
  BY <1>1, <1>2

LEMMA ASCIIConcat ==
    ASSUME NEW s \in Seq(Byte), NEW t \in Seq(Byte), AllASCII(s), AllASCII(t)
    PROVE  s \o t \in Seq(Byte) /\ AllASCII(s \o t)
<1> DEFINE m == Len(s)
           n == Len(t)
           both == s \o t
<1>1. m \in Nat /\ n \in Nat
  BY LenProperties
<1>2. /\ both \in Seq(Byte) /\ Len(both) = m + n
      /\ \A j \in 1 .. m + n : both[j] = IF j <= m THEN s[j] ELSE t[j - m]
  BY ConcatProperties
<1>3. (\A j \in 1 .. m : s[j] < ASCIILimit) /\ (\A j \in 1 .. n : t[j] < ASCIILimit)
  BY DEF AllASCII
<1> HIDE DEF m, n, both
<1>4. \A j \in 1 .. m + n : both[j] < ASCIILimit
  <2> TAKE j \in 1 .. m + n
  <2>1. CASE j <= m
    BY <1>1, <1>2, <1>3, <2>1
  <2>2. CASE ~(j <= m)
    <3>1. j - m \in 1 .. n
      BY <1>1, <2>2
    <3> QED
      BY <1>2, <1>3, <2>2, <3>1
  <2> QED
    BY <2>1, <2>2
<1> QED
  BY <1>2, <1>4 DEF AllASCII, both

=============================================================================
