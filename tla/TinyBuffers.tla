---------------------------- MODULE TinyBuffers ----------------------------
(***************************************************************************)
(* The values of `enum TinyBuffer` (Collections/TinyBuffer.swift) and what *)
(* each of its operations makes of one.  A buffer is either                *)
(*                                                                         *)
(*   - inline: InlineCapacity byte cells followed by the count byte, which *)
(*     lives in the same 24-byte tuple, or                                 *)
(*   - heap: a `UniqueArray<UInt8>` with a capacity.                       *)
(*                                                                         *)
(* The cells are kept one by one because the count byte is one of them: an *)
(* unchecked append to a full inline buffer overwrites it.                 *)
(* Modules that own a TinyBuffer apply these operators to their variable.  *)
(***************************************************************************)
EXTENDS Splicing

CONSTANTS
    Byte,             \* the byte values in use; the count byte is one of them
    InlineCapacity,   \* InlineElements.maximumCapacity, 23 in the code
    Threshold,        \* TINY_ARRAY__UNIQUE_ARRAY_ALLOCATION_THRESHOLD, 35
    ASCIILimit,       \* the first byte value that is not ASCII, 128
    NFCTable          \* external: <<s, t>> when s is not NFC and t is its NFC

ASSUME InlineCapacityAssumption == InlineCapacity \in Nat \ {0}
ASSUME ThresholdAssumption == Threshold \in Nat /\ Threshold >= InlineCapacity
\* One more than InlineCapacity: what `count &+ 1` gives on a full buffer.
ASSUME ByteAssumption == Byte \subseteq Nat /\ 0 .. InlineCapacity + 1 \subseteq Byte
ASSUME ASCIILimitAssumption == ASCIILimit \in Nat
ASSUME NFCTableAssumption == NFCTable \subseteq Seq(Byte) \X Seq(Byte)

-----------------------------------------------------------------------------
(* The representation. *)

CountCell == InlineCapacity           \* countByteIndex
Cells == [0 .. InlineCapacity -> Byte]

InlineBuffer == [rep : {"inline"}, cells : Cells]
HeapBuffer == [rep : {"heap"}, bytes : Seq(Byte), capacity : Nat]
Buffer == InlineBuffer \cup HeapBuffer

Inline(cells) == [rep |-> "inline", cells |-> cells]
Heap(bytes, capacity) == [rep |-> "heap", bytes |-> bytes, capacity |-> capacity]
EmptyInline == Inline([c \in 0 .. InlineCapacity |-> 0])

IsInline(b) == b.rep = "inline"
Count(b) == IF IsInline(b) THEN b.cells[CountCell] ELSE Len(b.bytes)

\* The bytes `withSpan` shows.  After a clobbering append the count byte
\* itself is among them: the span is extracted over the whole tuple.
Contents(b) ==
    IF IsInline(b) THEN [j \in 1 .. b.cells[CountCell] |-> b.cells[j - 1]]
                   ELSE b.bytes

\* The count byte counts bytes that are really in the byte cells.
CountInBounds(b) == IsInline(b) => b.cells[CountCell] <= InlineCapacity

\* A UniqueArray never holds more than it has room for.
WithinCapacity(b) == ~IsInline(b) => Len(b.bytes) <= b.capacity

\* UniqueArray (external) grows when it must.  How far is its own affair;
\* the model grows to what is needed.
GrownTo(capacity, needed) == IF needed > capacity THEN needed ELSE capacity

-----------------------------------------------------------------------------
(* Initialisers. *)

WithRequiredCapacity(n) ==
    IF n > InlineCapacity THEN Heap(<<>>, n) ELSE EmptyInline

WithPreferredCapacity(n) ==
    IF n > Threshold THEN Heap(<<>>, n) ELSE EmptyInline

\* UniqueArray(copying:capacity:)
CopiedToHeap(b, capacity) == Heap(Contents(b), capacity)

-----------------------------------------------------------------------------
(* Operations. *)

\* Mutant: heap storage is resized to what is missing.
ReserveMissing(b, n) ==
    CASE IsInline(b) /\ n > Threshold -> CopiedToHeap(b, n)
      [] IsInline(b) /\ n <= Threshold -> b
      [] OTHER -> Heap(b.bytes, n - Len(b.bytes))

PreferablyReserveCapacity(b, n) ==
    CASE IsInline(b) /\ n > Threshold -> CopiedToHeap(b, n)
      [] IsInline(b) /\ n <= Threshold -> b
      [] OTHER -> Heap(b.bytes, GrownTo(b.capacity, n))

\* Mutant: off by one.
HasRoomForNone(b) == IsInline(b) => b.cells[CountCell] <= InlineCapacity

\* "Assumes the buffer has enough capacity to hold the element."
HasRoomForOne(b) == IsInline(b) => b.cells[CountCell] < InlineCapacity

\* A store past the tuple: the count byte already says InlineCapacity + 1.
WritesPastTuple(b) == IsInline(b) /\ b.cells[CountCell] > InlineCapacity

\* append(unchecked:) on a buffer for which ~WritesPastTuple.  The store at
\* index count comes first and the count byte is rewritten after it.
AppendUnchecked(b, element) ==
    IF IsInline(b)
    THEN LET count == b.cells[CountCell]
         IN  Inline([b.cells EXCEPT ![count] = element, ![CountCell] = count + 1])
    ELSE Heap(Append(b.bytes, element), GrownTo(b.capacity, Len(b.bytes) + 1))

\* InlineElements.edit with a block that appends s, when s fits.
EditAppend(cells, s) ==
    LET count == cells[CountCell]
    IN  [c \in 0 .. InlineCapacity |->
            IF c = CountCell THEN count + Len(s)
            ELSE IF c \in count .. count + Len(s) - 1 THEN s[c - count + 1]
            ELSE cells[c]]

\* edit with a block that appends s: the storage is what there is, and the
\* caller knows that s fits.
Edit(b, s) ==
    IF IsInline(b) THEN Inline(EditAppend(b.cells, s)) ELSE Heap(b.bytes \o s, b.capacity)

\* append(exactExtraRequiredCapacity:) with a block that appends s.  The
\* checked append(copying: Span) is the case extra = Len(s).
AppendExact(b, extra, s) ==
    IF IsInline(b)
    THEN IF b.cells[CountCell] + extra > InlineCapacity
         THEN Heap(Contents(b) \o s, b.cells[CountCell] + extra)
         ELSE Inline(EditAppend(b.cells, s))
    ELSE Heap(b.bytes \o s, GrownTo(b.capacity, Len(b.bytes) + extra))

AppendCopying(b, s) == AppendExact(b, Len(s), s)

\* Mutant: the tail is not moved up before the new bytes are stored.
InlineOverwrite(cells, s, index) ==
    [c \in 0 .. InlineCapacity |->
        IF c = CountCell THEN cells[CountCell] + Len(s)
        ELSE IF c \in index .. index + Len(s) - 1 THEN s[c - index + 1]
        ELSE cells[c]]

\* InlineElements.uncheckedInsert: save one byte past the new end, move the
\* tail up, store the new bytes, rewrite the count byte.  With newCount =
\* InlineCapacity the saved byte goes through the count cell.
InlineInsert(cells, s, index) ==
    LET used == cells[CountCell]
        newCount == used + Len(s)
        saved == [cells EXCEPT ![newCount] = cells[index]]
    IN  [c \in 0 .. InlineCapacity |->
            IF c = CountCell THEN newCount
            ELSE IF c \in index .. index + Len(s) - 1 THEN s[c - index + 1]
            ELSE IF c \in index + Len(s) .. newCount - 1 THEN saved[c - Len(s)]
            ELSE saved[c]]

InsertCopying(b, s, index) ==
    IF IsInline(b)
    THEN IF b.cells[CountCell] + Len(s) > InlineCapacity
         THEN Heap(Splice(Contents(b), index, s), b.cells[CountCell] + Len(s))
         ELSE Inline(InlineInsert(b.cells, s, index))
    ELSE Heap(Splice(b.bytes, index, s), GrownTo(b.capacity, Len(b.bytes) + Len(s)))

RemoveAll(b, keepingCapacity) ==
    IF IsInline(b) THEN EmptyInline
    ELSE Heap(<<>>, IF keepingCapacity THEN b.capacity ELSE 0)

-----------------------------------------------------------------------------
(* Normalisation.  NFC itself is the standard library's.                   *)

AllASCII(s) == \A j \in 1 .. Len(s) : s[j] < ASCIILimit

ASSUME ASCIIIsNFCAssumption == \A p \in NFCTable : ~AllASCII(p[1])

NFC(s) == IF \E p \in NFCTable : p[1] = s
          THEN (CHOOSE p \in NFCTable : p[1] = s)[2]
          ELSE s

\* `if self.isEmpty || self.isASCII { return }`
SkipsNFC(b) == Contents(b) = <<>> \/ AllASCII(Contents(b))

\* What an OutputSpan over the existing storage can take.
StorageCapacity(b) == IF IsInline(b) THEN InlineCapacity ELSE b.capacity

\* The normalised bytes are appended to the storage the buffer already has;
\* OutputSpan.append stops the process when there is no room for one.
NFCFits(b) == SkipsNFC(b) \/ Len(NFC(Contents(b))) <= StorageCapacity(b)

EnsureNFC(b) ==
    IF SkipsNFC(b) THEN b
    ELSE IF IsInline(b) THEN Inline(EditAppend(EmptyInline.cells, NFC(Contents(b))))
    ELSE Heap(NFC(b.bytes), b.capacity)

=============================================================================
