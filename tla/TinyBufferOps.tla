--------------------------- MODULE TinyBufferOps ---------------------------
(***************************************************************************)
(* A TinyBuffer under every sequence of calls that keeps to the documented *)
(* precondition of each ("Assumes the buffer has enough capacity to hold   *)
(* the element" is one).  Whatever its representation and however it has   *)
(* moved between them, the buffer must behave as a ByteString.             *)
(***************************************************************************)
EXTENDS TinyBuffers

CONSTANTS
    Strings,        \* byte strings handed to the operations
    Requests,       \* capacities asked for
    MaxBytes        \* bound: no operation makes the contents longer

ASSUME StringsAssumption == Strings \subseteq Seq(Byte)
ASSUME RequestsAssumption == Requests \subseteq Nat
ASSUME MaxBytesAssumption == MaxBytes \in Nat

VARIABLES
    buf,            \* the TinyBuffer
    stopped         \* a precondition of the standard library has failed

vars == <<buf, stopped>>

Init ==
    /\ \/ buf = EmptyInline
       \/ \E n \in Requests : buf = WithRequiredCapacity(n)
       \/ \E n \in Requests : buf = WithPreferredCapacity(n)
    /\ stopped = FALSE

Fits(s) == Count(buf) + Len(s) <= MaxBytes

-----------------------------------------------------------------------------

Reserve ==
    /\ \E n \in Requests : buf' = PreferablyReserveCapacity(buf, n)
    /\ UNCHANGED stopped

AppendByte ==
    /\ \E s \in Strings :
        /\ Len(s) = 1 /\ Fits(s)
        /\ HasRoomForOne(buf)
        /\ buf' = AppendUnchecked(buf, s[1])
    /\ UNCHANGED stopped

AppendSpan ==
    /\ \E s \in Strings : Fits(s) /\ buf' = AppendCopying(buf, s)
    /\ UNCHANGED stopped

\* appendLabel asks for one byte more than it may append.
AppendWithin ==
    /\ \E s \in Strings, spare \in 0 .. 1 :
        Fits(s) /\ buf' = AppendExact(buf, Len(s) + spare, s)
    /\ UNCHANGED stopped

\* A UTF-8 view is never empty.
Insert ==
    /\ \E s \in Strings, i \in 0 .. Count(buf) :
        /\ Len(s) > 0 /\ Fits(s)
        /\ buf' = InsertCopying(buf, s, i)
    /\ UNCHANGED stopped

Remove ==
    /\ \E keep \in BOOLEAN : buf' = RemoveAll(buf, keep)
    /\ UNCHANGED stopped

Normalise ==
    /\ NFCFits(buf)
    /\ buf' = EnsureNFC(buf)
    /\ UNCHANGED stopped

NormaliseStops ==
    /\ ~NFCFits(buf)
    /\ stopped' = TRUE
    /\ UNCHANGED buf

Next ==
    /\ ~stopped
    /\ \/ Reserve
       \/ AppendByte
       \/ AppendSpan
       \/ AppendWithin
       \/ Insert
       \/ Remove
       \/ Normalise
       \/ NormaliseStops

Spec == Init /\ [][Next]_vars

-----------------------------------------------------------------------------

TypeOK == buf \in Buffer /\ stopped \in BOOLEAN

\* The count byte of an inline buffer never exceeds the cells it counts, and
\* a heap buffer never holds more than its capacity: the `unchecked` stores
\* of TinyBuffer.swift stay inside the storage.
StorageRespected == CountInBounds(buf) /\ WithinCapacity(buf)

IndInv == TypeOK /\ StorageRespected

\* Read through withSpan, the buffer is a byte string: moves between inline
\* and heap storage, the byte saved through the count cell on insertion and
\* the stale bytes past the count are never visible.
Abstract == INSTANCE ByteString
    WITH bytes <- Contents(buf), Normal <- NFC

ImplementsByteString == Abstract!Spec

\* "Ensures the buffer contains only valid UTF-8 and NFC-normalized bytes":
\* the call returns with a normalised buffer.
NormalisingNeverStops == ~stopped

=============================================================================
