----------------------- MODULE TinyBufferOps_proofs -----------------------
(***************************************************************************)
(* Theorems about TinyBufferOps: the storage is respected, and the buffer  *)
(* implements a byte string.  What single operations do is the matter of   *)
(* the lemmas of TinyBuffers_proofs.                                       *)
(***************************************************************************)
EXTENDS TinyBufferOps, TinyBuffers_proofs

-----------------------------------------------------------------------------
(* The state machine. *)

\* A fresh buffer, however much room was asked for, is good and empty.
LEMMA InitReads ==
    ASSUME Init
    PROVE  GoodBuffer(buf) /\ Contents(buf) = <<>>
<1>1. \A n \in Requests : /\ GoodBuffer(Heap(<<>>, n))
                          /\ Contents(Heap(<<>>, n)) = <<>>
  <2> SUFFICES ASSUME NEW n \in Requests
               PROVE  GoodBuffer(Heap(<<>>, n)) /\ Contents(Heap(<<>>, n)) = <<>>
    OBVIOUS
  <2>1. n \in Nat /\ <<>> \in Seq(Byte) /\ Len(<<>>) <= n
    BY RequestsAssumption, EmptySeq
  <2> QED
    BY <2>1, HeapReads
<1> QED
  BY <1>1, EmptyReads DEF Init, WithRequiredCapacity, WithPreferredCapacity

\* Every step of the buffer is a step of the byte string, and leaves the
\* buffer good.
LEMMA StepReads ==
    ASSUME GoodBuffer(buf), stopped \in BOOLEAN, [Next]_vars
    PROVE  GoodBuffer(buf') /\ stopped' \in BOOLEAN /\ [Abstract!Next]_Abstract!vars
<1> USE DEF Abstract!vars
<1>1. /\ Contents(buf) \in Seq(Byte) /\ Count(buf) = Len(Contents(buf))
      /\ Count(buf) \in Nat
  BY ContentsType
<1>2. CASE Reserve /\ ~stopped
  <2>1. PICK n \in Requests : buf' = PreferablyReserveCapacity(buf, n)
    BY <1>2 DEF Reserve
  <2> QED
    BY <1>2, <2>1, RequestsAssumption, ReserveReads DEF Reserve
<1>3. CASE AppendByte /\ ~stopped
  <2>1. PICK s \in Strings : /\ Len(s) = 1 /\ HasRoomForOne(buf)
                             /\ buf' = AppendUnchecked(buf, s[1])
    BY <1>3 DEF AppendByte
  <2>2. GoodBuffer(buf') /\ Contents(buf') = Contents(buf) \o s
    BY <2>1, StringsAssumption, AppendUncheckedReads
  <2> QED
    BY <1>3, <2>2 DEF AppendByte, Abstract!Next, Abstract!AppendBytes
<1>4. CASE AppendSpan /\ ~stopped
  <2>1. PICK s \in Strings : buf' = AppendExact(buf, Len(s), s)
    BY <1>4 DEF AppendSpan, AppendCopying
  <2>2. s \in Seq(Byte) /\ Len(s) \in Nat
    BY StringsAssumption, LenProperties
  <2>3. GoodBuffer(buf') /\ Contents(buf') = Contents(buf) \o s
    BY <2>1, <2>2, AppendExactReads
  <2> QED
    BY <1>4, <2>3 DEF AppendSpan, Abstract!Next, Abstract!AppendBytes
<1>5. CASE AppendWithin /\ ~stopped
  <2>1. PICK s \in Strings, spare \in 0 .. 1 :
            buf' = AppendExact(buf, Len(s) + spare, s)
    BY <1>5 DEF AppendWithin
  <2>2. s \in Seq(Byte) /\ Len(s) + spare \in Nat /\ Len(s) <= Len(s) + spare
    BY StringsAssumption, LenProperties
  <2>3. GoodBuffer(buf') /\ Contents(buf') = Contents(buf) \o s
    BY <2>1, <2>2, AppendExactReads
  <2> QED
    BY <1>5, <2>3 DEF AppendWithin, Abstract!Next, Abstract!AppendBytes
<1>6. CASE Insert /\ ~stopped
  <2>1. PICK s \in Strings, i \in 0 .. Count(buf) :
            Len(s) > 0 /\ buf' = InsertCopying(buf, s, i)
    BY <1>6 DEF Insert
  <2>2. GoodBuffer(buf') /\ Contents(buf') = Splice(Contents(buf), i, s)
    BY <2>1, StringsAssumption, InsertReads
  <2> QED
    BY <1>1, <1>6, <2>2
    DEF Insert, Splice, Abstract!Next, Abstract!InsertBytes
<1>7. CASE Remove /\ ~stopped
  <2>1. PICK keep \in BOOLEAN : buf' = RemoveAll(buf, keep)
    BY <1>7 DEF Remove
  <2>2. GoodBuffer(buf') /\ Contents(buf') = <<>>
    BY <2>1, RemoveReads
  <2> QED
    BY <1>7, <2>2 DEF Remove, Abstract!Next, Abstract!Clear
<1>8. CASE Normalise /\ ~stopped
  <2>1. GoodBuffer(buf') /\ Contents(buf') = NFC(Contents(buf))
    BY <1>8, EnsureNFCReads DEF Normalise
  <2> QED
    BY <1>8, <2>1 DEF Normalise, Abstract!Next, Abstract!Normalise
<1>9. CASE NormaliseStops /\ ~stopped
  <2>1. Len(NFC(Contents(buf))) > Len(Contents(buf))
    BY <1>9, StopsOnlyWhenLonger DEF NormaliseStops
  <2> QED
    BY <1>9, <2>1 DEF NormaliseStops, Abstract!Next, Abstract!Stop
<1>10. CASE UNCHANGED vars
  BY <1>10 DEF vars
<1> QED
  BY <1>2, <1>3, <1>4, <1>5, <1>6, <1>7, <1>8, <1>9, <1>10 DEF Next

\* The invariant of the buffer: its type, and storage respected.
THEOREM StorageSafe == Spec => []IndInv
<1>1. Init => IndInv
  BY InitReads DEF Init, IndInv, TypeOK, StorageRespected, GoodBuffer
<1>2. IndInv /\ [Next]_vars => IndInv'
  BY StepReads DEF IndInv, TypeOK, StorageRespected, GoodBuffer
<1> QED
  BY <1>1, <1>2, PTL DEF Spec

\* Type correctness.
THEOREM TypeCorrect == Spec => []TypeOK
  BY StorageSafe, PTL DEF IndInv

\* No store of TinyBuffer leaves its storage as long as the documented
\* preconditions hold.
THEOREM StorageRespectedAlways == Spec => []StorageRespected
  BY StorageSafe, PTL DEF IndInv

\* TinyBuffer implements a byte string.
THEOREM Implementation == Spec => ImplementsByteString
<1>1. Init => Abstract!Init
  BY InitReads DEF Init, Abstract!Init
<1>2. IndInv /\ [Next]_vars => [Abstract!Next]_Abstract!vars
  BY StepReads DEF IndInv, TypeOK, StorageRespected, GoodBuffer
<1> QED
  BY <1>1, <1>2, StorageSafe, PTL DEF Spec, ImplementsByteString, Abstract!Spec

=============================================================================
