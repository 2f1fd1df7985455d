------------------------- MODULE RingBufferProofs -------------------------
(***************************************************************************)
(* Of RingBuffer, for a buffer, calls and bytes of any number: if no mode  *)
(* is "unlocked", the consumer gets the bytes that the producer put, in    *)
(* their order, and the ring buffer implements LossyBuffer.                *)
(*                                                                         *)
(* The pointers only say where the data is; the invariant ties them to the *)
(* two counts: Tail is as far from Head as there are bytes in the buffer   *)
(* (Distance), and from Head on the ring holds the bytes that follow the   *)
(* last one delivered, with those being copied in behind them (Filled).    *)
(* A pointer that is still End stands for Base (Norm); it is seen by       *)
(* nobody, as the calls exclude one another in the only mode that has it.  *)
(***************************************************************************)
EXTENDS RingBuffer, TLAPS

Norm(p) == IF p = End THEN 0 ELSE p

Used == accepted - delivered

Distance ==
    /\ Used \in 0 .. Size - 1
    /\ Norm(tail) = Place(Norm(head), Used)

Filled ==
    \A i \in Nat : i < Used + written =>
        ring[Place(Norm(head), i)] = delivered + i + 1

ProducerCounts ==
    /\ writer \in {"idle", "wrap"} => toWrite = 0
    /\ writer = "copy" => written < toWrite
    /\ writer = "advance" => written = toWrite /\ toWrite > 0
    /\ toWrite <= Size - 1 - Used
    /\ tail = End <=> writer = "wrap"

ConsumerCounts ==
    /\ reader \in {"idle", "wrap"} => toRead = 0
    /\ reader = "copy" => read < toRead
    /\ reader = "advance" => read = toRead /\ toRead > 0
    /\ toRead <= Used
    /\ head = End <=> reader = "wrap"

Exclusion ==
    /\ mode = "locked" => writer = "idle" \/ reader = "idle"
    /\ mode # "locked" => mode = "merged" /\ writer # "wrap" /\ reader # "wrap"

IInv ==
    /\ RingTypeOK /\ Distance /\ Filled /\ ProducerCounts /\ ConsumerCounts
    /\ Exclusion /\ BytesDelivered

----------------------------------------------------------------------------

(* On the pointers that a call can see, the space is what the counts say.  *)
LEMMA SpaceIsWhatIsLeft ==
  ASSUME IInv, head < End, tail < End
  PROVE  AvailableSpace(head, tail) = Size - 1 - Used
  BY RingBufferAssumption
  DEF IInv, RingTypeOK, Distance, Norm, Place, AvailableSpace, Used, End

(* A call that starts sees no pointer that is End.                         *)
LEMMA CallsSeeNoEnd ==
  ASSUME IInv,
         \/ writer = "idle" /\ (mode = "locked" => reader = "idle")
         \/ reader = "idle" /\ (mode = "locked" => writer = "idle")
  PROVE  head < End /\ tail < End
  BY RingBufferAssumption
  DEF IInv, RingTypeOK, ProducerCounts, ConsumerCounts, Exclusion, End

LEMMA InitIInv ==
  ASSUME "unlocked" \notin Modes, Init
  PROVE  IInv
<1> USE RingBufferAssumption DEF Init, Used, End
<1>1. RingTypeOK /\ BytesDelivered /\ Exclusion
  BY DEF RingTypeOK, BytesDelivered, Exclusion, Offsets
<1>2. Distance /\ Filled
  BY DEF Distance, Filled, Norm, Place
<1>3. ProducerCounts /\ ConsumerCounts
  BY DEF ProducerCounts, ConsumerCounts
<1> QED
  BY <1>1, <1>2, <1>3 DEF IInv

LEMMA WriteStep ==
  ASSUME IInv, NEW n \in 1 .. MaxChunk, Write(n)
  PROVE  IInv'
<1> USE RingBufferAssumption DEF Write, writerVars, readerVars, Used, End
<1>0. AvailableSpace(head, tail) = Size - 1 - Used
  BY CallsSeeNoEnd, SpaceIsWhatIsLeft
<1>1. RingTypeOK' /\ Exclusion' /\ BytesDelivered'
  BY <1>0 DEF IInv, RingTypeOK, Exclusion, BytesDelivered, ProducerCounts,
         ConsumerCounts, Distance, Least
<1>2. Distance'
  BY <1>0 DEF IInv, Distance, RingTypeOK, ProducerCounts, ConsumerCounts, Exclusion,
         Norm, Place
<1>3. Filled'
  BY <1>0 DEF IInv, Filled, Distance, RingTypeOK, ProducerCounts, ConsumerCounts,
         Exclusion, Norm, Place
<1>4. ProducerCounts' /\ ConsumerCounts'
  BY <1>0 DEF IInv, RingTypeOK, Distance, ProducerCounts, ConsumerCounts, Exclusion,
         Least
<1> QED
  BY <1>1, <1>2, <1>3, <1>4 DEF IInv

LEMMA ReadStep ==
  ASSUME IInv, NEW n \in 1 .. MaxChunk, Read(n)
  PROVE  IInv'
<1> USE RingBufferAssumption DEF Read, writerVars, readerVars, Used, End
<1>0. AvailableData(head, tail) = Used
  BY CallsSeeNoEnd, SpaceIsWhatIsLeft DEF AvailableData, IInv, RingTypeOK
<1>1. RingTypeOK' /\ Exclusion' /\ BytesDelivered'
  BY <1>0 DEF IInv, RingTypeOK, Exclusion, BytesDelivered, ProducerCounts,
         ConsumerCounts, Distance, Least
<1>2. Distance'
  BY <1>0 DEF IInv, Distance, RingTypeOK, ProducerCounts, ConsumerCounts, Exclusion,
         Norm, Place
<1>3. Filled'
  BY <1>0 DEF IInv, Filled, Distance, RingTypeOK, ProducerCounts, ConsumerCounts,
         Exclusion, Norm, Place
<1>4. ProducerCounts' /\ ConsumerCounts'
  BY <1>0 DEF IInv, RingTypeOK, Distance, ProducerCounts, ConsumerCounts, Exclusion,
         Least
<1> QED
  BY <1>1, <1>2, <1>3, <1>4 DEF IInv

LEMMA CopyInStep ==
  ASSUME IInv, CopyIn
  PROVE  IInv'
<1> USE RingBufferAssumption DEF CopyIn, Offsets, writerVars, readerVars, Used, End
<1> DEFINE here == Place(tail, written)
<1>1. /\ here \in Offsets
      /\ here = Place(Norm(head), Used + written)
      /\ \A i \in Nat : i < Used + written => Place(Norm(head), i) # here
  BY DEF IInv, RingTypeOK, Distance, ProducerCounts, ConsumerCounts, Norm, Place
<1>2. ring' = [ring EXCEPT ![here] = accepted + written + 1]
  OBVIOUS
<1> HIDE DEF here
<1>3. ring' \in [Offsets -> Nat]
  <2>1. ring \in [Offsets -> Nat] /\ accepted + written + 1 \in Nat
    BY DEF IInv, RingTypeOK
  <2> QED
    BY <1>1, <1>2, <2>1
<1>4. RingTypeOK'
  BY <1>3 DEF IInv, RingTypeOK, ProducerCounts
<1>5. Exclusion' /\ BytesDelivered' /\ Distance'
  BY DEF IInv, Exclusion, BytesDelivered, Distance, Norm, Place
<1>6. Filled'
  <2> SUFFICES ASSUME NEW i \in Nat, i < Used + (written + 1)
               PROVE  ring'[Place(Norm(head), i)] = delivered + i + 1
    BY DEF Filled, Place, Norm
  <2>1. CASE i = Used + written
    BY <2>1, <1>1, <1>2 DEF IInv, RingTypeOK
  <2>2. CASE i < Used + written
    <3>1. Place(Norm(head), i) \in Offsets
      BY <2>2 DEF IInv, RingTypeOK, Distance, ProducerCounts, Norm, Place
    <3>2. ring[Place(Norm(head), i)] = delivered + i + 1
      BY <2>2 DEF IInv, Filled
    <3> QED
      BY <3>1, <3>2, <2>2, <1>1, <1>2 DEF IInv, RingTypeOK
  <2> QED
    BY <2>1, <2>2 DEF IInv, RingTypeOK
<1>7. ProducerCounts' /\ ConsumerCounts'
  BY DEF IInv, RingTypeOK, ProducerCounts, ConsumerCounts
<1> QED
  BY <1>4, <1>5, <1>6, <1>7 DEF IInv

LEMMA CopyOutStep ==
  ASSUME IInv, CopyOut
  PROVE  IInv'
<1> USE RingBufferAssumption DEF CopyOut, Offsets, writerVars, readerVars, Used, End
<1>0. byte' = delivered + read + 1
  <2>1. read \in Nat /\ read < Used + written /\ Norm(head) = head
    BY DEF IInv, RingTypeOK, ConsumerCounts, Distance, Norm
  <2> QED
    BY <2>1 DEF IInv, Filled
<1>1. RingTypeOK' /\ Exclusion' /\ BytesDelivered'
  BY <1>0 DEF IInv, RingTypeOK, Exclusion, BytesDelivered, ProducerCounts,
         ConsumerCounts, Distance, Least
<1>2. Distance'
  BY DEF IInv, Distance, RingTypeOK, ProducerCounts, ConsumerCounts, Exclusion,
         Norm, Place
<1>3. Filled'
  BY DEF IInv, Filled, Distance, RingTypeOK, ProducerCounts, ConsumerCounts,
         Exclusion, Norm, Place
<1>4. ProducerCounts' /\ ConsumerCounts'
  BY DEF IInv, RingTypeOK, Distance, ProducerCounts, ConsumerCounts, Exclusion,
         Least
<1> QED
  BY <1>1, <1>2, <1>3, <1>4 DEF IInv

LEMMA AdvanceTailStep ==
  ASSUME IInv, AdvanceTail
  PROVE  IInv'
<1> USE RingBufferAssumption DEF AdvanceTail, Advanced, Merged, writerVars, readerVars, Used, End
<1>1. RingTypeOK' /\ Exclusion' /\ BytesDelivered'
  BY DEF IInv, RingTypeOK, Exclusion, BytesDelivered, ProducerCounts,
         ConsumerCounts, Distance, Least
<1>2. Distance'
  BY DEF IInv, Distance, RingTypeOK, ProducerCounts, ConsumerCounts, Exclusion,
         Norm, Place
<1>3. Filled'
  BY DEF IInv, Filled, Distance, RingTypeOK, ProducerCounts, ConsumerCounts,
         Exclusion, Norm, Place
<1>4. ProducerCounts' /\ ConsumerCounts'
  BY DEF IInv, RingTypeOK, Distance, ProducerCounts, ConsumerCounts, Exclusion,
         Least
<1> QED
  BY <1>1, <1>2, <1>3, <1>4 DEF IInv

LEMMA AdvanceHeadStep ==
  ASSUME IInv, AdvanceHead
  PROVE  IInv'
<1> USE RingBufferAssumption DEF AdvanceHead, Advanced, Merged, writerVars, readerVars, Used, End
<1>1. RingTypeOK' /\ Exclusion' /\ BytesDelivered'
  BY DEF IInv, RingTypeOK, Exclusion, BytesDelivered, ProducerCounts,
         ConsumerCounts, Distance, Least
<1>2. Distance'
  BY DEF IInv, Distance, RingTypeOK, ProducerCounts, ConsumerCounts, Exclusion,
         Norm, Place
<1>3. Filled'
  <2> SUFFICES ASSUME NEW i \in Nat, i < (Used + written)'
               PROVE  ring[Place(Norm(head'), i)] = (delivered + toRead) + i + 1
    BY DEF Filled, Place, Norm
  <2>1. toRead + i \in Nat /\ toRead + i < Used + written
    BY DEF IInv, RingTypeOK
  <2>2. Place(Norm(head'), i) = Place(Norm(head), toRead + i)
    BY <2>1 DEF IInv, RingTypeOK, Distance, ProducerCounts, ConsumerCounts, Norm,
                Place
  <2>3. ring[Place(Norm(head), toRead + i)] = delivered + (toRead + i) + 1
    BY <2>1 DEF IInv, Filled
  <2> QED
    BY <2>2, <2>3 DEF IInv, RingTypeOK
<1>4. ProducerCounts' /\ ConsumerCounts'
  BY DEF IInv, RingTypeOK, Distance, ProducerCounts, ConsumerCounts, Exclusion,
         Least
<1> QED
  BY <1>1, <1>2, <1>3, <1>4 DEF IInv

LEMMA WrapTailStep ==
  ASSUME IInv, WrapTail
  PROVE  IInv'
<1> USE RingBufferAssumption DEF WrapTail, writerVars, readerVars, Used, End
<1>1. RingTypeOK' /\ Exclusion' /\ BytesDelivered'
  BY DEF IInv, RingTypeOK, Exclusion, BytesDelivered, ProducerCounts,
         ConsumerCounts, Distance, Least
<1>2. Distance'
  BY DEF IInv, Distance, RingTypeOK, ProducerCounts, ConsumerCounts, Exclusion,
         Norm, Place
<1>3. Filled'
  BY DEF IInv, Filled, Distance, RingTypeOK, ProducerCounts, ConsumerCounts,
         Exclusion, Norm, Place
<1>4. ProducerCounts' /\ ConsumerCounts'
  BY DEF IInv, RingTypeOK, Distance, ProducerCounts, ConsumerCounts, Exclusion,
         Least
<1> QED
  BY <1>1, <1>2, <1>3, <1>4 DEF IInv

LEMMA WrapHeadStep ==
  ASSUME IInv, WrapHead
  PROVE  IInv'
<1> USE RingBufferAssumption DEF WrapHead, writerVars, readerVars, Used, End
<1>1. RingTypeOK' /\ Exclusion' /\ BytesDelivered'
  BY DEF IInv, RingTypeOK, Exclusion, BytesDelivered, ProducerCounts,
         ConsumerCounts, Distance, Least
<1>2. Distance'
  BY DEF IInv, Distance, RingTypeOK, ProducerCounts, ConsumerCounts, Exclusion,
         Norm, Place
<1>3. Filled'
  BY DEF IInv, Filled, Distance, RingTypeOK, ProducerCounts, ConsumerCounts,
         Exclusion, Norm, Place
<1>4. ProducerCounts' /\ ConsumerCounts'
  BY DEF IInv, RingTypeOK, Distance, ProducerCounts, ConsumerCounts, Exclusion,
         Least
<1> QED
  BY <1>1, <1>2, <1>3, <1>4 DEF IInv

LEMMA NextIInv == IInv /\ [Next]_vars => IInv'
<1>1. ASSUME IInv, UNCHANGED vars PROVE IInv'
  BY <1>1 DEF vars, writerVars, readerVars, IInv, RingTypeOK, Distance, Filled,
     ProducerCounts, ConsumerCounts, Exclusion, BytesDelivered, Used
<1>2. ASSUME IInv, Next PROVE IInv'
  BY <1>2, WriteStep, CopyInStep, AdvanceTailStep, WrapTailStep, ReadStep,
     CopyOutStep, AdvanceHeadStep, WrapHeadStep
  DEF Next, Producer, Consumer
<1> QED
  BY <1>1, <1>2

(* Without the mode "unlocked" the strengthened invariant always holds.    *)
THEOREM RingInductive ==
  ASSUME "unlocked" \notin Modes
  PROVE  Spec => []IInv
<1>1. Init => IInv
  BY InitIInv
<1> QED
  BY <1>1, NextIInv, PTL DEF Spec

(* Pointers, counts and copies stay in their ranges: no copy leaves the    *)
(* buffer, and none is of Size bytes or more.                              *)
THEOREM RingTypeCorrect ==
  ASSUME "unlocked" \notin Modes
  PROVE  Spec => []RingTypeOK
<1>1. IInv => RingTypeOK
  BY DEF IInv
<1> QED
  BY <1>1, RingInductive, PTL

(* RingBufferRead hands out the bytes that RingBufferWrite took, each once *)
(* and in order, whatever the sizes of the buffer and of the calls.        *)
THEOREM BytesInTheirOrder ==
  ASSUME "unlocked" \notin Modes
  PROVE  Spec => []BytesDelivered
<1>1. IInv => BytesDelivered
  BY DEF IInv
<1> QED
  BY <1>1, RingInductive, PTL

----------------------------------------------------------------------------

LEMMA InitImplements == Init => Buffer!Init
  BY DEF Init, Buffer!Init

LEMMA StepImplements ==
  ASSUME IInv, Next
  PROVE  Buffer!Next \/ UNCHANGED Buffer!vars
<1> USE RingBufferAssumption DEF writerVars, readerVars, Used, End
<1>1. CASE \E n \in 1 .. MaxChunk : Write(n)
  <2>1. PICK n \in 1 .. MaxChunk : Write(n)
    BY <1>1
  <2>2. AvailableSpace(head, tail) = Size - 1 - Used /\ toWrite = 0
    BY <2>1, CallsSeeNoEnd, SpaceIsWhatIsLeft DEF Write, IInv, ProducerCounts
  <2>3. Buffer!Offer(n)
    BY <2>1, <2>2 DEF Write, Buffer!Offer, Least, Buffer!Least, IInv, RingTypeOK
  <2> QED
    BY <2>3 DEF Buffer!Next
<1>2. CASE \E n \in 1 .. MaxChunk : Read(n)
  <2>1. PICK n \in 1 .. MaxChunk : Read(n)
    BY <1>2
  <2>2. AvailableData(head, tail) = Used /\ toRead = 0
    BY <2>1, CallsSeeNoEnd, SpaceIsWhatIsLeft
    DEF Read, AvailableData, IInv, ConsumerCounts, RingTypeOK
  <2>3. Buffer!Request(n)
    BY <2>1, <2>2 DEF Read, Buffer!Request, Least, Buffer!Least, IInv, RingTypeOK
  <2> QED
    BY <2>3 DEF Buffer!Next
<1>3. CASE CopyIn \/ WrapTail \/ CopyOut \/ WrapHead
  BY <1>3 DEF CopyIn, WrapTail, CopyOut, WrapHead, Buffer!vars
<1>4. CASE AdvanceTail
  BY <1>4 DEF AdvanceTail, Buffer!Next, Buffer!Accept
<1>5. CASE AdvanceHead
  BY <1>5 DEF AdvanceHead, Buffer!Next, Buffer!Deliver
<1> QED
  BY <1>1, <1>2, <1>3, <1>4, <1>5 DEF Next, Producer, Consumer

(* Every step of the ring buffer is a step of the lossy buffer or leaves   *)
(* it as it is.                                                            *)
THEOREM RingImplementsBuffer ==
  ASSUME "unlocked" \notin Modes
  PROVE  Spec => ImplementsLossyBuffer
<1>1. IInv /\ [Next]_vars => [Buffer!Next]_(Buffer!vars)
  <2>1. ASSUME UNCHANGED vars PROVE UNCHANGED Buffer!vars
    BY <2>1 DEF vars, writerVars, readerVars, Buffer!vars
  <2> QED
    BY <2>1, StepImplements
<1> QED
  BY <1>1, InitImplements, RingInductive, PTL
  DEF Spec, ImplementsLossyBuffer, Buffer!Spec

============================================================================
