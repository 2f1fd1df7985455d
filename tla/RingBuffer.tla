----------------------------- MODULE RingBuffer -----------------------------
(***************************************************************************)
(* The ring buffer of ringbuffer.cpp, with one producer and one consumer.  *)
(* Pointers are offsets from Base, so that End is Size.  A byte stands for *)
(* its place among the bytes that were put; one that is dropped has none.  *)
(*                                                                         *)
(* When a copy ends exactly at End, the code stores End in the pointer and *)
(* Base in a second store.  Who sees the first depends on the mode:        *)
(*   "locked"    the callbacks of the driver, which take the device lock;  *)
(*   "merged"    no lock, and a build that makes one store of the two;     *)
(*   "unlocked"  no lock, and both stores.                                 *)
(***************************************************************************)
EXTENDS Integers

CONSTANTS
    Modes,      \* those to consider
    Size,       \* of the buffer
    MaxChunk,   \* bound: the DataSize of a call
    MaxBytes    \* bound: how many bytes are put

ASSUME RingBufferAssumption ==
    /\ Modes \subseteq {"locked", "merged", "unlocked"}
    /\ Size \in Nat \ {0}
    /\ MaxChunk \in Nat /\ MaxBytes \in Nat

End == Size
Offsets == 0 .. Size - 1

VARIABLES
    mode,
    ring,        \* the bytes; 0 is what the memory held before
    head, tail,  \* Head and Tail
    (* the producer, in RingBufferWrite *)
    writer,      \* its next step
    toWrite,     \* bytesToCopy
    written,     \* how many of them are copied
    accepted,    \* how many bytes have been put, in all
    (* the consumer, in RingBufferRead *)
    reader,      \* its next step
    toRead,      \* DataSize, which is *BytesCopied
    read,        \* how many of them are copied
    byte,        \* the last one
    delivered    \* how many bytes have been got, in all

writerVars == <<tail, writer, toWrite, written, accepted>>
readerVars == <<head, reader, toRead, read, byte, delivered>>
vars == <<mode, ring, writerVars, readerVars>>

(* RingBufferInitialize.                                                   *)
Init ==
    /\ mode \in Modes
    /\ ring = [o \in Offsets |-> 0]
    /\ head = 0 /\ tail = 0
    /\ writer = "idle" /\ toWrite = 0 /\ written = 0 /\ accepted = 0
    /\ reader = "idle" /\ toRead = 0 /\ read = 0 /\ byte = 0 /\ delivered = 0

----------------------------------------------------------------------------

Least(m, n) == IF m < n THEN m ELSE n

(* mutants: the byte that stays unused is forgotten in every case, or only *)
(* when the data has not wrapped around.                                   *)
SpaceOfAll(h, t) == IF t < h THEN h - t ELSE Size - (t - h)
SpaceUnwrapped(h, t) ==
    IF t = h THEN Size - 1 ELSE IF t < h THEN h - t - 1 ELSE Size - (t - h)

(* RingBufferGetAvailableSpace, of the snapshots of Head and Tail.         *)
AvailableSpace(h, t) ==
    LET tailPlusOne == IF t + 1 = End THEN 0 ELSE t + 1 IN
    IF tailPlusOne = h THEN 0
    ELSE IF t = h THEN Size - 1
    ELSE IF t > h THEN Size - (t - h) - 1
    ELSE (h - t) - 1

(* RingBufferGetAvailableData.  A space below 0 is a size_t that this      *)
(* subtraction brings back.                                                *)
AvailableData(h, t) == Size - AvailableSpace(h, t) - 1

(* Where byte i of a copy at p goes to or comes from: the copy is made in  *)
(* two parts if it wraps around the end.                                   *)
Place(p, i) == IF p + i < End THEN p + i ELSE p + i - Size

(* mutant: a copy that wraps leaves the pointer one place short.           *)
ShortAdvance(p, n) == IF p + n > End THEN p + n - Size - 1 ELSE p + n

(* The first store to a pointer after a copy of n bytes at p.              *)
Advanced(p, n) == IF p + n > End THEN p + n - Size ELSE p + n

Merged(p) == IF mode = "merged" /\ p = End THEN 0 ELSE p

----------------------------------------------------------------------------
(* RingBufferWrite.                                                        *)

Write(n) ==
    /\ writer = "idle"
    /\ mode = "locked" => reader = "idle"
    /\ tail < End
    /\ accepted + n <= MaxBytes
    /\ toWrite' = Least(AvailableSpace(head, tail), n)
    /\ writer' = IF toWrite' = 0 THEN "idle" ELSE "copy"
    /\ UNCHANGED <<mode, ring, tail, written, accepted, readerVars>>

CopyIn ==
    /\ writer = "copy"
    /\ ring' = [ring EXCEPT ![Place(tail, written)] = accepted + written + 1]
    /\ written' = written + 1
    /\ writer' = IF written' = toWrite THEN "advance" ELSE "copy"
    /\ UNCHANGED <<mode, tail, toWrite, accepted, readerVars>>

AdvanceTail ==
    /\ writer = "advance"
    /\ tail' = Merged(Advanced(tail, toWrite))
    /\ writer' = IF tail' = End THEN "wrap" ELSE "idle"
    /\ accepted' = accepted + toWrite
    /\ toWrite' = 0 /\ written' = 0
    /\ UNCHANGED <<mode, ring, readerVars>>

WrapTail ==
    /\ writer = "wrap"
    /\ tail' = 0
    /\ writer' = "idle"
    /\ UNCHANGED <<mode, ring, toWrite, written, accepted, readerVars>>

----------------------------------------------------------------------------
(* RingBufferRead.                                                         *)

Read(n) ==
    /\ reader = "idle"
    /\ mode = "locked" => writer = "idle"
    /\ head < End
    /\ toRead' = Least(AvailableData(head, tail), n)
    /\ reader' = IF toRead' = 0 THEN "idle" ELSE "copy"
    /\ UNCHANGED <<mode, ring, head, read, byte, delivered, writerVars>>

CopyOut ==
    /\ reader = "copy"
    /\ byte' = ring[Place(head, read)]
    /\ read' = read + 1
    /\ reader' = IF read' = toRead THEN "advance" ELSE "copy"
    /\ UNCHANGED <<mode, ring, head, toRead, delivered, writerVars>>

AdvanceHead ==
    /\ reader = "advance"
    /\ head' = Merged(Advanced(head, toRead))
    /\ reader' = IF head' = End THEN "wrap" ELSE "idle"
    /\ delivered' = delivered + toRead
    /\ toRead' = 0 /\ read' = 0
    /\ UNCHANGED <<mode, ring, byte, writerVars>>

WrapHead ==
    /\ reader = "wrap"
    /\ head' = 0
    /\ reader' = "idle"
    /\ UNCHANGED <<mode, ring, toRead, read, byte, delivered, writerVars>>

----------------------------------------------------------------------------

Producer == (\E n \in 1 .. MaxChunk : Write(n)) \/ CopyIn \/ AdvanceTail \/ WrapTail
Consumer == (\E n \in 1 .. MaxChunk : Read(n)) \/ CopyOut \/ AdvanceHead \/ WrapHead

Next == Producer \/ Consumer

Spec == Init /\ [][Next]_vars

----------------------------------------------------------------------------

RingTypeOK ==
    /\ mode \in Modes
    /\ ring \in [Offsets -> Nat]
    /\ head \in 0 .. End /\ tail \in 0 .. End
    /\ writer \in {"idle", "copy", "advance", "wrap"}
    /\ reader \in {"idle", "copy", "advance", "wrap"}
    /\ toWrite \in 0 .. Size - 1 /\ written \in 0 .. toWrite
    /\ toRead \in 0 .. Size - 1 /\ read \in 0 .. toRead
    /\ accepted \in Nat /\ delivered \in Nat /\ byte \in Nat

(* What the consumer copies are the bytes that the producer put, each once *)
(* and in their order: copied byte by byte and wrapping around the end, on *)
(* snapshots of two pointers that move meanwhile.                          *)
BytesDelivered == read > 0 => byte = delivered + read

(* The ring buffer is a lossy buffer of Size - 1 bytes: a call drops, or   *)
(* leaves, a byte only if the buffer was full, or empty, when it looked.   *)
Buffer == INSTANCE LossyBuffer WITH
    Capacity <- Size - 1,
    taking   <- toWrite,
    giving   <- toRead

ImplementsLossyBuffer == Buffer!Spec

============================================================================
