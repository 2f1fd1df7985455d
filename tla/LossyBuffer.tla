---------------------------- MODULE LossyBuffer ----------------------------
(***************************************************************************)
(* What ringbuffer.h promises to one producer and one consumer: a buffer   *)
(* of Capacity bytes that takes "as much as we can and drop[s] the rest".  *)
(* The bytes that it takes are numbered 1, 2, ..., and leave in that order,*)
(* so that two counts say what it holds.  Each side looks first, and acts  *)
(* later on what it saw, whatever the other side has done meanwhile.       *)
(***************************************************************************)
EXTENDS Integers

CONSTANTS
    Capacity,   \* bytes that the buffer can hold
    MaxChunk    \* bound: the length of a write or a read

VARIABLES
    accepted,   \* how many bytes it has taken
    delivered,  \* how many of them have left
    taking,     \* how many the producer has decided to put
    giving      \* how many the consumer has decided to get

vars == <<accepted, delivered, taking, giving>>

Least(m, n) == IF m < n THEN m ELSE n

Init == accepted = 0 /\ delivered = 0 /\ taking = 0 /\ giving = 0

Offer(n) ==
    /\ taking = 0
    /\ taking' = Least(n, Capacity - (accepted - delivered))
    /\ UNCHANGED <<accepted, delivered, giving>>

Accept ==
    /\ accepted' = accepted + taking
    /\ taking' = 0
    /\ UNCHANGED <<delivered, giving>>

Request(n) ==
    /\ giving = 0
    /\ giving' = Least(n, accepted - delivered)
    /\ UNCHANGED <<accepted, delivered, taking>>

Deliver ==
    /\ delivered' = delivered + giving
    /\ giving' = 0
    /\ UNCHANGED <<accepted, taking>>

Next == Accept \/ Deliver \/ \E n \in 1 .. MaxChunk : Offer(n) \/ Request(n)

Spec == Init /\ [][Next]_vars

============================================================================
