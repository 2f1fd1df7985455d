---------------------------- MODULE ReadService ----------------------------
(***************************************************************************)
(* What the read side of the port promises the application, without queue, *)
(* thread, events and timers: reads are served in the order in which they  *)
(* were issued, from the one stream of bytes that the peer sends; only the *)
(* oldest receives; a read that is full ends; and the end of a read, at    *)
(* whatever time and for whatever reason, reports all that it received or  *)
(* nothing, and is final.                                                  *)
(***************************************************************************)
EXTENDS Integers, SequencesExt

CONSTANTS
    Requests,   \* the reads that may be issued, each once
    MaxLength   \* bound: the longest read

VARIABLES
    waiting,    \* the reads that have not ended, oldest first
    length,     \* of each read; 0 while it has not been issued
    received,   \* the bytes of each read, by their place in the stream
    reported,   \* the length that its end reported, or NotYet
    taken       \* how many bytes of the stream the reads have received

serviceVars == <<waiting, length, received, reported, taken>>

NotYet == -1

Init ==
    /\ waiting = << >>
    /\ length = [r \in Requests |-> 0]
    /\ received = [r \in Requests |-> << >>]
    /\ reported = [r \in Requests |-> NotYet]
    /\ taken = 0

Report(r, n) == reported' = [reported EXCEPT ![r] = n]

Issue(r, n) ==
    /\ length[r] = 0
    /\ length' = [length EXCEPT ![r] = n]
    /\ waiting' = Append(waiting, r)
    /\ UNCHANGED <<received, reported, taken>>

Refuse(r, n) ==
    /\ length[r] = 0
    /\ length' = [length EXCEPT ![r] = n]
    /\ Report(r, 0)
    /\ UNCHANGED <<waiting, received, taken>>

(* The next n bytes go to the oldest read, which may end thereby.          *)
Receive(n) ==
    /\ waiting # << >>
    /\ LET r == Head(waiting)
           now == Len(received[r]) + n
       IN  /\ now <= length[r]
           /\ received' = [received EXCEPT ![r] = @ \o [i \in 1 .. n |-> taken + i]]
           /\ \/ now < length[r] /\ UNCHANGED <<waiting, reported>>
              \/ waiting' = Tail(waiting) /\ Report(r, now)
    /\ taken' = taken + n
    /\ UNCHANGED length

(* A read ends without receiving more.                                     *)
End(i, n) ==
    /\ waiting' = RemoveAt(waiting, i)
    /\ n \in {0, Len(received[waiting[i]])}
    /\ Report(waiting[i], n)
    /\ UNCHANGED <<length, received, taken>>

Next ==
    \/ \E r \in Requests, n \in 1 .. MaxLength : Issue(r, n) \/ Refuse(r, n)
    \/ \E n \in 1 .. MaxLength : Receive(n)
    \/ \E i \in DOMAIN waiting, n \in 0 .. MaxLength : End(i, n)

Spec == Init /\ [][Next]_serviceVars

============================================================================
