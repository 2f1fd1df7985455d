--------------------------- MODULE WriteService ---------------------------
(***************************************************************************)
(* What the write side of the port promises the application, without       *)
(* sockets, threads and configurations: writes are served one at a time,   *)
(* in the order in which they arrive; a write that is served puts a        *)
(* beginning of itself on the wire, in one piece, until it is full or      *)
(* given up; and its completion is final and puts nothing more there.      *)
(*                                                                         *)
(* A write may be dropped unserved, and is then never completed.  The end  *)
(* of one that is served does not tell how much of it was taken.           *)
(***************************************************************************)
EXTENDS Integers, Sequences

CONSTANTS
    MaxWrites,    \* the writes are 1 .. MaxWrites, in the order they arrive
    WriteLength   \* bytes of each

VARIABLES
    state,    \* of each write: "new", "dropped", "served" or "completed"
    stream    \* the bytes on the wire: <<write, place in the write>>

serviceVars == <<state, stream>>

Writes == 1 .. MaxWrites

Init ==
    /\ state = [w \in Writes |-> "new"]
    /\ stream = << >>

Goes(w, from, to) ==
    /\ state[w] = from
    /\ state' = [state EXCEPT ![w] = to]

Arrive(w) ==
    /\ \A v \in Writes : state[v] # "served"
    /\ \A v \in 1 .. w - 1 : state[v] # "new"
    /\ Goes(w, "new", "served") \/ Goes(w, "new", "dropped")
    /\ UNCHANGED stream

(* How much of the write that is served is on the wire: what is there of   *)
(* it is the end of the stream.                                            *)
Taken(w) ==
    IF stream # << >> /\ stream[Len(stream)][1] = w THEN stream[Len(stream)][2] ELSE 0

Put(w, n) ==
    /\ state[w] = "served"
    /\ Taken(w) + n <= WriteLength
    /\ stream' = stream \o [i \in 1 .. n |-> <<w, Taken(w) + i>>]
    /\ UNCHANGED state

Complete(w) == Goes(w, "served", "completed") /\ UNCHANGED stream

Next ==
    \E w \in Writes :
        \/ Arrive(w) \/ Complete(w)
        \/ \E n \in 1 .. WriteLength : Put(w, n)

Spec == Init /\ [][Next]_serviceVars

===========================================================================
