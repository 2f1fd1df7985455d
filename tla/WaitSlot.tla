------------------------------ MODULE WaitSlot ------------------------------
(***************************************************************************)
(* What the port promises to those who wait for an event of it: a place    *)
(* for one.  A WAIT_ON_MASK that comes takes the place, and the one that   *)
(* had it fails; a new mask ends the one that has it, with an answer that  *)
(* depends on its own buffer alone; and after the removal of the device    *)
(* there is no place any more.  An answer is final.                        *)
(***************************************************************************)
CONSTANTS
    Waits,        \* the requests that may wait
    SmallWaits,   \* those of them that have no room for the answer
    None          \* no request

VARIABLES
    waiter,       \* the request that has the place, or None
    outcome,      \* of each request: "none" until it is answered
    closed        \* there is no place any more

slotVars == <<waiter, outcome, closed>>

Init ==
    /\ waiter = None
    /\ outcome = [w \in Waits |-> "none"]
    /\ closed = FALSE

IsNew(w) == outcome[w] = "none" /\ w # waiter

(* The outcomes, once whoever has the place is answered.                   *)
WaiterGets(result) == [w \in Waits |-> IF w = waiter THEN result ELSE outcome[w]]

TakePlace(w) ==
    /\ IsNew(w) /\ ~closed
    /\ waiter' = w
    /\ outcome' = WaiterGets("unsuccessful")
    /\ UNCHANGED closed

Refuse(w) ==
    /\ IsNew(w) /\ closed
    /\ outcome' = [outcome EXCEPT ![w] = "busy"]
    /\ UNCHANGED <<waiter, closed>>

SetMask ==
    /\ waiter # None
    /\ waiter' = None
    /\ outcome' = WaiterGets(IF waiter \in SmallWaits THEN "too small" ELSE "success")
    /\ UNCHANGED closed

GiveUp ==
    /\ waiter # None
    /\ waiter' = None
    /\ outcome' = WaiterGets("cancelled")
    /\ UNCHANGED closed

Close ==
    /\ ~closed
    /\ closed' = TRUE
    /\ waiter' = None
    /\ outcome' = WaiterGets("cancelled")

Next == SetMask \/ GiveUp \/ Close \/ \E w \in Waits : TakePlace(w) \/ Refuse(w)

Spec == Init /\ [][Next]_slotVars

=============================================================================
