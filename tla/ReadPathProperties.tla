------------------------ MODULE ReadPathProperties ------------------------
(***************************************************************************)
(* What ReadPath must satisfy, and what the comments of the code say of it *)
(* that the code does not do (the section at the end).                     *)
(***************************************************************************)
EXTENDS ReadPath

PCs == {"loop", "process", "arm", "wait", "exited", "WAIT_TIMEOUT"} \cup Events

RequestTypes ==
    /\ length \in [Requests -> 0 .. MaxLength]
    /\ info \in [Requests -> 0 .. MaxLength]
    /\ waitTimeouts \in [Requests -> Nat]
    /\ buffer \in [Requests -> [Offsets -> Byte]]
    /\ outcome \in [Requests -> [status : Statuses, information : 0 .. MaxLength,
                                 by : Sites]]

OwnerTypes ==
    /\ readQueue \in Seq(Requests)
    /\ current \in Requests \cup {None}
    /\ cancelled \subseteq Requests
    /\ marked \in BOOLEAN
    /\ cancelling \subseteq Requests

ReadTypes ==
    /\ needed \in 0 .. MaxLength
    /\ timers \in ReadTimersOf
    /\ bytesFromLastRead \in 0 .. MaxLength
    /\ timeouts \in SerialTimeouts
    /\ newTimeouts \in SerialTimeouts

ThreadTypes ==
    /\ terminate \in BOOLEAN
    /\ pc \in PCs
    /\ fdRead \in BOOLEAN
    /\ waitTimeout \in BOOLEAN
    /\ cleanup \in {"idle", "terminate", "signal", "join", "done"}

EventTypes ==
    /\ signaled \subseteq Events
    /\ left \in [Timers -> Nat \cup {Stopped}]
    /\ callbacks \subseteq Callbacks

SocketTypes ==
    /\ socket \in {"open", "INVALID_SOCKET"}
    /\ peer \in {"up", "closed", "reset"}
    /\ sent \in 0 .. MaxBytes
    /\ taken \in 0 .. sent
    /\ fdRecorded \in BOOLEAN
    /\ fdEnabled \in BOOLEAN

(* Every variable has its type; no byte is taken that was not sent, and no *)
(* read receives more than the buffer holds.                               *)
TypeOK ==
    /\ RequestTypes /\ OwnerTypes /\ ReadTypes
    /\ ThreadTypes /\ EventTypes /\ SocketTypes

----------------------------------------------------------------------------
(* Safety.                                                                 *)

Queued(r) == \E i \in DOMAIN readQueue : readQueue[i] = r

(* Every issued read is in one place only: in the read queue (once), in    *)
(* CurrentRequest, or completed.  The queue, the client thread and the     *)
(* framework's cancellation hand requests to each other without a lock of  *)
(* the driver's; a read in two places would be completed twice, a read in  *)
(* none never.                                                             *)
EachReadInOnePlace ==
    /\ \A i, j \in DOMAIN readQueue : readQueue[i] = readQueue[j] => i = j
    /\ \A r \in Requests : Queued(r) => IsPending(r) /\ r # current
    /\ current # None => IsPending(current)
    /\ \A r \in Requests : IsPending(r) => Queued(r) \/ r = current

(* NumberNeededForRead and the request's own Information are two counts of *)
(* one thing.  They agree for as long as the thread holds the request, and *)
(* a held request has room: recv is never called with a length of zero,    *)
(* whose result 0 processRequest would take for a closed connection.       *)
NeededMatchesInformation ==
    current # None =>
        /\ needed = length[current] - info[current]
        /\ needed > 0

(* Every byte recv took from the stream is in exactly one request, and the *)
(* bytes of a request are consecutive bytes of the stream, in order: no    *)
(* byte is duplicated, reordered or overwritten by a later recv into the   *)
(* same buffer.                                                            *)
BytesInOrder ==
    /\ \A r \in Requests : \A i \in 1 .. info[r] - 1 :
           buffer[r][i] = buffer[r][i - 1] + 1
    /\ \A b \in 1 .. taken : \E r \in Requests :
           /\ \E i \in 0 .. info[r] - 1 : buffer[r][i] = b
           /\ \A s \in Requests \ {r} : \A i \in 0 .. info[s] - 1 :
                  buffer[s][i] # b

(* A cancellation is not lost while the thread sleeps: if the read it      *)
(* holds has been cancelled, CancelEvent is signaled or about to be.       *)
CancelWakesTheThread ==
    pc = "wait" /\ current \in cancelled =>
        current \in cancelling \/ "CancelEvent" \in signaled

(* While the thread sleeps holding a read, each timer that read uses is     *)
(* running, or its callback or its event is on the way: restarting the     *)
(* timers at every iteration, callbacks that come late, and timeouts read  *)
(* while IOCTL_SERIAL_SET_TIMEOUTS overwrites them never leave the read    *)
(* without its wake-up.                                                    *)
HeldReadHasItsWakeUp ==
    pc = "wait" /\ current # None /\ cleanup = "idle" =>
        \A t \in Timers :
            (IF t = "TotalTimerEvent" THEN timers.UseTotalTimer
                                      ELSE timers.UseIntervalTimer)
                => left[t] # Stopped \/ t \in callbacks \cup signaled

(* CancelEvent carries no request.  When a cancelled read is completed on  *)
(* another path the event survives it and ends the next read the thread    *)
(* holds, which nobody cancelled.  This can happen only as often as        *)
(* cancelled reads were completed otherwise.                               *)
StrayCancelsAreAccountedFor ==
    LET byEvent == {r \in Requests : outcome[r].by = "CancelEvent"}
        otherwise == {r \in cancelled :
                        outcome[r].by \notin {"none", "queue", "CancelEvent"}}
    IN  Cardinality(byEvent \ cancelled) <= Cardinality(otherwise)

(* The bytes that reach the application: a read that succeeds hands over   *)
(* every byte it received; received bytes are lost only with a read that   *)
(* is given up with information 0, and no completion claims more bytes     *)
(* than were received.                                                     *)
LossOnlyOnGivingUp ==
    \A r \in Requests : Issued(r) /\ outcome[r].status # Pending =>
        \/ outcome[r].information = info[r]
        \/ /\ outcome[r].information = 0
           /\ outcome[r].by \in {"WAIT_TIMEOUT", "recv", "mark", "CancelEvent",
                                 "ThreadEvent"}
           /\ outcome[r].status # "SUCCESS"

(* A completed read stays completed the way it was: no second completion,  *)
(* and its buffer, which is the application's again, is not written.       *)
CompletedOnce ==
    [][\A r \in Requests : outcome[r].status # Pending =>
          UNCHANGED <<outcome[r], buffer[r], info[r]>>]_vars

----------------------------------------------------------------------------
(* Refinement.                                                             *)

Waiting == IF current = None THEN readQueue ELSE <<current>> \o readQueue

ReceivedBytes == [r \in Requests |-> [i \in 1 .. info[r] |-> buffer[r][i - 1]]]

Reported ==
    [r \in Requests |->
        IF outcome[r].status = Pending THEN -1 ELSE outcome[r].information]

Service == INSTANCE ReadService WITH
    waiting  <- Waiting,
    received <- ReceivedBytes,
    reported <- Reported

(* Queue, thread, cancellation and timers together are a ReadService: they *)
(* serve the reads in the order they were issued, each with the next bytes *)
(* of the stream, and end a read that is full at once.                     *)
ImplementsReadService == Service!Spec

----------------------------------------------------------------------------
(* Liveness, under FairSpec.                                               *)

Completed(r) == outcome[r].status # Pending

(* A cancelled read is completed, whatever the thread was doing with it,   *)
(* unless the thread is being terminated or has lost its socket.           *)
CancelledReadCompletes ==
    \A r \in Requests :
        r \in cancelled ~> Completed(r) \/ terminate \/ socket # "open"

(* A read that uses neither timer is bounded by the waits of 500 ms.       *)
UntimedReadCompletes ==
    \A r \in Requests :
        current = r /\ ~timers.UseIntervalTimer /\ ~timers.UseTotalTimer
            ~> Completed(r) \/ terminate \/ socket # "open"

(* A read that uses the total timer and not the interval timer ends.       *)
TotalTimeoutCompletes ==
    \A r \in Requests :
        current = r /\ timers.UseTotalTimer /\ ~timers.UseIntervalTimer
            ~> Completed(r) \/ terminate \/ socket # "open"

(* Once ThreadEvent is signaled the thread leaves its function, although   *)
(* no device callback runs while CleanupNetwork waits.                     *)
TerminationEndsTheThread == cleanup = "join" ~> pc = "exited"

----------------------------------------------------------------------------
(* What comments of the code say and the code does not do.                 *)

(* network.cpp, calculateReadTimers, case 1: with both total timeouts 0    *)
(* "then we return immediately with whatever we've got, even if it was     *)
(* zero": such a read never waits.                                         *)
ReturnImmediately ==
    pc = "wait" /\ current # None => ~timers.returnWithWhatsPresent

(* network.cpp, ClientThread: "if the request was not completed wait for   *)
(* events": the thread does not go to sleep over a queued read when the    *)
(* request it held was completed.                                          *)
NoSleepOverQueuedRead ==
    pc = "wait" /\ current = None /\ readQueue # << >> =>
        signaled \cup callbacks # {}

(* network.cpp, calculateReadTimers, case 2: "if nothing is there, then    *)
(* use the timeouts as specified": only a read that uses the total timer   *)
(* is ended by it.                                                         *)
TotalTimerEndsOnlyItsReads ==
    [][\A r \in Requests :
          outcome'[r] # outcome[r] /\ outcome'[r].by = "TotalTimerEvent"
              => timers.UseTotalTimer]_vars

============================================================================
