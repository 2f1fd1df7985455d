----------------------------- MODULE ReadPath -----------------------------
(***************************************************************************)
(* The read path of the virtual serial port: the reads an application      *)
(* issues, the manual queue they wait in, the client thread that serves    *)
(* them from a TCP socket, the two read timers, cancellation by the I/O    *)
(* manager, and the termination that CleanupNetwork requests of the thread.*)
(*                                                                         *)
(* Actors: the application and the I/O manager (EvtIoRead, CancelIo,       *)
(* SetTimeouts), the peer and the network (PeerSend, PeerClose,            *)
(* PeerReset), the timers (Tick), the framework's callbacks                *)
(* (Evt...), ClientThread, and the thread that runs CleanupNetwork.  Every *)
(* device callback runs under one device lock (SynchronizationScopeDevice),*)
(* which CleanupNetwork holds while it waits for ClientThread.             *)
(*                                                                         *)
(* A behaviour starts where ConfigureClient succeeded for the first time:  *)
(* the socket is connected and the thread has been created.                *)
(***************************************************************************)
EXTENDS Integers, SequencesExt, ReadTimers

CONSTANTS
    Requests,        \* the read requests the application may issue, each once
    None,            \* CurrentRequest = NULL
    MaxLength,       \* bound: the longest read
    MaxBytes,        \* bound: bytes the peer sends
    TimeoutChoices,  \* the SERIAL_TIMEOUTS values the application sets
    WaitUnits,       \* Globals.WaitUnits: waits of 500 ms before STATUS_TIMEOUT
    Disturbances     \* bound: what else happens, see AllDisturbances

AllDisturbances == {"reject", "cancel", "close", "reset", "cleanup"}

ASSUME ReadPathAssumption ==
    /\ None \notin Requests
    /\ MaxLength \in Nat \ {0}
    /\ MaxBytes \in Nat
    /\ TimeoutChoices \subseteq AcceptedTimeouts
    /\ WaitUnits \in Nat
    /\ Disturbances \subseteq AllDisturbances

(* ClientThread's eventArray: when several are signaled the lowest index   *)
(* wins.                                                                   *)
EventArray == <<"ClientSocketEvent", "ThreadEvent", "ReadQueueEvent",
                "CancelEvent", "IntervalTimerEvent", "TotalTimerEvent">>

Events == {"ClientSocketEvent", "ThreadEvent", "ReadQueueEvent",
           "CancelEvent", "IntervalTimerEvent", "TotalTimerEvent"}

(* mutant: CancelEvent created as a manual-reset event.                    *)
CancelEventManual == {"ClientSocketEvent", "ThreadEvent", "CancelEvent"}

(* A wait does not reset these two; WSAEnumNetworkEvents resets the first, *)
(* nothing resets the second.                                              *)
ManualResetEvents == {"ClientSocketEvent", "ThreadEvent"}

(* A timer is named by the event its callback signals.                     *)
Timers == {"IntervalTimerEvent", "TotalTimerEvent"}
Stopped == -1

(* Callbacks of the framework that signal one event each; a cancel         *)
(* callback belongs to a request and is kept in `cancelling'.              *)
Callbacks == {"ReadQueueEvent"} \cup Timers

Byte == 0 .. MaxBytes      \* 0: a buffer cell never written
Offsets == 0 .. MaxLength - 1

Pending == "pending"
Statuses == {Pending, "SUCCESS", "TIMEOUT", "CANCELLED", "UNSUCCESSFUL",
             "INVALID"}

(* Where a request was completed: an event of the wait, the receive call,  *)
(* MarkCancelableEx, the framework's queue, or EvtIoRead.                  *)
Sites == Events \cup {"none", "WAIT_TIMEOUT", "recv", "mark", "queue", "issue"}

VARIABLES
    (* requests: REQUEST_CONTEXT and what the application got *)
    length,            \* Length; 0 while the request has not been issued
    info,              \* Information: bytes received into the request
    waitTimeouts,      \* WaitTimeouts
    buffer,            \* the output buffer, by offset
    outcome,           \* completion status, information, and its site
    readQueue,         \* the manual ReadQueue
    cancelled,         \* requests the I/O manager has cancelled
    marked,            \* the current request is marked cancelable
    cancelling,        \* requests whose EvtReadRequestCancel is due
    (* the device context, as ClientThread uses it *)
    current,           \* CurrentRequest
    needed,            \* NumberNeededForRead
    timers,            \* flags and due times computed by calculateReadTimers
    bytesFromLastRead, \* BytesFromLastRead
    timeouts,          \* Timeouts
    newTimeouts,       \* what SetTimeouts is copying into Timeouts
    terminate,         \* TerminateThread
    (* ClientThread's own state *)
    pc,                \* where the thread is; an event name: woken by it
    fdRead,            \* FD_READ is set in networkEvents
    waitTimeout,       \* the local waitTimeout
    (* events, timers, callbacks *)
    signaled,          \* events that are signaled
    left,              \* ticks left of each timer, or Stopped
    callbacks,         \* callbacks the framework has yet to run
    (* the socket and the peer *)
    socket,            \* ClientSocket: "open" or "INVALID_SOCKET"
    peer,              \* "up", "closed" (gracefully) or "reset"
    sent,              \* bytes the peer has sent: 1 .. sent
    taken,             \* bytes recv has returned: 1 .. taken
    fdRecorded,        \* Winsock holds an FD_READ record for the socket
    fdEnabled,         \* Winsock records FD_READ when data arrives
    (* CleanupNetwork *)
    cleanup            \* its next step

requestVars == <<length, info, waitTimeouts, buffer, outcome>>
cancelVars  == <<cancelled, marked, cancelling>>
readVars    == <<current, needed, timers, bytesFromLastRead>>
timeoutVars == <<timeouts, newTimeouts>>
threadVars  == <<pc, fdRead, waitTimeout>>
eventVars   == <<signaled, left, callbacks>>
streamVars  == <<sent, taken, fdRecorded, fdEnabled>>
netVars     == <<socket, peer, streamVars>>

vars == <<requestVars, readQueue, cancelVars, readVars, timeoutVars,
          terminate, threadVars, eventVars, netVars, cleanup>>

----------------------------------------------------------------------------

Issued(r)    == length[r] > 0
IsPending(r) == Issued(r) /\ outcome[r].status = Pending
Unread       == sent - taken

RoomOfTheLongest(r) == MaxLength - info[r]   \* mutant: not this read's Length

Room(r) == length[r] - info[r]

Outcome(s, n, site) == [status |-> s, information |-> n, by |-> site]

(* WdfRequestCompleteWithInformation.                                      *)
Complete(r, s, n, site) ==
    outcome' = [outcome EXCEPT ![r] = Outcome(s, n, site)]

CompleteCurrentKeepsIt(s, n, site) ==        \* mutant: CurrentRequest not reset
    /\ Complete(current, s, n, site)
    /\ UNCHANGED current

CompleteCurrent(s, n, site) ==
    /\ Complete(current, s, n, site)
    /\ current' = None

(* The device lock is taken while CleanupNetwork or SetTimeouts runs.      *)
DeviceLockFree == cleanup \in {"idle", "done"} /\ newTimeouts = timeouts

Init ==
    /\ length       = [r \in Requests |-> 0]
    /\ info         = [r \in Requests |-> 0]
    /\ waitTimeouts = [r \in Requests |-> 0]
    /\ buffer       = [r \in Requests |-> [i \in Offsets |-> 0]]
    /\ outcome      = [r \in Requests |-> Outcome(Pending, 0, "none")]
    /\ readQueue = << >>
    /\ cancelled = {} /\ marked = FALSE /\ cancelling = {}
    /\ current = None
    /\ needed = 0
    /\ timers = CalculateReadTimers(NoTimeouts, 0)
    /\ bytesFromLastRead = 0
    /\ timeouts \in TimeoutChoices
    /\ newTimeouts = timeouts
    /\ terminate = FALSE
    /\ pc = "loop" /\ fdRead = FALSE /\ waitTimeout = FALSE
    /\ signaled = {} /\ callbacks = {}
    /\ left = [t \in Timers |-> Stopped]
    /\ socket = "open" /\ peer = "up"
    /\ sent = 0 /\ taken = 0
    /\ fdRecorded = FALSE /\ fdEnabled = TRUE
    /\ cleanup = "idle"

----------------------------------------------------------------------------
(* The application and the I/O manager.                                    *)

(* mutant: the request goes to the front of the queue.                     *)
EvtIoReadInFront(r, n) ==
    /\ DeviceLockFree
    /\ ~Issued(r)
    /\ length' = [length EXCEPT ![r] = n]
    /\ readQueue' = <<r>> \o readQueue
    /\ callbacks' = IF readQueue = << >> THEN callbacks \cup {"ReadQueueEvent"}
                                         ELSE callbacks
    /\ UNCHANGED <<info, waitTimeouts, buffer, outcome, cancelVars, readVars,
                   timeoutVars, terminate, threadVars, signaled, left, netVars,
                   cleanup>>

(* EvtIoRead forwards the request to the read queue; the framework is told *)
(* of a queue that was empty (WdfIoQueueReadyNotify).                      *)
EvtIoRead(r, n) ==
    /\ DeviceLockFree
    /\ ~Issued(r)
    /\ length' = [length EXCEPT ![r] = n]
    /\ readQueue' = Append(readQueue, r)
    /\ callbacks' = IF readQueue = << >> THEN callbacks \cup {"ReadQueueEvent"}
                                         ELSE callbacks
    /\ UNCHANGED <<info, waitTimeouts, buffer, outcome, cancelVars, readVars,
                   timeoutVars, terminate, threadVars, signaled, left, netVars,
                   cleanup>>

(* ... or completes it: no buffer of that size, or the forwarding failed.  *)
EvtIoReadFails(r, n) ==
    /\ "reject" \in Disturbances
    /\ DeviceLockFree
    /\ ~Issued(r)
    /\ length' = [length EXCEPT ![r] = n]
    /\ Complete(r, "INVALID", 0, "issue")
    /\ UNCHANGED <<info, waitTimeouts, buffer, readQueue, cancelVars, readVars,
                   timeoutVars, terminate, threadVars, eventVars, netVars,
                   cleanup>>

(* The framework completes a cancelled request that is still in the queue. *)
CancelQueued(r) ==
    /\ "cancel" \in Disturbances
    /\ \E i \in DOMAIN readQueue :
           /\ readQueue[i] = r
           /\ readQueue' = RemoveAt(readQueue, i)
           /\ cancelled' = cancelled \cup {r}
           /\ Complete(r, "CANCELLED", 0, "queue")
           /\ UNCHANGED <<length, info, waitTimeouts, buffer, marked, cancelling,
                          readVars, timeoutVars, terminate, threadVars, eventVars,
                          netVars, cleanup>>

(* The request the thread holds: its cancel callback becomes due if it is  *)
(* marked cancelable, else the request only remembers the cancellation.    *)
CancelHeld(r) ==
    /\ "cancel" \in Disturbances
    /\ r = current
    /\ r \notin cancelled
    /\ cancelled' = cancelled \cup {r}
    /\ cancelling' = IF marked THEN cancelling \cup {r} ELSE cancelling
    /\ marked' = FALSE
    /\ UNCHANGED <<requestVars, readQueue, readVars, timeoutVars, terminate,
                   threadVars, eventVars, netVars, cleanup>>

(* IOCTL_SERIAL_SET_TIMEOUTS copies the structure without a lock that the  *)
(* client thread takes: between the two steps a reader sees any mixture.   *)
SetTimeoutsBegin(t) ==
    /\ DeviceLockFree
    /\ newTimeouts' = t
    /\ UNCHANGED <<requestVars, readQueue, cancelVars, readVars, timeouts,
                   terminate, threadVars, eventVars, netVars, cleanup>>

SetTimeoutsEnd ==
    /\ newTimeouts # timeouts
    /\ timeouts' = newTimeouts
    /\ UNCHANGED <<requestVars, readQueue, cancelVars, readVars, newTimeouts,
                   terminate, threadVars, eventVars, netVars, cleanup>>

----------------------------------------------------------------------------
(* The callbacks: each signals an event and knows nothing else.            *)

Callback(e) ==
    /\ DeviceLockFree
    /\ e \in callbacks
    /\ callbacks' = callbacks \ {e}
    /\ signaled' = signaled \cup {e}
    /\ UNCHANGED <<requestVars, readQueue, cancelVars, readVars, timeoutVars,
                   terminate, threadVars, left, netVars, cleanup>>

EvtReadQueueReady == Callback("ReadQueueEvent")
EvtIntervalTimer  == Callback("IntervalTimerEvent")
EvtTotalTimer     == Callback("TotalTimerEvent")

CancelCallback(r, event) ==
    /\ DeviceLockFree
    /\ r \in cancelling
    /\ cancelling' = cancelling \ {r}
    /\ signaled' = signaled \cup event
    /\ UNCHANGED <<requestVars, readQueue, cancelled, marked, readVars,
                   timeoutVars, terminate, threadVars, left, callbacks,
                   netVars, cleanup>>

CancelSignalsNothing(r) == CancelCallback(r, {})   \* mutant: no SetEvent

EvtReadRequestCancel(r) == CancelCallback(r, {"CancelEvent"})

(* One tick of the clock: a timer that runs out owes its callback.         *)
Tick ==
    /\ \E t \in Timers : left[t] # Stopped
    /\ left' = [t \in Timers |-> IF left[t] <= 1 THEN Stopped ELSE left[t] - 1]
    /\ callbacks' = callbacks \cup {t \in Timers : left[t] \in {0, 1}}
    /\ UNCHANGED <<requestVars, readQueue, cancelVars, readVars, timeoutVars,
                   terminate, threadVars, signaled, netVars, cleanup>>

----------------------------------------------------------------------------
(* The peer and Winsock.  FD_READ is recorded, and ClientSocketEvent       *)
(* signaled, when data arrives for the first time since the last recv.     *)

PeerSend ==
    /\ peer = "up"
    /\ socket = "open"
    /\ sent < MaxBytes
    /\ sent' = sent + 1
    /\ fdRecorded' = (fdRecorded \/ fdEnabled)
    /\ signaled' = IF fdEnabled THEN signaled \cup {"ClientSocketEvent"}
                                ELSE signaled
    /\ fdEnabled' = FALSE
    /\ UNCHANGED <<requestVars, readQueue, cancelVars, readVars, timeoutVars,
                   terminate, threadVars, left, callbacks, socket, peer, taken,
                   cleanup>>

(* Only FD_READ was selected, so neither end of the connection is an event.*)
PeerEnds(how) ==
    /\ peer = "up"
    /\ peer' = how
    /\ UNCHANGED <<requestVars, readQueue, cancelVars, readVars, timeoutVars,
                   terminate, threadVars, eventVars, socket, streamVars,
                   cleanup>>

PeerClose == "close" \in Disturbances /\ PeerEnds("closed")
PeerReset == "reset" \in Disturbances /\ PeerEnds("reset")

----------------------------------------------------------------------------
(* ClientThread, one iteration: top of the loop, dequeue, processRequest,  *)
(* arming, the wait, and the switch over what ended the wait.              *)

LoopExit ==
    /\ pc = "loop"
    /\ terminate \/ socket = "INVALID_SOCKET"
    /\ pc' = "exited"
    /\ UNCHANGED <<requestVars, readQueue, cancelVars, readVars, timeoutVars,
                   terminate, fdRead, waitTimeout, eventVars, netVars, cleanup>>

LoopGoesOn == pc = "loop" /\ ~terminate /\ socket = "open"

(* WdfIoQueueRetrieveNextRequest and calculateReadTimers.  The timers are  *)
(* stopped; their events, if signaled, stay signaled.                      *)
Dequeue ==
    /\ LoopGoesOn
    /\ current = None
    /\ readQueue # << >>
    /\ LET r == Head(readQueue) IN
         /\ current' = r
         /\ needed' = length[r]
         /\ \E t \in TornRead(timeouts, newTimeouts) :
              /\ timers' = CalculateReadTimers(t, length[r])
              /\ bytesFromLastRead' = IF UsesIntervalTimer(t) THEN 0
                                      ELSE bytesFromLastRead
    /\ readQueue' = Tail(readQueue)
    /\ left' = [t \in Timers |-> Stopped]
    /\ pc' = "process"
    /\ UNCHANGED <<requestVars, cancelVars, timeoutVars, terminate, fdRead,
                   waitTimeout, signaled, callbacks, netVars, cleanup>>

(* With no request to serve the rest of the iteration does nothing before  *)
(* the wait.                                                               *)
NothingToDequeue ==
    /\ LoopGoesOn
    /\ current # None \/ readQueue = << >>
    /\ pc' = IF current = None THEN "wait" ELSE "process"
    /\ UNCHANGED <<requestVars, readQueue, cancelVars, readVars, timeoutVars,
                   terminate, fdRead, waitTimeout, eventVars, netVars, cleanup>>

(* The thread calls recv only after FD_READ or a wait that timed out.      *)
MustRecv == current # None /\ (fdRead \/ waitTimeout)

(* Back from processRequest: wait at once if the request was completed.    *)
AfterProcessing ==
    /\ waitTimeout' = FALSE
    /\ pc' = IF current' = None THEN "wait" ELSE "arm"

(* Winsock: recv enables FD_READ again, and records it at once if data is  *)
(* left.  Otherwise an old record may or may not survive the call.         *)
RecvReenables(remaining) ==
    /\ fdEnabled' = (remaining = 0)
    /\ IF remaining > 0
       THEN /\ fdRecorded' = TRUE
            /\ signaled' = signaled \cup {"ClientSocketEvent"}
       ELSE /\ fdRecorded' \in {fdRecorded, FALSE}
            /\ signaled' = signaled

(* The buffer of the current request after recv wrote n bytes from offset  *)
(* `start' on.                                                             *)
Written(start, n) ==
    [i \in Offsets |-> IF i \in start .. start + n - 1
                      THEN taken + 1 + i - start
                      ELSE buffer[current][i]]

ReceivedAtStart(n) == Written(0, n)      \* mutant: Information not added

Received(n) == Written(info[current], n)

NeverFull(missing) ==                    \* mutant: a full read keeps waiting
    timers.returnWithWhatsPresent \/ timers.os2ssreturn

ReadIsDone(missing) ==
    \/ timers.returnWithWhatsPresent
    \/ missing = 0
    \/ timers.os2ssreturn

(* processRequest, recv returned n bytes.                                  *)
RecvData(n) ==
    /\ pc = "process" /\ MustRecv
    /\ socket = "open" /\ peer # "reset"
    /\ n <= Unread /\ n <= Room(current)
    /\ taken' = taken + n
    /\ RecvReenables(Unread - n)
    /\ buffer' = [buffer EXCEPT ![current] = Received(n)]
    /\ info' = [info EXCEPT ![current] = @ + n]
    /\ needed' = needed - n
    /\ bytesFromLastRead' = n
    /\ IF ReadIsDone(needed - n)
       THEN CompleteCurrent("SUCCESS", info'[current], "recv")
       ELSE UNCHANGED <<outcome, current>>
    /\ AfterProcessing
    /\ UNCHANGED <<length, waitTimeouts, readQueue, cancelVars, timers,
                   timeoutVars, terminate, fdRead, left, callbacks, socket,
                   peer, sent, cleanup>>

(* recv returned 0: the peer has closed.  The socket stays as it is.       *)
RecvZero ==
    /\ pc = "process" /\ MustRecv
    /\ socket = "open" /\ peer = "closed" /\ Unread = 0
    /\ CompleteCurrent("UNSUCCESSFUL", 0, "recv")
    /\ AfterProcessing
    /\ UNCHANGED <<length, info, waitTimeouts, buffer, readQueue, cancelVars,
                   needed, timers, bytesFromLastRead, timeoutVars, terminate,
                   fdRead, eventVars, netVars, cleanup>>

(* WSAEWOULDBLOCK: the request keeps waiting.                              *)
RecvWouldBlock ==
    /\ pc = "process" /\ MustRecv
    /\ socket = "open" /\ peer = "up" /\ Unread = 0
    /\ RecvReenables(0)
    /\ fdRead' = FALSE
    /\ bytesFromLastRead' = 0
    /\ UNCHANGED current
    /\ AfterProcessing
    /\ UNCHANGED <<requestVars, readQueue, cancelVars, needed, timers,
                   timeoutVars, terminate, left, callbacks, socket, peer, sent,
                   taken, cleanup>>

(* Any other error: the connection is given up.                            *)
RecvError ==
    /\ pc = "process" /\ MustRecv
    /\ socket = "INVALID_SOCKET" \/ peer = "reset"
    /\ CompleteCurrent("UNSUCCESSFUL", 0, "recv")
    /\ socket' = "INVALID_SOCKET"
    /\ AfterProcessing
    /\ UNCHANGED <<length, info, waitTimeouts, buffer, readQueue, cancelVars,
                   needed, timers, bytesFromLastRead, timeoutVars, terminate,
                   fdRead, eventVars, peer, streamVars, cleanup>>

StillHeld == pc = "arm" \/ (pc = "process" /\ ~MustRecv)

MarkNeverFails == TRUE         \* mutant: the result of the call is ignored

(* WdfRequestMarkCancelableEx fails on a request already cancelled.        *)
MarkSucceeds == current \notin cancelled

MarkFails ==
    /\ StillHeld
    /\ ~MarkSucceeds
    /\ CompleteCurrent("CANCELLED", 0, "mark")
    /\ pc' = "loop"
    /\ UNCHANGED <<length, info, waitTimeouts, buffer, readQueue, cancelVars,
                   needed, timers, bytesFromLastRead, timeoutVars, terminate,
                   fdRead, waitTimeout, eventVars, netVars, cleanup>>

DueTime(use, time) == IF use THEN time ELSE Stopped

(* mutant: the total timer is started only along with the interval timer.  *)
TotalOnlyWithInterval ==
    [t \in Timers |->
        IF t = "IntervalTimerEvent"
        THEN DueTime(timers.UseIntervalTimer, timers.IntervalTime)
        ELSE DueTime(timers.UseIntervalTimer /\ timers.UseTotalTimer,
                     timers.TotalTime)]

DueTimes ==
    [t \in Timers |->
        IF t = "IntervalTimerEvent"
        THEN DueTime(timers.UseIntervalTimer, timers.IntervalTime)
        ELSE DueTime(timers.UseTotalTimer, timers.TotalTime)]

(* Every iteration starts both timers anew.                                *)
Arm ==
    /\ StillHeld
    /\ MarkSucceeds
    /\ marked' = TRUE
    /\ left' = DueTimes
    /\ pc' = "wait"
    /\ UNCHANGED <<requestVars, readQueue, cancelled, cancelling, readVars,
                   timeoutVars, terminate, fdRead, waitTimeout, signaled,
                   callbacks, netVars, cleanup>>

(* The wait ends with the signaled event of the lowest index.              *)
Wake ==
    /\ pc = "wait"
    /\ \E i \in DOMAIN EventArray :
         /\ EventArray[i] \in signaled
         /\ \A j \in 1 .. i - 1 : EventArray[j] \notin signaled
         /\ pc' = EventArray[i]
         /\ signaled' = signaled \ ({EventArray[i]} \ ManualResetEvents)
    /\ UNCHANGED <<requestVars, readQueue, cancelVars, readVars, timeoutVars,
                   terminate, fdRead, waitTimeout, left, callbacks, netVars,
                   cleanup>>

UntimedNotTotal == ~timers.UseIntervalTimer /\ timers.UseTotalTimer  \* mutant

Untimed == ~timers.UseIntervalTimer /\ ~timers.UseTotalTimer

(* A read that uses no timer waits at most 500 ms at a time.               *)
WaitTimesOut ==
    /\ pc = "wait"
    /\ signaled = {}
    /\ current # None
    /\ Untimed
    /\ pc' = "WAIT_TIMEOUT"
    /\ UNCHANGED <<requestVars, readQueue, cancelVars, readVars, timeoutVars,
                   terminate, fdRead, waitTimeout, eventVars, netVars, cleanup>>

(* Common to all cases of the switch: WdfRequestUnmarkCancelable, result   *)
(* ignored, and back to the top of the loop.                               *)
Handle(event) ==
    /\ pc = event
    /\ marked' = FALSE
    /\ pc' = "loop"
    /\ UNCHANGED <<length, info, buffer, readQueue, cancelled, cancelling,
                   needed, timers, bytesFromLastRead, timeoutVars, terminate,
                   left, callbacks, socket, peer, sent, taken, fdEnabled,
                   cleanup>>

KeepOutcome == UNCHANGED <<outcome, current>>
KeepWaiting == UNCHANGED <<waitTimeouts, waitTimeout>>
KeepSocketEvent == UNCHANGED <<signaled, fdRead, fdRecorded>>

HandleWaitTimeout ==
    /\ Handle("WAIT_TIMEOUT")
    /\ waitTimeout' = TRUE
    /\ waitTimeouts' = [waitTimeouts EXCEPT ![current] = @ + 1]
    /\ IF waitTimeouts'[current] >= WaitUnits
       THEN CompleteCurrent("TIMEOUT", 0, "WAIT_TIMEOUT")
       ELSE KeepOutcome
    /\ KeepSocketEvent

(* WSAEnumNetworkEvents hands over the record and resets the event; it     *)
(* fails on a socket that is gone.                                         *)
HandleSocketEvent ==
    /\ Handle("ClientSocketEvent")
    /\ IF socket = "open"
       THEN /\ fdRead' = fdRecorded
            /\ fdRecorded' = FALSE
            /\ signaled' = signaled \ {"ClientSocketEvent"}
       ELSE /\ fdRead' = FALSE
            /\ UNCHANGED <<fdRecorded, signaled>>
    /\ KeepOutcome /\ KeepWaiting

HandleReadQueueEvent ==
    /\ Handle("ReadQueueEvent")
    /\ KeepOutcome /\ KeepWaiting /\ KeepSocketEvent

CancelKeepsTheRequest ==       \* mutant: completed, and still CurrentRequest
    /\ Handle("CancelEvent")
    /\ IF current # None THEN CompleteCurrentKeepsIt("CANCELLED", 0, "CancelEvent")
                         ELSE KeepOutcome
    /\ KeepWaiting /\ KeepSocketEvent

HandleCancelEvent ==
    /\ Handle("CancelEvent")
    /\ IF current # None THEN CompleteCurrent("CANCELLED", 0, "CancelEvent")
                         ELSE KeepOutcome
    /\ KeepWaiting /\ KeepSocketEvent

(* "timer doesn't start until at least one byte is read"                   *)
HandleIntervalTimerEvent ==
    /\ Handle("IntervalTimerEvent")
    /\ IF current # None /\ info[current] > 0 /\ bytesFromLastRead = 0
       THEN CompleteCurrent("CANCELLED", info[current], "IntervalTimerEvent")
       ELSE KeepOutcome
    /\ KeepWaiting /\ KeepSocketEvent

TotalTimerDropsData ==         \* mutant: WdfRequestComplete, no Information
    /\ Handle("TotalTimerEvent")
    /\ IF current # None THEN CompleteCurrent("CANCELLED", 0, "TotalTimerEvent")
                         ELSE KeepOutcome
    /\ KeepWaiting /\ KeepSocketEvent

HandleTotalTimerEvent ==
    /\ Handle("TotalTimerEvent")
    /\ IF current # None
       THEN CompleteCurrent("CANCELLED", info[current], "TotalTimerEvent")
       ELSE KeepOutcome
    /\ KeepWaiting /\ KeepSocketEvent

(* The termination case returns from the thread function.                  *)
HandleThreadEvent ==
    /\ pc = "ThreadEvent"
    /\ marked' = FALSE
    /\ pc' = "exited"
    /\ IF current # None THEN CompleteCurrent("CANCELLED", 0, "ThreadEvent")
                         ELSE KeepOutcome
    /\ UNCHANGED <<length, info, waitTimeouts, buffer, readQueue, cancelled,
                   cancelling, needed, timers, bytesFromLastRead, timeoutVars,
                   terminate, fdRead, waitTimeout, eventVars, netVars, cleanup>>

----------------------------------------------------------------------------
(* CleanupNetwork, called from IOCTL_HTSVSP_CONFIGURE or from the cleanup  *)
(* of the device, up to the point where it closes the sockets.             *)

CleanupGoesTo(step) ==
    /\ cleanup' = step
    /\ UNCHANGED <<requestVars, readQueue, cancelVars, readVars, timeoutVars,
                   threadVars, callbacks, peer, streamVars>>

CleanupStopsTimers ==
    /\ "cleanup" \in Disturbances
    /\ DeviceLockFree /\ cleanup = "idle"
    /\ left' = [t \in Timers |-> Stopped]
    /\ CleanupGoesTo("terminate")
    /\ UNCHANGED <<terminate, signaled, socket>>

CleanupTerminates ==
    /\ cleanup = "terminate"
    /\ terminate' = TRUE
    /\ CleanupGoesTo("signal")
    /\ UNCHANGED <<signaled, left, socket>>

CleanupSetsEvent(events) ==
    /\ cleanup = "signal"
    /\ signaled' = signaled \cup events
    /\ CleanupGoesTo("join")
    /\ UNCHANGED <<terminate, left, socket>>

CleanupOnlySetsTheFlag == CleanupSetsEvent({})     \* mutant: no SetEvent

CleanupSignals == CleanupSetsEvent({"ThreadEvent"})

(* The thread has exited, or 5000 ms have passed: the call that then means *)
(* to kill the thread gets the handle of ThreadEvent and has no effect.    *)
(* Either way the socket is closed.                                        *)
CleanupCloses ==
    /\ cleanup = "join"
    /\ socket' = "INVALID_SOCKET"
    /\ CleanupGoesTo("done")
    /\ UNCHANGED <<terminate, signaled, left>>

----------------------------------------------------------------------------

Application ==
    \/ \E r \in Requests, n \in 1 .. MaxLength :
           EvtIoRead(r, n) \/ EvtIoReadFails(r, n)
    \/ \E r \in Requests : CancelQueued(r) \/ CancelHeld(r)
    \/ \E t \in TimeoutChoices : SetTimeoutsBegin(t)

Peer == PeerSend \/ PeerClose \/ PeerReset

RunCallbacks ==
    \/ EvtReadQueueReady \/ EvtIntervalTimer \/ EvtTotalTimer
    \/ \E r \in Requests : EvtReadRequestCancel(r)

ProcessRequest ==
    \/ \E n \in 1 .. MaxLength : RecvData(n)
    \/ RecvZero \/ RecvWouldBlock \/ RecvError

HandleEvent ==
    \/ HandleWaitTimeout \/ HandleSocketEvent \/ HandleThreadEvent
    \/ HandleReadQueueEvent \/ HandleCancelEvent
    \/ HandleIntervalTimerEvent \/ HandleTotalTimerEvent

ClientThread ==
    \/ LoopExit \/ Dequeue \/ NothingToDequeue
    \/ ProcessRequest \/ MarkFails \/ Arm
    \/ Wake \/ WaitTimesOut
    \/ HandleEvent

CleanupNetwork ==
    CleanupStopsTimers \/ CleanupTerminates \/ CleanupSignals \/ CleanupCloses

Next ==
    \/ Application \/ SetTimeoutsEnd \/ Peer
    \/ RunCallbacks \/ Tick \/ ClientThread \/ CleanupNetwork

Spec == Init /\ [][Next]_vars

(* The scheduler runs the thread, time passes, and a call that has begun   *)
(* goes on to its end.  The framework runs the callbacks it owes: strong   *)
(* fairness, since a callback waits for a device lock that other callbacks *)
(* take in between.  The application and the peer owe nothing.             *)
Fairness ==
    /\ WF_vars(ClientThread)
    /\ WF_vars(Tick)
    /\ WF_vars(SetTimeoutsEnd)
    /\ WF_vars(CleanupTerminates) /\ WF_vars(CleanupSignals)
    /\ WF_vars(CleanupCloses)
    /\ SF_vars(EvtReadQueueReady)
    /\ SF_vars(EvtIntervalTimer) /\ SF_vars(EvtTotalTimer)
    /\ \A r \in Requests : SF_vars(EvtReadRequestCancel(r))

FairSpec == Spec /\ Fairness

============================================================================
