-------------------------- MODULE DeviceLifetime --------------------------
(***************************************************************************)
(* The life of one device: DeviceCreate and DeviceConfigure, which acquire *)
(* its handles one after another and may fail at each, the calls of        *)
(* NetworkControl while it is in use, and EvtDeviceCleanup.                *)
(*                                                                         *)
(* The framework runs EvtDeviceCleanup when DeviceConfigure has failed or  *)
(* the device is removed, in either case with no request left to serve.    *)
(***************************************************************************)
EXTENDS NetworkControl

VARIABLE phase   \* "configuring", "ready", "removing", "gone" or "crashed"

vars == <<networkVars, phase>>

(* DeviceConfigure acquires the handles in this order.                     *)
Acquisitions == <<"ClientSocketEvent", "ServiceSocketEvent", "ThreadEvent",
                  "ReadQueueEvent", "CancelEvent", "IntervalTimerEvent",
                  "TotalTimerEvent", "IntervalTimer", "TotalTimer">>

Init ==
    /\ NetworkInit
    /\ phase = "configuring"

(* EvtDeviceCleanup is entered as the call that holds the device.          *)
GoesToCleanup ==
    /\ phase' = "removing"
    /\ Begin("EvtDeviceCleanup", "timers")

AcquiredBefore(n) == {Acquisitions[i] : i \in 1 .. n - 1}

Acquire ==
    /\ phase = "configuring"
    /\ \E n \in DOMAIN Acquisitions :
          /\ Acquisitions[n] \notin held /\ AcquiredBefore(n) \subseteq held
          /\ held' = held \cup {Acquisitions[n]}
    /\ UNCHANGED <<threadEvent, terminateThread, threadHandle, clientSocket,
                   systemVars, callVars, writeVars, phase>>

HoldsAll == NetworkEvents \cup ReadEvents \cup Timers \subseteq held

Configured ==
    /\ phase = "configuring"
    /\ HoldsAll
    /\ phase' = "ready"
    /\ UNCHANGED networkVars

(* Interface, registry, link and queues come before the first handle.      *)
DeviceConfigureFails ==
    /\ phase = "configuring"
    /\ ~HoldsAll
    /\ GoesToCleanup
    /\ UNCHANGED <<contextVars, systemVars, writeVars>>

InUse ==
    /\ phase = "ready"
    /\ BeginCall
    /\ UNCHANGED phase

RemoveDevice ==
    /\ phase = "ready"
    /\ GoesToCleanup
    /\ UNCHANGED <<contextVars, systemVars, writeVars>>

----------------------------------------------------------------------------
(* EvtDeviceCleanup: CloseNetwork, the registry, the events, the timers.   *)

(* WdfTimerStop on a timer that was never created.                         *)
Crash ==
    /\ at = "timers"
    /\ ~(Timers \subseteq held)
    /\ phase' = "crashed"
    /\ Return("timers", status)
    /\ UNCHANGED <<contextVars, systemVars, writeVars>>

CleanupClosesNetwork ==
    /\ op = "EvtDeviceCleanup"
    /\ Step("events", "handles")
    /\ CloseEvents(NetworkEvents)
    /\ UNCHANGED phase

(* The registry value goes too; whether that fails or not, the rest is     *)
(* released.                                                               *)
CleanupRelease(handles) ==
    /\ Return("handles", status)
    /\ held' = held \ handles
    /\ phase' = "gone"
    /\ UNCHANGED <<threadEvent, terminateThread, threadHandle, clientSocket,
                   systemVars, writeVars>>

(* mutant: the events of the timers are taken to go with the timers.       *)
KeepsTimerEvents == CleanupRelease({"ReadQueueEvent", "CancelEvent"} \cup Timers)

CleanupReleases == CleanupRelease(ReadEvents \cup Timers)

----------------------------------------------------------------------------

OnlyNetwork == (CallSteps \/ ThreadNext \/ LoseConnection)
               /\ UNCHANGED phase

CleanupDevice ==
    Crash \/ CleanupClosesNetwork \/ CleanupReleases

Next ==
    Acquire \/ Configured \/ DeviceConfigureFails \/ InUse \/ RemoveDevice \/ OnlyNetwork
    \/ CleanupDevice

Spec == Init /\ [][Next]_vars

(* A call goes on to its end and threads run; the wait for a thread ends,  *)
(* with the thread or after 5000 ms.                                       *)
FairSpec ==
    /\ Spec
    /\ WF_vars(CallSteps /\ UNCHANGED phase)
    /\ WF_vars(CleanupDevice)
    /\ \A t \in Threads :
          WF_vars(ThreadSteps(t) /\ UNCHANGED phase)

----------------------------------------------------------------------------

LifetimeTypeOK ==
    /\ held \subseteq NetworkEvents \cup ReadEvents \cup Timers
    /\ threadEvent \in BOOLEAN /\ terminateThread \in BOOLEAN
    /\ threadHandle \in Threads \cup {Null}
    /\ clientSocket \in Sockets \cup {Null}
    /\ open \subseteq Sockets /\ lost \subseteq Sockets
    /\ thread \in [Threads -> {"unborn", "loop", "process", "closing", "wait",
                               "exited"}]
    /\ timedOut \in BOOLEAN
    /\ op \in {"none", "ConfigureClient", "ConfigureService", "CloseNetwork",
               "EvtIoWrite", "EvtDeviceCleanup"}
    /\ at \in {"none", "timers", "stop", "join", "close", "socket", "bind",
               "events", "connect", "thread", "send", "complete", "handles"}
    /\ status \in {"none", "SUCCESS", "UNSUCCESSFUL", "BUFFER_TOO_SMALL"}
    /\ request \in [Writes -> {"new", "pending", "completed"}]
    /\ writing \in Writes \cup {Null}
    /\ sent \in 0 .. WriteLength
    /\ stream \in Seq(Writes \X (1 .. WriteLength))
    /\ phase \in {"configuring", "ready", "removing", "gone", "crashed"}

(* Two ClientThreads would share CurrentRequest and the timers without a   *)
(* lock: a thread that lives is the one ThreadHandle refers to, over any   *)
(* sequence of configurations and failures, as long as CleanupNetwork's    *)
(* wait of 5000 ms never ran out.                                          *)
OneClientThread ==
    timedOut \/ \A t \in Threads : Live(t) => threadHandle = t

(* No socket is lost: an open one is ClientSocket, and ClientSocket is an  *)
(* open one but for the moment between the thread's closesocket and its    *)
(* assignment.                                                             *)
SocketsAccountedFor ==
    ~timedOut =>
    /\ open \subseteq {clientSocket}
    /\ clientSocket \notin open =>
          clientSocket = Null \/ \E t \in Threads : thread[t] = "closing"

(* A living thread waits on the six handles of its eventArray: none of     *)
(* them is closed under it, neither by a configuration that closes all     *)
(* connections nor by the removal of the device.                           *)
EventsOutliveTheThread ==
    timedOut \/ \A t \in Threads :
        Live(t) => ReadEvents \cup {"ThreadEvent", "ClientSocketEvent"}
                       \subseteq held

(* A configuration that fails at any call after CleanupNetwork leaves      *)
(* neither a socket nor a thread.  (One whose buffer cannot be copied,     *)
(* BUFFER_TOO_SMALL, leaves the connection that there was.)                *)
FailedConfigureLeavesNothing ==
    op = "none" /\ status = "UNSUCCESSFUL" =>
        /\ threadHandle = Null
        /\ timedOut \/ (clientSocket = Null /\ open = {})

(* What the sockets take of a write is a beginning of it, in order and     *)
(* once, however send divides it and wherever it stops; and writes follow  *)
(* one another.  (ImplementsWriteService, below, implies it.)              *)
WritesArriveInOrder ==
    \A i \in 1 .. Len(stream) :
        \/ stream[i][2] = 1 /\ \A j \in 1 .. i - 1 : stream[j][1] # stream[i][1]
        \/ i > 1 /\ stream[i] = <<stream[i - 1][1], stream[i - 1][2] + 1>>

(* A request as the application sees it: EvtIoWrite works on one of those  *)
(* that are pending, and has forgotten the others.                         *)
WriteState ==
    [w \in Writes |-> IF request[w] # "pending" THEN request[w]
                      ELSE IF writing = w THEN "served" ELSE "dropped"]

Service == INSTANCE WriteService WITH state <- WriteState

(* The write path is a WriteService whatever is configured, breaks or is   *)
(* removed meanwhile: the sockets may change, and a send may fail at any   *)
(* byte, but a completed write puts nothing on the wire and an unfinished  *)
(* one lets no other pass.                                                 *)
ImplementsWriteService == Service!Spec

(* A device that was removed has left no handle, no socket and no thread.  *)
(* (After a DeviceConfigure that failed EvtDeviceCleanup comes to no end.) *)
NothingLeftBehind ==
    phase = "gone" =>
        /\ held = {} /\ threadHandle = Null /\ clientSocket = Null
        /\ timedOut \/ (open = {} /\ \A t \in Threads : ~Live(t))

(* Every call comes back, although EvtIoWrite sends in a loop and          *)
(* CleanupNetwork waits, both under the device lock.                       *)
CallsReturn == op # "none" ~> op = "none"

(* Once TerminateThread is set every thread ends, one that CleanupNetwork  *)
(* did not wait long enough for too.                                       *)
TerminatedThreadsEnd ==
    \A t \in Threads : terminateThread /\ Live(t) ~> ~Live(t)

(* htsvsp.h: IOCTL_HTSVSP_CONFIGURE "returns success if configuration      *)
(* succeeded, else an error": a port that was configured with success and  *)
(* has its connection is served by a thread.                               *)
ConfiguredPortIsServed ==
    op = "none" /\ status = "SUCCESS" /\ clientSocket \in open \ lost =>
        \E t \in Threads : Live(t)

============================================================================
