----------------------- MODULE DeviceLifetimeProofs -----------------------
(***************************************************************************)
(* Of DeviceLifetime, for any number of sockets, threads and writes: while *)
(* no wait of CleanupNetwork for a thread has run out of time, there is at *)
(* most one client thread, no socket is lost, and the handles the thread   *)
(* waits on are open for as long as it lives.                              *)
(*                                                                         *)
(* None of the three is inductive.  What they rest on is that a step of a  *)
(* configuration past CleanupNetwork runs without a thread                 *)
(* (NoThreadPastCleanup), that a thread about to forget its socket has     *)
(* closed it (ClosingHasClosed), and that the events of the context come   *)
(* and go together (EventsTogether).                                       *)
(*                                                                         *)
(* With them: a configuration that fails and a device that is removed      *)
(* leave nothing behind (Left), and the bytes of a write are sent once and *)
(* in order (Written), which includes the types of all variables; hence    *)
(* the write path implements WriteService.                                 *)
(***************************************************************************)
EXTENDS DeviceLifetime, SequenceTheorems, TLAPS

PastCleanup == {"close", "socket", "bind", "events", "connect", "thread",
                "handles"}

Configurations == {"ConfigureClient", "ConfigureService", "CloseNetwork"}

(* Which call is at which step, and in which phase of the device.          *)
CallsInPhase ==
    /\ op = "none" <=> at = "none"
    /\ at \in {"socket", "connect", "thread"} => op = "ConfigureClient"
    /\ at = "bind" => op = "ConfigureService"
    /\ at \in {"send", "complete"} => op = "EvtIoWrite"
    /\ at \in {"timers", "stop", "join", "close"} =>
          op \in Configurations \cup {"EvtDeviceCleanup"}
    /\ at = "handles" => op = "EvtDeviceCleanup"
    /\ op = "EvtDeviceCleanup" <=> phase = "removing"
    /\ op \in Configurations \cup {"EvtIoWrite"} => phase = "ready"
    /\ op \in Configurations \cup {"EvtIoWrite", "EvtDeviceCleanup", "none"}

NoThreadPastCleanup == at \in PastCleanup => threadHandle = Null

(* No thread exists before the device is ready.                            *)
ThreadsInPhase ==
    phase = "configuring" => \A t \in Threads : ~Live(t)

ClosingHasClosed ==
    timedOut \/ \A t \in Threads : thread[t] = "closing" => clientSocket \notin open

EventsTogether ==
    /\ phase = "ready" =>
          /\ ReadEvents \subseteq held
          /\ "ClientSocketEvent" \in held => "ThreadEvent" \in held
    /\ at = "thread" => "ClientSocketEvent" \in held

Typed ==
    /\ threadHandle \in Threads \cup {Null}
    /\ clientSocket \in Sockets \cup {Null}
    /\ open \subseteq Sockets
    /\ thread \in [Threads -> {"unborn", "loop", "process", "closing", "wait",
                               "exited"}]
    /\ timedOut \in BOOLEAN

IInv ==
    /\ Typed /\ CallsInPhase /\ NoThreadPastCleanup /\ ThreadsInPhase
    /\ ClosingHasClosed /\ EventsTogether
    /\ OneClientThread /\ SocketsAccountedFor /\ EventsOutliveTheThread
----------------------------------------------------------------------------

LEMMA InitIInv == Init => IInv
<1> SUFFICES ASSUME Init PROVE IInv
  OBVIOUS
<1> USE DEF Init, NetworkInit, Live
<1>1. Typed /\ CallsInPhase /\ NoThreadPastCleanup /\ ThreadsInPhase
  BY DEF Typed, CallsInPhase, NoThreadPastCleanup, ThreadsInPhase, PastCleanup,
         Configurations
<1>2. ClosingHasClosed /\ EventsTogether
  BY DEF ClosingHasClosed, EventsTogether
<1>3. OneClientThread /\ SocketsAccountedFor /\ EventsOutliveTheThread
  BY DEF OneClientThread, SocketsAccountedFor, EventsOutliveTheThread
<1> QED
  BY <1>1, <1>2, <1>3 DEF IInv

(* A step that leaves the device context and the system alone keeps what   *)
(* is said of threads, sockets and handles.                                *)
Untouched == UNCHANGED <<held, threadHandle, clientSocket, open, thread, timedOut>>

LEMMA UntouchedKeeps ==
  ASSUME IInv, Untouched
  PROVE  /\ Typed' /\ ClosingHasClosed' /\ OneClientThread'
         /\ SocketsAccountedFor' /\ EventsOutliveTheThread'
<1> USE DEF IInv, Untouched, Live
<1>1. Typed'
  BY DEF Typed
<1>2. ClosingHasClosed'
  BY DEF ClosingHasClosed
<1>3. OneClientThread'
  BY DEF OneClientThread
<1>4. SocketsAccountedFor'
  BY DEF SocketsAccountedFor
<1>5. EventsOutliveTheThread'
  BY DEF EventsOutliveTheThread
<1> QED
  BY <1>1, <1>2, <1>3, <1>4, <1>5

(* In every step past CleanupNetwork no thread lives.                      *)
LEMMA NobodyPastCleanup ==
  ASSUME IInv, at \in PastCleanup, ~timedOut
  PROVE  \A t \in Threads : ~Live(t)
  BY NetworkControlAssumption DEF IInv, NoThreadPastCleanup, OneClientThread, Threads

Control == CallsInPhase /\ NoThreadPastCleanup /\ ThreadsInPhase /\ EventsTogether

Resources ==
    /\ Typed /\ ClosingHasClosed
    /\ OneClientThread /\ SocketsAccountedFor /\ EventsOutliveTheThread

(* The steps of calls that leave it all alone.                             *)
LEMMA QuietSteps ==
  ASSUME IInv, UNCHANGED phase,
         \/ StopTimers \/ NoThreadToStop \/ StopThread
         \/ BindFails \/ Connect \/ SendFails \/ CompleteWrite
         \/ \E n \in 1 .. WriteLength : Send(n)
         \/ LoseConnection
         \/ BeginCall /\ phase = "ready"
  PROVE  Untouched /\ Control'
<1> USE DEF IInv, contextVars, systemVars, callVars, writeVars, Begin, Step,
            Return, Live, PastCleanup, Configurations
<1>1. CASE StopTimers \/ NoThreadToStop \/ StopThread
  <2>1. Untouched
    BY <1>1 DEF StopTimers, StopsTimers, NoThreadToStop, StopThread, Untouched
  <2>2. CallsInPhase' /\ NoThreadPastCleanup'
    BY <1>1 DEF StopTimers, StopsTimers, NoThreadToStop, StopThread,
                CallsInPhase, NoThreadPastCleanup
  <2>3. ThreadsInPhase' /\ EventsTogether'
    BY <1>1 DEF StopTimers, StopsTimers, NoThreadToStop, StopThread,
                ThreadsInPhase, EventsTogether
  <2> QED
    BY <2>1, <2>2, <2>3 DEF Control
<1>2. CASE BindFails \/ Connect
  <2>1. Untouched
    BY <1>2 DEF BindFails, Connect, Untouched
  <2>2. CallsInPhase' /\ NoThreadPastCleanup'
    BY <1>2 DEF BindFails, Connect, CallsInPhase, NoThreadPastCleanup
  <2>3. ThreadsInPhase' /\ EventsTogether'
    BY <1>2 DEF BindFails, Connect, ThreadsInPhase, EventsTogether
  <2> QED
    BY <2>1, <2>2, <2>3 DEF Control
<1>3. CASE SendFails \/ CompleteWrite \/ \E n \in 1 .. WriteLength : Send(n)
  <2>1. Untouched
    BY <1>3 DEF SendFails, SendFailsTo, CompleteWrite, Send, Untouched
  <2>2. CallsInPhase' /\ NoThreadPastCleanup'
    BY <1>3 DEF SendFails, SendFailsTo, CompleteWrite, Send, CallsInPhase,
                NoThreadPastCleanup
  <2>3. ThreadsInPhase' /\ EventsTogether'
    BY <1>3 DEF SendFails, SendFailsTo, CompleteWrite, Send, ThreadsInPhase,
                EventsTogether
  <2> QED
    BY <2>1, <2>2, <2>3 DEF Control
<1>4. CASE LoseConnection
  BY <1>4 DEF LoseConnection, Untouched, Control, CallsInPhase,
              NoThreadPastCleanup, ThreadsInPhase, EventsTogether
<1>5. CASE BeginCall /\ phase = "ready"
  <2> USE DEF BeginCall, Configure, ConfigureRejected, EvtIoWrite, EvtIoWriteFails
  <2>1. Untouched
    BY <1>5 DEF Untouched
  <2>2. NoThreadPastCleanup' /\ ThreadsInPhase' /\ EventsTogether'
    BY <1>5 DEF NoThreadPastCleanup, ThreadsInPhase, EventsTogether
  <2>3. CallsInPhase'
    BY <1>5 DEF CallsInPhase
  <2> QED
    BY <2>1, <2>2, <2>3 DEF Control
<1> QED
  BY <1>1, <1>2, <1>3, <1>4, <1>5

(* The steps of calls that acquire or release something.                   *)
LEMMA ResourceSteps ==
  ASSUME IInv, UNCHANGED phase,
         \/ Joined \/ CloseSocket \/ CloseNetworkReturns
         \/ WinSockCreate \/ CreateThread \/ ConfigureFails
  PROVE  Control' /\ Resources'
<1> USE DEF IInv, contextVars, systemVars, callVars, writeVars, Step, Return,
            Live, PastCleanup, Configurations
<1>1. CASE Joined
  <2> USE DEF Joined
  <2>1. Control'
    BY <1>1 DEF Control, CallsInPhase, NoThreadPastCleanup, ThreadsInPhase,
                EventsTogether
  <2>2. Typed'
    BY <1>1, NetworkControlAssumption DEF Typed
  <2>3. OneClientThread' /\ ClosingHasClosed'
    BY <1>1, NobodyPastCleanup, NetworkControlAssumption
    DEF OneClientThread, ClosingHasClosed, Typed
  <2>4. SocketsAccountedFor'
    BY <1>1, NobodyPastCleanup, NetworkControlAssumption
    DEF SocketsAccountedFor, Typed
  <2>5. EventsOutliveTheThread'
    BY <1>1, NobodyPastCleanup, NetworkControlAssumption
    DEF EventsOutliveTheThread, EventsTogether, CallsInPhase
  <2> QED
    BY <2>1, <2>2, <2>3, <2>4, <2>5 DEF Resources
<1>2. CASE CloseSocket
  <2> USE DEF CloseSocket, AfterCleanup
  <2>1. Control'
    BY <1>2 DEF Control, CallsInPhase, NoThreadPastCleanup, ThreadsInPhase,
                EventsTogether
  <2>2. Typed'
    BY <1>2, NetworkControlAssumption DEF Typed
  <2>3. OneClientThread' /\ ClosingHasClosed'
    BY <1>2, NobodyPastCleanup, NetworkControlAssumption
    DEF OneClientThread, ClosingHasClosed, Typed
  <2>4. SocketsAccountedFor'
    BY <1>2, NobodyPastCleanup, NetworkControlAssumption
    DEF SocketsAccountedFor, Typed
  <2>5. EventsOutliveTheThread'
    BY <1>2, NobodyPastCleanup, NetworkControlAssumption
    DEF EventsOutliveTheThread, EventsTogether, CallsInPhase
  <2> QED
    BY <2>1, <2>2, <2>3, <2>4, <2>5 DEF Resources
<1>3. CASE CloseNetworkReturns
  <2> USE DEF CloseNetworkReturns, CloseEvents, NetworkEvents
  <2>1. Control'
    <3>1. CallsInPhase' /\ NoThreadPastCleanup' /\ ThreadsInPhase'
      BY <1>3 DEF CallsInPhase, NoThreadPastCleanup, ThreadsInPhase
    <3>2. EventsTogether'
      BY <1>3 DEF EventsTogether, ReadEvents
    <3> QED
      BY <3>1, <3>2 DEF Control
  <2>2. Typed'
    BY <1>3, NetworkControlAssumption DEF Typed
  <2>3. OneClientThread' /\ ClosingHasClosed'
    BY <1>3, NobodyPastCleanup, NetworkControlAssumption
    DEF OneClientThread, ClosingHasClosed, Typed
  <2>4. SocketsAccountedFor'
    BY <1>3, NobodyPastCleanup, NetworkControlAssumption
    DEF SocketsAccountedFor, Typed
  <2>5. EventsOutliveTheThread'
    BY <1>3, NobodyPastCleanup, NetworkControlAssumption
    DEF EventsOutliveTheThread, EventsTogether, CallsInPhase
  <2> QED
    BY <2>1, <2>2, <2>3, <2>4, <2>5 DEF Resources
<1>4. CASE WinSockCreate
  <2> USE DEF WinSockCreate
  <2>1. Control'
    BY <1>4 DEF Control, CallsInPhase, NoThreadPastCleanup, ThreadsInPhase,
                EventsTogether
  <2>2. Typed'
    BY <1>4, NetworkControlAssumption DEF Typed
  <2>3. OneClientThread' /\ ClosingHasClosed'
    BY <1>4, NobodyPastCleanup, NetworkControlAssumption
    DEF OneClientThread, ClosingHasClosed, Typed
  <2>4. SocketsAccountedFor'
    BY <1>4, NobodyPastCleanup, NetworkControlAssumption
    DEF SocketsAccountedFor, Typed
  <2>5. EventsOutliveTheThread'
    BY <1>4, NobodyPastCleanup, NetworkControlAssumption
    DEF EventsOutliveTheThread, EventsTogether, CallsInPhase
  <2> QED
    BY <2>1, <2>2, <2>3, <2>4, <2>5 DEF Resources
<1>5. CASE CreateThread
  <2> USE DEF CreateThread
  <2>1. Control'
    BY <1>5 DEF Control, CallsInPhase, NoThreadPastCleanup, ThreadsInPhase,
                EventsTogether
  <2>2. Typed'
    BY <1>5, NetworkControlAssumption DEF Typed
  <2>3. OneClientThread' /\ ClosingHasClosed'
    BY <1>5, NobodyPastCleanup, NetworkControlAssumption
    DEF OneClientThread, ClosingHasClosed, Typed
  <2>4. SocketsAccountedFor'
    BY <1>5, NobodyPastCleanup, NetworkControlAssumption
    DEF SocketsAccountedFor, Typed
  <2>5. EventsOutliveTheThread'
    BY <1>5, NobodyPastCleanup, NetworkControlAssumption
    DEF EventsOutliveTheThread, EventsTogether, CallsInPhase
  <2> QED
    BY <2>1, <2>2, <2>3, <2>4, <2>5 DEF Resources
<1>6. CASE ConfigureFails
  <2> USE DEF ConfigureFails, FailsAt
  <2>1. Control'
    BY <1>6 DEF Control, CallsInPhase, NoThreadPastCleanup, ThreadsInPhase,
                EventsTogether
  <2>2. Typed'
    BY <1>6, NetworkControlAssumption DEF Typed
  <2>3. OneClientThread' /\ ClosingHasClosed'
    BY <1>6, NobodyPastCleanup, NetworkControlAssumption
    DEF OneClientThread, ClosingHasClosed, Typed
  <2>4. SocketsAccountedFor'
    BY <1>6, NobodyPastCleanup, NetworkControlAssumption
    DEF SocketsAccountedFor, Typed
  <2>5. EventsOutliveTheThread'
    BY <1>6, NobodyPastCleanup, NetworkControlAssumption
    DEF EventsOutliveTheThread, EventsTogether, CallsInPhase
  <2> QED
    BY <2>1, <2>2, <2>3, <2>4, <2>5 DEF Resources
<1> QED
  BY <1>1, <1>2, <1>3, <1>4, <1>5, <1>6

(* The steps of a client thread.                                           *)
LEMMA ClientThreadSteps ==
  ASSUME IInv, UNCHANGED phase, NEW t \in Threads,
         ThreadSteps(t) \/ WakeForOther(t)
  PROVE  Control' /\ Resources'
<1> USE DEF IInv, callVars, writeVars, Goes, Live, PastCleanup
<1>1. CASE LoopTop(t) \/ Processed(t)
  <2> USE DEF LoopTop, Processed
  <2>1. Control'
    BY <1>1 DEF Control, CallsInPhase, NoThreadPastCleanup, ThreadsInPhase,
                EventsTogether
  <2>2. Typed'
    BY <1>1, NetworkControlAssumption DEF Typed
  <2>3. OneClientThread' /\ ClosingHasClosed'
    BY <1>1, NetworkControlAssumption
    DEF OneClientThread, ClosingHasClosed, Typed
  <2>4. SocketsAccountedFor'
    BY <1>1, NetworkControlAssumption
    DEF SocketsAccountedFor, OneClientThread, ClosingHasClosed, Typed
  <2>5. EventsOutliveTheThread'
    BY <1>1 DEF EventsOutliveTheThread, Typed
  <2> QED
    BY <2>1, <2>2, <2>3, <2>4, <2>5 DEF Resources
<1>2. CASE RecvFails(t)
  <2> USE DEF RecvFails
  <2>1. Control'
    BY <1>2 DEF Control, CallsInPhase, NoThreadPastCleanup, ThreadsInPhase,
                EventsTogether
  <2>2. Typed'
    BY <1>2, NetworkControlAssumption DEF Typed
  <2>3. OneClientThread' /\ ClosingHasClosed'
    BY <1>2, NetworkControlAssumption
    DEF OneClientThread, ClosingHasClosed, Typed
  <2>4. SocketsAccountedFor'
    BY <1>2, NetworkControlAssumption
    DEF SocketsAccountedFor, OneClientThread, ClosingHasClosed, Typed
  <2>5. EventsOutliveTheThread'
    BY <1>2 DEF EventsOutliveTheThread, Typed
  <2> QED
    BY <2>1, <2>2, <2>3, <2>4, <2>5 DEF Resources
<1>3. CASE ForgetSocket(t)
  <2> USE DEF ForgetSocket
  <2>1. Control'
    BY <1>3 DEF Control, CallsInPhase, NoThreadPastCleanup, ThreadsInPhase,
                EventsTogether
  <2>2. Typed'
    BY <1>3, NetworkControlAssumption DEF Typed
  <2>3. OneClientThread' /\ ClosingHasClosed'
    BY <1>3, NetworkControlAssumption
    DEF OneClientThread, ClosingHasClosed, Typed
  <2>4. SocketsAccountedFor'
    BY <1>3, NetworkControlAssumption
    DEF SocketsAccountedFor, OneClientThread, ClosingHasClosed, Typed
  <2>5. EventsOutliveTheThread'
    BY <1>3 DEF EventsOutliveTheThread, Typed
  <2> QED
    BY <2>1, <2>2, <2>3, <2>4, <2>5 DEF Resources
<1>4. CASE WakeForThreadEvent(t) \/ WakeForOther(t)
  <2> USE DEF WakeForThreadEvent, WakeForOther
  <2>1. Control'
    BY <1>4 DEF Control, CallsInPhase, NoThreadPastCleanup, ThreadsInPhase,
                EventsTogether
  <2>2. Typed'
    BY <1>4, NetworkControlAssumption DEF Typed
  <2>3. OneClientThread' /\ ClosingHasClosed'
    BY <1>4, NetworkControlAssumption
    DEF OneClientThread, ClosingHasClosed, Typed
  <2>4. SocketsAccountedFor'
    BY <1>4, NetworkControlAssumption
    DEF SocketsAccountedFor, OneClientThread, ClosingHasClosed, Typed
  <2>5. EventsOutliveTheThread'
    BY <1>4 DEF EventsOutliveTheThread, Typed
  <2> QED
    BY <2>1, <2>2, <2>3, <2>4, <2>5 DEF Resources
<1> QED
  BY <1>1, <1>2, <1>3, <1>4 DEF ThreadSteps

(* Set-up and removal.                                                     *)
LEMMA LifeSteps ==
  ASSUME IInv,
         \/ Acquire \/ Configured \/ DeviceConfigureFails \/ RemoveDevice
         \/ CleanupDevice
  PROVE  Control' /\ Resources'
<1> USE DEF IInv, contextVars, systemVars, callVars, writeVars, networkVars,
            GoesToCleanup, Begin, Step, Return, Live, PastCleanup, Configurations
<1>1. CASE Acquire
  <2>1. Control' /\ held \subseteq held' /\ phase = "configuring"
    BY <1>1 DEF Acquire, Control, CallsInPhase, NoThreadPastCleanup,
                ThreadsInPhase, EventsTogether
  <2>2. Typed' /\ ClosingHasClosed' /\ OneClientThread'
    BY <1>1 DEF Acquire, Typed, ClosingHasClosed, OneClientThread
  <2>3. SocketsAccountedFor' /\ EventsOutliveTheThread'
    BY <1>1, <2>1 DEF Acquire, SocketsAccountedFor, EventsOutliveTheThread
  <2> QED
    BY <2>1, <2>2, <2>3 DEF Resources
<1>2. CASE Configured \/ DeviceConfigureFails \/ RemoveDevice \/ Crash
  <2> USE DEF Configured, DeviceConfigureFails, RemoveDevice, Crash, HoldsAll
  <2>1. Untouched
    BY <1>2 DEF Untouched
  <2>2. CallsInPhase' /\ NoThreadPastCleanup'
    BY <1>2 DEF CallsInPhase, NoThreadPastCleanup
  <2>3. ThreadsInPhase' /\ EventsTogether'
    BY <1>2 DEF ThreadsInPhase, EventsTogether, NetworkEvents
  <2> QED
    BY <2>1, <2>2, <2>3, UntouchedKeeps DEF Control, Resources
<1>3. CASE CleanupClosesNetwork
  <2> USE DEF CleanupClosesNetwork, CloseEvents
  <2>1. CallsInPhase' /\ NoThreadPastCleanup'
    BY <1>3 DEF CallsInPhase, NoThreadPastCleanup
  <2>2. ThreadsInPhase' /\ EventsTogether'
    BY <1>3 DEF ThreadsInPhase, EventsTogether, CallsInPhase
  <2>3. Typed' /\ ClosingHasClosed' /\ OneClientThread'
    BY <1>3 DEF Typed, ClosingHasClosed, OneClientThread
  <2>4. SocketsAccountedFor' /\ EventsOutliveTheThread'
    BY <1>3, NobodyPastCleanup DEF SocketsAccountedFor, EventsOutliveTheThread
  <2> QED
    BY <2>1, <2>2, <2>3, <2>4 DEF Control, Resources
<1>4. CASE CleanupReleases
  <2> USE DEF CleanupReleases, CleanupRelease
  <2>1. CallsInPhase' /\ NoThreadPastCleanup'
    BY <1>4 DEF CallsInPhase, NoThreadPastCleanup
  <2>2. ThreadsInPhase' /\ EventsTogether'
    BY <1>4 DEF ThreadsInPhase, EventsTogether, CallsInPhase
  <2>3. Typed' /\ ClosingHasClosed' /\ OneClientThread'
    BY <1>4 DEF Typed, ClosingHasClosed, OneClientThread
  <2>4. SocketsAccountedFor' /\ EventsOutliveTheThread'
    BY <1>4, NobodyPastCleanup DEF SocketsAccountedFor, EventsOutliveTheThread
  <2> QED
    BY <2>1, <2>2, <2>3, <2>4 DEF Control, Resources
<1> QED
  BY <1>1, <1>2, <1>3, <1>4 DEF CleanupDevice

LEMMA StutteringKeeps ==
  ASSUME IInv, UNCHANGED vars
  PROVE  IInv'
<1>1. Untouched
  BY DEF vars, networkVars, contextVars, systemVars, Untouched
<1>2. CallsInPhase' /\ NoThreadPastCleanup' /\ ThreadsInPhase' /\ EventsTogether'
  BY DEF IInv, vars, networkVars, contextVars, systemVars, callVars, Live,
         CallsInPhase, NoThreadPastCleanup, ThreadsInPhase, EventsTogether
<1> QED
  BY <1>1, <1>2, UntouchedKeeps DEF IInv

LEMMA NextIInv ==
  ASSUME IInv, Next
  PROVE  IInv'
<1>1. SUFFICES Control' /\ Resources'
  BY DEF IInv, Control, Resources
<1>2. CASE OnlyNetwork
  <2>1. CASE CallSteps
    BY <1>2, <2>1, QuietSteps, ResourceSteps, UntouchedKeeps
    DEF OnlyNetwork, CallSteps, CleanupNetwork, Resources
  <2>2. CASE ThreadNext
    BY <1>2, <2>2, ClientThreadSteps DEF OnlyNetwork, ThreadNext
  <2>3. CASE LoseConnection
    BY <1>2, <2>3, QuietSteps, UntouchedKeeps DEF OnlyNetwork, Resources
  <2> QED
    BY <1>2, <2>1, <2>2, <2>3 DEF OnlyNetwork
<1>3. CASE InUse
  BY <1>3, QuietSteps, UntouchedKeeps DEF InUse, Resources
<1>4. CASE Acquire \/ Configured \/ DeviceConfigureFails \/ RemoveDevice
           \/ CleanupDevice
  BY <1>4, LifeSteps
<1> QED
  BY <1>2, <1>3, <1>4 DEF Next

(* The strengthened invariant holds in every state of the life of a device. *)
THEOREM LifetimeInductive == Spec => []IInv
<1>1. IInv /\ [Next]_vars => IInv'
  BY NextIInv, StutteringKeeps
<1> QED
  BY <1>1, InitIInv, PTL DEF Spec

(* At most one client thread lives, over any sequence of configurations,    *)
(* as long as CleanupNetwork's wait for it has not run out of time.         *)
THEOREM AtMostOneClientThread == Spec => []OneClientThread
<1>1. IInv => OneClientThread
  BY DEF IInv
<1> QED
  BY <1>1, LifetimeInductive, PTL

(* ConfigureClient, CleanupNetwork and the thread, which closes the socket  *)
(* without a lock, together lose no socket.                                 *)
THEOREM NoSocketIsLost == Spec => []SocketsAccountedFor
<1>1. IInv => SocketsAccountedFor
  BY DEF IInv
<1> QED
  BY <1>1, LifetimeInductive, PTL

(* No handle that the thread waits on is closed while the thread lives.     *)
THEOREM ThreadKeepsItsEvents == Spec => []EventsOutliveTheThread
<1>1. IInv => EventsOutliveTheThread
  BY DEF IInv
<1> QED
  BY <1>1, LifetimeInductive, PTL

----------------------------------------------------------------------------
(* What is left when a call or the device has come to its end.             *)

(* The steps after CloseSocket that create no socket.                      *)
Closed == {"socket", "bind", "events", "handles"}

SocketClosed ==
    at \in Closed => clientSocket = Null /\ (timedOut \/ open = {})

HandlesOfTheDevice ==
    /\ held \subseteq NetworkEvents \cup ReadEvents \cup Timers
    /\ at = "handles" => held \subseteq ReadEvents \cup Timers

(* A failed configuration is followed by calls of any kind; the next one   *)
(* has a socket of its own from WinSockCreate on.                          *)
FailureLeavesNothing ==
    status = "UNSUCCESSFUL" =>
        /\ threadHandle = Null
        /\ \/ at \in {"connect", "thread"} \/ timedOut
           \/ clientSocket = Null /\ open = {}

Left == SocketClosed /\ HandlesOfTheDevice /\ FailureLeavesNothing /\ NothingLeftBehind

LEMMA InitLeft == Init => Left
  BY DEF Init, NetworkInit, Left, SocketClosed, HandlesOfTheDevice, FailureLeavesNothing,
         NothingLeftBehind, Closed

(* A step that keeps handles, sockets and threads, and does not end a      *)
(* configuration.                                                          *)
LEMMA UntouchedLeft ==
  ASSUME IInv, Left, Untouched, status' = "UNSUCCESSFUL" => status = "UNSUCCESSFUL",
         phase' = "gone" => phase = "gone",
         at' \in Closed => at \in Closed, at' = "handles" => at = "handles",
         at \in {"connect", "thread"} => at' \in {"connect", "thread"}
  PROVE  Left'
<1> USE DEF Left, Untouched, Live
<1>1. SocketClosed' /\ HandlesOfTheDevice'
  BY DEF SocketClosed, HandlesOfTheDevice
<1>2. FailureLeavesNothing'
  BY DEF FailureLeavesNothing
<1>3. NothingLeftBehind'
  BY DEF NothingLeftBehind
<1> QED
  BY <1>1, <1>2, <1>3

LEMMA CallsLeft ==
  ASSUME IInv, Left, UNCHANGED phase, CallSteps
  PROVE  Left'
<1> USE DEF IInv, Left, contextVars, systemVars, callVars, writeVars, Step, Return, Live
<1>0. phase # "gone"
  BY DEF CallsInPhase, Configurations, CallSteps, CleanupNetwork, StopTimers, StopsTimers,
         NoThreadToStop, StopThread, Joined, CloseSocket, BindFails, CloseNetworkReturns,
         WinSockCreate, Connect, CreateThread, ConfigureFails, FailsAt, Send, SendFails,
         SendFailsTo, CompleteWrite
<1>1. CASE StopTimers \/ NoThreadToStop \/ StopThread
  BY <1>1, <1>0, UntouchedLeft
  DEF StopTimers, StopsTimers, NoThreadToStop, StopThread, Untouched, Closed
<1>2. CASE Connect \/ SendFails \/ CompleteWrite \/ \E n \in 1 .. WriteLength : Send(n)
  BY <1>2, <1>0, UntouchedLeft
  DEF Connect, SendFails, SendFailsTo, CompleteWrite, Send, Untouched, Closed
<1>3. CASE BindFails
  <2>1. threadHandle = Null /\ clientSocket = Null /\ (timedOut \/ open = {})
    BY <1>3 DEF BindFails, SocketClosed, Closed, NoThreadPastCleanup, PastCleanup
  <2> QED
    BY <1>3, <1>0, <2>1 DEF BindFails, SocketClosed, Closed, HandlesOfTheDevice,
       FailureLeavesNothing, NothingLeftBehind
<1>4. CASE Joined
  BY <1>4, <1>0 DEF Joined, SocketClosed, Closed, HandlesOfTheDevice,
     FailureLeavesNothing, NothingLeftBehind, Typed
<1>5. CASE CloseSocket
  <2>1. timedOut \/ open' = {}
    BY <1>5 DEF CloseSocket, SocketsAccountedFor
  <2>2. threadHandle' = Null /\ clientSocket' = Null
    BY <1>5 DEF CloseSocket, NoThreadPastCleanup, PastCleanup
  <2> QED
    BY <1>5, <1>0, <2>1, <2>2 DEF CloseSocket, AfterCleanup, SocketClosed, Closed,
       HandlesOfTheDevice, FailureLeavesNothing, NothingLeftBehind
<1>6. CASE CloseNetworkReturns
  BY <1>6, <1>0 DEF CloseNetworkReturns, CloseEvents, SocketClosed, Closed,
     HandlesOfTheDevice, FailureLeavesNothing, NothingLeftBehind
<1>7. CASE WinSockCreate \/ CreateThread
  BY <1>7, <1>0 DEF WinSockCreate, CreateThread, SocketClosed, Closed, HandlesOfTheDevice,
     FailureLeavesNothing, NothingLeftBehind
<1>8. CASE ConfigureFails
  <2>1. timedOut \/ open' = {}
    BY <1>8 DEF ConfigureFails, FailsAt, SocketsAccountedFor
  <2>2. threadHandle' = Null /\ clientSocket' = Null
    BY <1>8 DEF ConfigureFails, FailsAt, NoThreadPastCleanup, PastCleanup
  <2> QED
    BY <1>8, <1>0, <2>1, <2>2 DEF ConfigureFails, FailsAt, SocketClosed, Closed,
       HandlesOfTheDevice, FailureLeavesNothing, NothingLeftBehind
<1> QED
  BY <1>1, <1>2, <1>3, <1>4, <1>5, <1>6, <1>7, <1>8 DEF CallSteps, CleanupNetwork

(* Where a thread lives, either a wait has run out or nothing is promised. *)
LEMMA ThreadsLeft ==
  ASSUME IInv, Left, UNCHANGED phase, NEW t \in Threads, ThreadSteps(t) \/ WakeForOther(t)
  PROVE  Left'
<1> USE DEF IInv, Left, callVars, writeVars, Goes, Live
<1>1. Live(t) /\ open' \subseteq open /\ clientSocket' \in {clientSocket, Null}
      /\ UNCHANGED <<held, threadHandle, timedOut, at, status>>
  BY DEF ThreadSteps, LoopTop, Processed, RecvFails, ForgetSocket, WakeForThreadEvent,
         WakeForOther
<1>2. timedOut \/ threadHandle # Null
  BY <1>1, NetworkControlAssumption DEF OneClientThread, Threads
<1>3. SocketClosed' /\ HandlesOfTheDevice'
  BY <1>1 DEF SocketClosed, HandlesOfTheDevice
<1>4. FailureLeavesNothing'
  BY <1>1, <1>2 DEF FailureLeavesNothing
<1>5. NothingLeftBehind'
  BY <1>1, <1>2 DEF NothingLeftBehind
<1> QED
  BY <1>3, <1>4, <1>5

LEMMA AcquisitionsAreHandles ==
  \A n \in DOMAIN Acquisitions :
     Acquisitions[n] \in NetworkEvents \cup ReadEvents \cup Timers
<1>1. DOMAIN Acquisitions = 1 .. 9
  BY DEF Acquisitions
<1> SUFFICES ASSUME NEW n \in 1 .. 9
             PROVE  Acquisitions[n] \in NetworkEvents \cup ReadEvents \cup Timers
  BY <1>1
<1>2. CASE n \in 1 .. 3
  BY <1>2 DEF Acquisitions, NetworkEvents
<1>3. CASE n \in 4 .. 7
  BY <1>3 DEF Acquisitions, ReadEvents
<1>4. CASE n \in 8 .. 9
  BY <1>4 DEF Acquisitions, Timers
<1> QED
  BY <1>2, <1>3, <1>4

LEMMA LifeLeft ==
  ASSUME IInv, Left,
         \/ Acquire \/ Configured \/ DeviceConfigureFails \/ RemoveDevice \/ InUse
         \/ CleanupDevice
         \/ LoseConnection /\ UNCHANGED phase
  PROVE  Left'
<1> USE DEF IInv, Left, contextVars, systemVars, callVars, writeVars, networkVars,
            GoesToCleanup, Begin, Step, Return, Live
<1>1. CASE Acquire
  <2>1. held' \subseteq NetworkEvents \cup ReadEvents \cup Timers
    BY <1>1, AcquisitionsAreHandles DEF Acquire, HandlesOfTheDevice
  <2>2. at = "none" /\ phase' # "gone"
    BY <1>1 DEF Acquire, CallsInPhase, Configurations
  <2> QED
    BY <1>1, <2>1, <2>2 DEF Acquire, SocketClosed, Closed, HandlesOfTheDevice,
       FailureLeavesNothing, NothingLeftBehind
<1>2. CASE Configured \/ DeviceConfigureFails \/ RemoveDevice \/ Crash
  <2> USE DEF Configured, DeviceConfigureFails, RemoveDevice, Crash
  <2>1. Untouched /\ status' = status /\ phase' # "gone"
    BY <1>2 DEF Untouched
  <2>2. at \notin {"connect", "thread"} /\ at' \in {at, "timers", "none"}
    BY <1>2 DEF CallsInPhase, Configurations
  <2> QED
    BY <1>2, <2>1, <2>2, UntouchedLeft DEF Closed
<1>3. CASE InUse
  <2> USE DEF InUse, BeginCall, Configure, ConfigureRejected, EvtIoWrite, EvtIoWriteFails
  <2>1. Untouched /\ status' \in {status, "BUFFER_TOO_SMALL"} /\ phase' = phase
    BY <1>3 DEF Untouched
  <2>2. at = "none" /\ at' \in {"none", "timers", "send", "complete"}
    BY <1>3 DEF CallsInPhase
  <2> QED
    BY <2>1, <2>2, UntouchedLeft DEF Closed
<1>4. CASE LoseConnection /\ UNCHANGED phase
  BY <1>4, UntouchedLeft DEF LoseConnection, Untouched
<1>5. CASE CleanupClosesNetwork
  BY <1>5 DEF CleanupClosesNetwork, CloseEvents, SocketClosed, Closed, HandlesOfTheDevice,
     FailureLeavesNothing, NothingLeftBehind, CallsInPhase
<1>6. CASE CleanupReleases
  <2>1. held' = {} /\ threadHandle = Null /\ clientSocket = Null
    BY <1>6 DEF CleanupReleases, CleanupRelease, HandlesOfTheDevice, SocketClosed, Closed,
       NoThreadPastCleanup, PastCleanup
  <2>2. timedOut \/ (open = {} /\ \A t \in Threads : ~Live(t))
    BY <1>6, NobodyPastCleanup DEF CleanupReleases, CleanupRelease, SocketClosed, Closed,
       PastCleanup
  <2> QED
    BY <1>6, <2>1, <2>2 DEF CleanupReleases, CleanupRelease, SocketClosed, Closed,
       HandlesOfTheDevice, FailureLeavesNothing, NothingLeftBehind
<1> QED
  BY <1>1, <1>2, <1>3, <1>4, <1>5, <1>6 DEF CleanupDevice

LEMMA NextLeft ==
  ASSUME IInv, Left, [Next]_vars
  PROVE  Left'
<1>1. CASE OnlyNetwork
  BY <1>1, CallsLeft, ThreadsLeft, LifeLeft DEF OnlyNetwork, ThreadNext
<1>2. CASE UNCHANGED vars
  <2>1. Untouched /\ UNCHANGED <<status, at, phase>>
    BY <1>2 DEF vars, networkVars, contextVars, systemVars, callVars, Untouched
  <2> QED
    BY <2>1, UntouchedLeft
<1>3. CASE Acquire \/ Configured \/ DeviceConfigureFails \/ InUse \/ RemoveDevice
           \/ CleanupDevice
  BY <1>3, LifeLeft
<1> QED
  BY <1>1, <1>2, <1>3 DEF Next

THEOREM LeftInductive == Spec => []Left
<1>1. IInv /\ Left /\ [Next]_vars => Left'
  BY NextLeft
<1> QED
  BY <1>1, InitLeft, LifetimeInductive, PTL DEF Spec

(* An IOCTL_HTSVSP_CONFIGURE that fails after CleanupNetwork, at whichever  *)
(* call, leaves no thread and, unless a wait ran out, no socket.            *)
THEOREM FailureIsClean == Spec => []FailedConfigureLeavesNothing
<1>1. IInv /\ Left => FailedConfigureLeavesNothing
  BY DEF IInv, Left, FailureLeavesNothing, FailedConfigureLeavesNothing, CallsInPhase
<1> QED
  BY <1>1, LifetimeInductive, LeftInductive, PTL

(* The removal of a device, whatever calls there were before it, leaves no  *)
(* handle behind, nor, unless a wait ran out, a socket or a thread.         *)
THEOREM RemovalIsClean == Spec => []NothingLeftBehind
<1>1. Left => NothingLeftBehind
  BY DEF Left
<1> QED
  BY <1>1, LeftInductive, PTL

----------------------------------------------------------------------------
(* The types, and what the sockets have taken of the writes.               *)

SendSteps == {"send", "complete"}

(* A request is in the stream only after it has arrived; the one that is   *)
(* being sent is its last, unless nothing of it was taken yet.             *)
SendingWrite ==
    /\ at \in SendSteps => writing \in Writes /\ request[writing] = "pending"
    /\ at \notin SendSteps => sent = 0 /\ writing = Null
    /\ at = "send" => sent < WriteLength
    /\ \A i \in 1 .. Len(stream) : request[stream[i][1]] # "new"
    /\ at = "send" =>
          IF sent = 0 THEN \A i \in 1 .. Len(stream) : stream[i][1] # writing
          ELSE Len(stream) > 0 /\ stream[Len(stream)] = <<writing, sent>>

Written == LifetimeTypeOK /\ SendingWrite /\ WritesArriveInOrder

LEMMA InitWritten == Init => Written
<1> SUFFICES ASSUME Init PROVE Written
  OBVIOUS
<1> USE NetworkControlAssumption DEF Init, NetworkInit
<1>1. LifetimeTypeOK
  <2>1. request \in [Writes -> {"new", "pending", "completed"}] /\ writing \in {Null}
        /\ sent \in 0 .. WriteLength /\ stream \in Seq(Writes \X (1 .. WriteLength))
    OBVIOUS
  <2>2. thread \in [Threads -> {"unborn", "loop", "process", "closing", "wait", "exited"}]
    OBVIOUS
  <2> QED
    BY <2>1, <2>2, Zenon DEF LifetimeTypeOK
<1>2. SendingWrite /\ WritesArriveInOrder
  BY DEF SendingWrite, SendSteps, WritesArriveInOrder
<1> QED
  BY <1>1, <1>2 DEF Written

(* The steps of which no write takes notice.                               *)
LEMMA NoWriteWritten ==
  ASSUME Written, UNCHANGED writeVars, LifetimeTypeOK',
         at' = "send" => at = "send", at' \in SendSteps => at \in SendSteps,
         at \in SendSteps => at' \in SendSteps
  PROVE  Written'
<1>1. WritesArriveInOrder'
  BY DEF Written, writeVars, WritesArriveInOrder
<1>2. SendingWrite'
  BY DEF Written, writeVars, SendingWrite
<1> QED
  BY <1>1, <1>2 DEF Written

(* What SendingWrite says where nothing is sent survives the arrival and   *)
(* the completion of a request.                                            *)
LEMMA ArrivalWritten ==
  ASSUME IInv, Written, UNCHANGED phase,
         NEW w \in Writes, EvtIoWrite(w) \/ EvtIoWriteFails(w)
  PROVE  Written'
<1> USE NetworkControlAssumption DEF Written, Arrives, Begin
<1>1. at = "none" /\ sent = 0 /\ request[w] = "new"
  BY DEF EvtIoWrite, EvtIoWriteFails, IInv, CallsInPhase, SendingWrite, SendSteps
<1>2. LifetimeTypeOK'
  BY DEF EvtIoWrite, EvtIoWriteFails, LifetimeTypeOK, contextVars, systemVars, callVars
<1>3. WritesArriveInOrder' /\ stream' = stream /\ sent' = sent
  BY DEF EvtIoWrite, EvtIoWriteFails, WritesArriveInOrder
<1>4. /\ request' = [request EXCEPT ![w] = "pending"]
      /\ request \in [Writes -> {"new", "pending", "completed"}]
  BY DEF EvtIoWrite, EvtIoWriteFails, LifetimeTypeOK
<1>5. \A i \in 1 .. Len(stream) :
         stream[i][1] \in Writes /\ stream[i][1] # w /\ request[stream[i][1]] # "new"
  BY <1>1 DEF LifetimeTypeOK, SendingWrite
<1>6. \A i \in 1 .. Len(stream) : request'[stream[i][1]] # "new"
  BY <1>4, <1>5
<1>7. /\ at' \in SendSteps => writing' = w /\ request'[w] = "pending"
      /\ at' \notin SendSteps => writing' = Null
  BY <1>1, <1>4 DEF EvtIoWrite, EvtIoWriteFails, SendSteps, callVars, SendingWrite
<1>8. SendingWrite'
  BY <1>1, <1>3, <1>5, <1>6, <1>7 DEF SendingWrite, SendSteps
<1> QED
  BY <1>2, <1>3, <1>8

LEMMA CompletionWritten ==
  ASSUME Written, CompleteWrite, UNCHANGED phase
  PROVE  Written'
<1> USE NetworkControlAssumption DEF Written, CompleteWrite, Return
<1>1. writing \in Writes
  BY DEF SendingWrite, SendSteps
<1>2. LifetimeTypeOK'
  BY <1>1 DEF LifetimeTypeOK, contextVars, systemVars
<1>3. WritesArriveInOrder' /\ stream' = stream
  BY DEF WritesArriveInOrder
<1>4. \A i \in 1 .. Len(stream) : request'[stream[i][1]] # "new"
  BY <1>1 DEF LifetimeTypeOK, SendingWrite
<1>5. SendingWrite'
  BY <1>3, <1>4 DEF SendingWrite, SendSteps
<1> QED
  BY <1>2, <1>3, <1>5

LEMMA ConcatIs ==
  ASSUME NEW S, NEW s \in Seq(S), NEW t \in Seq(S)
  PROVE  /\ s \o t \in Seq(S) /\ Len(s \o t) = Len(s) + Len(t)
         /\ \A i \in 1 .. Len(s) : (s \o t)[i] = s[i]
         /\ \A k \in 1 .. Len(t) : (s \o t)[Len(s) + k] = t[k]
<1>1. Len(s) \in Nat /\ Len(t) \in Nat
  BY LenProperties
<1>2. \A i \in 1 .. Len(s) : i \in 1 .. Len(s) + Len(t) /\ i <= Len(s)
  BY <1>1
<1>3. \A k \in 1 .. Len(t) :
         /\ Len(s) + k \in 1 .. Len(s) + Len(t)
         /\ ~(Len(s) + k <= Len(s)) /\ (Len(s) + k) - Len(s) = k
  BY <1>1
<1> QED
  BY <1>2, <1>3, ConcatProperties

(* The condition of WritesArriveInOrder on place i of a stream.            *)
InPlace(s, i) ==
    \/ s[i][2] = 1 /\ \A j \in 1 .. i - 1 : s[j][1] # s[i][1]
    \/ i > 1 /\ s[i] = <<s[i - 1][1], s[i - 1][2] + 1>>

(* n bytes of request w after its first k, which are the end of the stream *)
(* s if there are any, are in their places.                                *)
LEMMA NextBytesInPlace ==
  ASSUME NEW l \in Nat, NEW n \in Nat, NEW k \in Nat, NEW w, NEW s, NEW u,
         \A i \in 1 .. l : u[i] = s[i] /\ InPlace(s, i),
         \A j \in 1 .. n : u[l + j] = <<w, k + j>>,
         IF k = 0 THEN \A i \in 1 .. l : s[i][1] # w ELSE l > 0 /\ s[l] = <<w, k>>,
         NEW i \in 1 .. l + n
  PROVE  InPlace(u, i)
<1>1. CASE i \in 1 .. l
  <2>1. /\ InPlace(s, i) /\ u[i] = s[i]
        /\ \A j \in 1 .. i - 1 : u[j] = s[j]
        /\ i > 1 => u[i - 1] = s[i - 1]
    <3>1. \A j \in 1 .. i - 1 : j \in 1 .. l
      BY <1>1
    <3>2. i > 1 => i - 1 \in 1 .. l
      BY <1>1
    <3> QED
      BY <1>1, <3>1, <3>2
  <2> QED
    BY <2>1 DEF InPlace
<1>2. CASE i = l + 1
  <2>1. 1 \in 1 .. n /\ i - 1 = l
    BY <1>2
  <2>2. u[i] = <<w, k + 1>>
    BY <1>2, <2>1
  <2>3. CASE k = 0
    <3>1. \A j \in 1 .. i - 1 : u[j][1] # w
      BY <2>1, <2>3
    <3>2. u[i][2] = 1 /\ u[i][1] = w
      BY <2>2, <2>3
    <3> QED
      BY <3>1, <3>2 DEF InPlace
  <2>4. CASE k # 0
    <3>1. l \in 1 .. l /\ i > 1
      BY <1>2, <2>4
    <3>2. u[i - 1] = <<w, k>>
      BY <2>1, <2>4, <3>1
    <3> QED
      BY <2>2, <3>1, <3>2 DEF InPlace
  <2> QED
    BY <2>3, <2>4
<1>3. CASE i > l + 1
  <2> DEFINE j == i - l
  <2>1. j \in 1 .. n /\ l + j = i /\ j - 1 \in 1 .. n /\ l + (j - 1) = i - 1 /\ i > 1
    BY <1>3
  <2>2. (k + (j - 1)) + 1 = k + j
    BY <2>1
  <2> HIDE DEF j
  <2>3. u[i] = <<w, k + j>> /\ u[i - 1] = <<w, k + (j - 1)>>
    BY <2>1
  <2> QED
    BY <2>1, <2>2, <2>3 DEF InPlace
<1> QED
  BY <1>1, <1>2, <1>3

(* The bytes that send takes follow those it has taken of the same write.  *)
LEMMA SendWritten ==
  ASSUME Written, NEW n \in 1 .. WriteLength, Send(n), UNCHANGED phase
  PROVE  Written'
<1> USE NetworkControlAssumption DEF Written
<1> DEFINE l == Len(stream)
           Bytes == Writes \X (1 .. WriteLength)
<1>1. /\ at = "send" /\ writing \in Writes /\ request[writing] = "pending"
      /\ sent \in Nat /\ sent + n <= WriteLength /\ sent' = sent + n
      /\ request' = request /\ writing' = writing
      /\ at' = IF sent + n < WriteLength THEN "send" ELSE "complete"
  BY DEF Send, Step, SendingWrite, SendSteps, LifetimeTypeOK
<1>2. stream \in Seq(Bytes) /\ l \in Nat /\ n \in Nat \ {0}
  BY DEF LifetimeTypeOK
<1>3. Sent(n) \in Seq(Bytes) /\ Len(Sent(n)) = n
      /\ \A k \in 1 .. n : Sent(n)[k] = <<writing, sent + k>>
  BY <1>1 DEF Sent
<1>4. stream' = stream \o Sent(n)
  BY DEF Send
<1> HIDE DEF Bytes
<1>5. /\ stream' \in Seq(Bytes) /\ Len(stream') = l + n
      /\ \A i \in 1 .. l : stream'[i] = stream[i]
      /\ \A k \in 1 .. n : stream'[l + k] = <<writing, sent + k>>
  <2>1. PICK t \in Seq(Bytes) : /\ Len(t) = n /\ stream' = stream \o t
                               /\ \A k \in 1 .. n : t[k] = <<writing, sent + k>>
    BY <1>3, <1>4
  <2>2. Len(stream) = l
    BY DEF l
  <2> HIDE DEF l
  <2>3. /\ stream' \in Seq(Bytes) /\ Len(stream') = l + n
        /\ \A i \in 1 .. l : stream'[i] = stream[i]
        /\ \A k \in 1 .. n : stream'[l + k] = t[k]
    <3>1. \A s, r \in Seq(Bytes) :
             /\ s \o r \in Seq(Bytes) /\ Len(s \o r) = Len(s) + Len(r)
             /\ \A i \in 1 .. Len(s) : (s \o r)[i] = s[i]
             /\ \A k \in 1 .. Len(r) : (s \o r)[Len(s) + k] = r[k]
      BY ConcatIs
    <3>2. stream \in Seq(Bytes) /\ n = Len(t) /\ l = Len(stream)
      BY <1>2, <2>1, <2>2
    <3>3. /\ stream \o t \in Seq(Bytes) /\ Len(stream \o t) = Len(stream) + Len(t)
          /\ \A i \in 1 .. Len(stream) : (stream \o t)[i] = stream[i]
          /\ \A k \in 1 .. Len(t) : (stream \o t)[Len(stream) + k] = t[k]
      BY <3>1, <3>2
    <3> QED
      BY <2>1, <3>2, <3>3
  <2> QED
    BY <2>1, <2>3
<1>6. LifetimeTypeOK'
  BY <1>1, <1>5 DEF Send, Step, LifetimeTypeOK, contextVars, systemVars, Bytes
<1>7. IF sent = 0 THEN \A i \in 1 .. l : stream[i][1] # writing
      ELSE l > 0 /\ stream[l] = <<writing, sent>>
  BY <1>1 DEF SendingWrite
<1>8. \A i \in 1 .. l : stream'[i] = stream[i] /\ InPlace(stream, i)
  BY <1>5 DEF WritesArriveInOrder, InPlace
<1>9. \A i \in 1 .. l : request[stream[i][1]] # "new"
  BY DEF SendingWrite
<1> HIDE DEF l
<1>10. SendingWrite'
  <2>1. ASSUME NEW i \in 1 .. l + n
        PROVE  request[stream'[i][1]] # "new"
    <3>1. CASE i \in 1 .. l
      BY <3>1, <1>5, <1>9
    <3>2. CASE i \notin 1 .. l
      <4>1. i - l \in 1 .. n /\ l + (i - l) = i
        BY <3>2, <1>2
      <4>2. stream'[i] = <<writing, sent + (i - l)>>
        BY <4>1, <1>5
      <4> QED
        BY <4>2, <1>1
    <3> QED
      BY <3>1, <3>2
  <2>2. n \in 1 .. n /\ l + n > 0 /\ sent + n # 0
    BY <1>1, <1>2
  <2>3. stream'[l + n] = <<writing, sent + n>>
    BY <1>5, <2>2
  <2>4. at' = "send" => sent' < WriteLength
    BY <1>1
  <2>5. \A i \in 1 .. Len(stream') : request'[stream'[i][1]] # "new"
    BY <1>1, <1>5, <2>1
  <2>6. sent' # 0 /\ Len(stream') > 0 /\ stream'[Len(stream')] = <<writing', sent'>>
    BY <1>1, <1>5, <2>2, <2>3
  <2>7. at' \in SendSteps /\ writing' \in Writes /\ request'[writing'] = "pending"
    BY <1>1 DEF SendSteps
  <2> QED
    BY <2>4, <2>5, <2>6, <2>7 DEF SendingWrite
<1>11. \A i \in 1 .. l + n : InPlace(stream', i)
  BY <1>1, <1>2, <1>5, <1>7, <1>8, NextBytesInPlace
<1>12. WritesArriveInOrder'
  BY <1>5, <1>11 DEF WritesArriveInOrder, InPlace
<1> QED
  BY <1>6, <1>10, <1>12

LEMMA OthersWritten ==
  ASSUME IInv, Written,
         \/ /\ UNCHANGED phase
            /\ \/ CleanupNetwork \/ BindFails \/ CloseNetworkReturns
               \/ WinSockCreate \/ Connect \/ CreateThread \/ ConfigureFails
               \/ SendFails \/ LoseConnection
               \/ \E t \in Threads : ThreadSteps(t) \/ WakeForOther(t)
               \/ ConfigureRejected \/ \E name \in Configurations : Configure(name)
         \/ Acquire \/ Configured \/ DeviceConfigureFails \/ RemoveDevice
         \/ CleanupDevice
  PROVE  Written'
<1> USE NetworkControlAssumption
    DEF contextVars, systemVars, callVars, writeVars, networkVars, Begin, Step, Return
<1>1. CASE UNCHANGED phase /\ CleanupNetwork
  <2> USE DEF CleanupNetwork, StopTimers, StopsTimers, NoThreadToStop, StopThread, Joined,
              CloseSocket, AfterCleanup
  <2>1. LifetimeTypeOK'
    <3>1. CASE StopTimers \/ NoThreadToStop
      BY <1>1, <3>1 DEF Written, LifetimeTypeOK
    <3>2. CASE StopThread
      BY <1>1, <3>2 DEF Written, LifetimeTypeOK
    <3>3. CASE Joined
      BY <1>1, <3>3 DEF Written, LifetimeTypeOK
    <3>4. CASE CloseSocket
      BY <1>1, <3>4 DEF Written, LifetimeTypeOK
    <3> QED
      BY <1>1, <3>1, <3>2, <3>3, <3>4
  <2> QED
    BY <1>1, <2>1, NoWriteWritten DEF SendSteps
<1>2. CASE UNCHANGED phase /\ (BindFails \/ CloseNetworkReturns \/ WinSockCreate \/ Connect)
  <2> USE DEF BindFails, CloseNetworkReturns, CloseEvents, WinSockCreate, Connect
  <2>1. LifetimeTypeOK'
    BY <1>2 DEF Written, LifetimeTypeOK
  <2> QED
    BY <1>2, <2>1, NoWriteWritten DEF SendSteps
<1>3. CASE UNCHANGED phase /\ (CreateThread \/ ConfigureFails \/ LoseConnection)
  <2> USE DEF CreateThread, ConfigureFails, FailsAt, LoseConnection
  <2>1. LifetimeTypeOK'
    BY <1>3 DEF Written, LifetimeTypeOK
  <2> QED
    BY <1>3, <2>1, NoWriteWritten DEF SendSteps
<1>4. CASE UNCHANGED phase /\ SendFails
  <2>1. LifetimeTypeOK'
    BY <1>4 DEF SendFails, SendFailsTo, Written, LifetimeTypeOK
  <2>2. SendingWrite'
    BY <1>4 DEF SendFails, SendFailsTo, SendSteps, Written, SendingWrite
  <2>3. WritesArriveInOrder'
    BY <1>4 DEF SendFails, SendFailsTo, Written, WritesArriveInOrder
  <2> QED
    BY <2>1, <2>2, <2>3 DEF Written
<1>5. CASE UNCHANGED phase /\ \E t \in Threads : ThreadSteps(t) \/ WakeForOther(t)
  <2> SUFFICES ASSUME NEW t \in Threads, ThreadSteps(t) \/ WakeForOther(t), UNCHANGED phase
               PROVE  Written'
    BY <1>5
  <2>1. /\ open' \subseteq open /\ clientSocket' \in {clientSocket, Null}
        /\ \E to \in {"loop", "process", "closing", "wait", "exited"} :
              thread' = [thread EXCEPT ![t] = to]
        /\ UNCHANGED <<held, threadEvent, terminateThread, threadHandle, lost, timedOut,
                       callVars, writeVars>>
    BY DEF ThreadSteps, LoopTop, Processed, RecvFails, ForgetSocket, WakeForThreadEvent,
           WakeForOther, Goes
  <2>2. LifetimeTypeOK'
    BY <2>1 DEF Written, LifetimeTypeOK
  <2> QED
    BY <2>1, <2>2, NoWriteWritten
<1>6. CASE UNCHANGED phase /\ (ConfigureRejected
                               \/ \E name \in Configurations : Configure(name))
  <2> USE DEF Configure, ConfigureRejected, Configurations
  <2>1. LifetimeTypeOK'
    BY <1>6 DEF Written, LifetimeTypeOK
  <2> QED
    BY <1>6, <2>1, NoWriteWritten DEF IInv, CallsInPhase, SendSteps
<1>7. CASE Acquire
  <2>1. held' \subseteq NetworkEvents \cup ReadEvents \cup Timers
    BY <1>7, AcquisitionsAreHandles DEF Acquire, Written, LifetimeTypeOK
  <2>2. LifetimeTypeOK'
    BY <1>7, <2>1 DEF Acquire, Written, LifetimeTypeOK
  <2> QED
    BY <1>7, <2>2, NoWriteWritten DEF Acquire
<1>8. CASE Configured \/ DeviceConfigureFails \/ RemoveDevice
  <2> USE DEF Configured, DeviceConfigureFails, RemoveDevice, GoesToCleanup
  <2>1. LifetimeTypeOK'
    BY <1>8 DEF Written, LifetimeTypeOK
  <2> QED
    BY <1>8, <2>1, NoWriteWritten DEF IInv, CallsInPhase, SendSteps
<1>9. CASE CleanupDevice
  <2> USE DEF CleanupDevice, Crash, CleanupClosesNetwork, CloseEvents, CleanupReleases,
              CleanupRelease
  <2>1. LifetimeTypeOK'
    BY <1>9 DEF Written, LifetimeTypeOK
  <2> QED
    BY <1>9, <2>1, NoWriteWritten DEF SendSteps
<1> QED
  BY <1>1, <1>2, <1>3, <1>4, <1>5, <1>6, <1>7, <1>8, <1>9

LEMMA NextWritten ==
  ASSUME IInv, Written, [Next]_vars
  PROVE  Written'
<1>1. CASE OnlyNetwork
  <2>1. CASE CallSteps
    BY <1>1, <2>1, SendWritten, CompletionWritten, OthersWritten DEF OnlyNetwork, CallSteps
  <2>2. CASE ThreadNext \/ LoseConnection
    BY <1>1, <2>2, OthersWritten DEF OnlyNetwork, ThreadNext
  <2> QED
    BY <1>1, <2>1, <2>2 DEF OnlyNetwork
<1>2. CASE InUse
  BY <1>2, ArrivalWritten, OthersWritten DEF InUse, BeginCall, Configurations
<1>3. CASE Acquire \/ Configured \/ DeviceConfigureFails \/ RemoveDevice \/ CleanupDevice
  BY <1>3, OthersWritten
<1>4. CASE UNCHANGED vars
  <2>1. LifetimeTypeOK'
    BY <1>4 DEF Written, LifetimeTypeOK, vars, networkVars, contextVars, systemVars,
                callVars, writeVars
  <2> QED
    BY <1>4, <2>1, NoWriteWritten DEF vars, networkVars, callVars
<1> QED
  BY <1>1, <1>2, <1>3, <1>4 DEF Next

THEOREM WrittenInductive == Spec => []Written
<1>1. IInv /\ Written /\ [Next]_vars => Written'
  BY NextWritten
<1> QED
  BY <1>1, InitWritten, LifetimeInductive, PTL DEF Spec

(* Every variable keeps its type, whatever fails on the way.                *)
THEOREM LifetimeIsTyped == Spec => []LifetimeTypeOK
<1>1. Written => LifetimeTypeOK
  BY DEF Written
<1> QED
  BY <1>1, WrittenInductive, PTL

(* WinSockSend's loop sends each byte of a write once and in its place, and *)
(* leaves off where send fails; no write gets in between.                   *)
THEOREM WritesStayInOrder == Spec => []WritesArriveInOrder
<1>1. Written => WritesArriveInOrder
  BY DEF Written
<1> QED
  BY <1>1, WrittenInductive, PTL

----------------------------------------------------------------------------
(* The write path implements WriteService.                                 *)

LEMMA WriteStateIs ==
  ASSUME NEW w \in Writes
  PROVE  WriteState[w] = IF request[w] # "pending" THEN request[w]
                         ELSE IF writing = w THEN "served" ELSE "dropped"
BY DEF WriteState

(* The places of the request being sent that are on the wire.              *)
LEMMA TakenIsSent ==
  ASSUME Written, at = "send"
  PROVE  Service!Taken(writing) = sent
<1>1. stream \in Seq(Writes \X (1 .. WriteLength)) /\ Len(stream) \in Nat
  BY LenProperties DEF Written, LifetimeTypeOK
<1>2. CASE sent = 0
  <2>1. stream # << >> => Len(stream) \in 1 .. Len(stream)
    BY <1>1, EmptySeq, LenProperties
  <2> QED
    BY <1>2, <2>1 DEF Written, SendingWrite, Service!Taken
<1>3. CASE sent # 0
  BY <1>1, <1>3 DEF Written, SendingWrite, Service!Taken
<1> QED
  BY <1>2, <1>3

(* The states of the requests are a function, which changes at a request.  *)
LEMMA OneWriteGoes ==
  ASSUME NEW w \in Writes, NEW to,
         \A v \in Writes : WriteState'[v] = IF v = w THEN to ELSE WriteState[v]
  PROVE  WriteState' = [WriteState EXCEPT ![w] = to]
<1>1. DOMAIN WriteState = Writes /\ WriteState = [v \in Writes |-> WriteState[v]]
  BY DEF WriteState
<1>2. DOMAIN WriteState' = Writes /\ WriteState' = [v \in Writes |-> WriteState'[v]]
  BY DEF WriteState, Writes
<1>3. [WriteState EXCEPT ![w] = to]
         = [v \in Writes |-> IF v = w THEN to ELSE WriteState[v]]
  <2> DEFINE before == WriteState
  <2>1. before = [v \in Writes |-> before[v]]
    BY <1>1
  <2> HIDE DEF before
  <2>2. [before EXCEPT ![w] = to] = [v \in Writes |-> IF v = w THEN to ELSE before[v]]
    BY <2>1
  <2> QED
    BY <2>2 DEF before
<1>4. [v \in Writes |-> WriteState'[v]]
         = [v \in Writes |-> IF v = w THEN to ELSE WriteState[v]]
  OBVIOUS
<1> QED
  BY <1>2, <1>3, <1>4, Zenon

LEMMA ServiceInit == Init => Service!Init
<1> SUFFICES ASSUME Init PROVE Service!Init
  OBVIOUS
<1>1. request = [w \in Writes |-> "new"] /\ stream = << >>
  BY DEF Init, NetworkInit
<1>2. WriteState = [w \in Writes |-> "new"]
  BY <1>1 DEF WriteState
<1> QED
  BY <1>1, <1>2 DEF Service!Init, Writes, Service!Writes

(* A request that arrives is the next one, and no other is served.         *)
LEMMA ArrivalServes ==
  ASSUME IInv, Written, NEW w \in Writes, EvtIoWrite(w) \/ EvtIoWriteFails(w)
  PROVE  Service!Arrive(w)
<1> USE NetworkControlAssumption DEF Service!Writes, Writes
<1>1. /\ op = "none" /\ writing = Null /\ request[w] = "new"
      /\ \A v \in 1 .. w - 1 : request[v] # "new"
  BY DEF EvtIoWrite, EvtIoWriteFails, Arrives, Begin, IInv, CallsInPhase, Written,
         SendingWrite, SendSteps
<1>2. /\ request' = [request EXCEPT ![w] = "pending"] /\ stream' = stream
      /\ writing' \in {w, Null}
  BY <1>1 DEF EvtIoWrite, EvtIoWriteFails
<1>3. request \in [Writes -> {"new", "pending", "completed"}]
  BY DEF Written, LifetimeTypeOK
<1>4. \A v \in Writes : WriteState[v] # "served"
  BY <1>1, <1>3, WriteStateIs
<1>5. \A v \in 1 .. w - 1 : WriteState[v] # "new"
  BY <1>1, <1>3, WriteStateIs
<1>6. WriteState[w] = "new"
  BY <1>1, WriteStateIs
<1>7. ASSUME NEW to \in {"served", "dropped"}, writing' = IF to = "served" THEN w ELSE Null
      PROVE  WriteState' = [WriteState EXCEPT ![w] = to]
  <2>1. ASSUME NEW v \in Writes
        PROVE  WriteState'[v] = IF v = w THEN to ELSE WriteState[v]
    BY <1>1, <1>2, <1>3, <1>7 DEF WriteState
  <2> QED
    BY <2>1, OneWriteGoes
<1>8. writing' = w \/ writing' = Null
  BY <1>2
<1> QED
  BY <1>2, <1>4, <1>5, <1>6, <1>7, <1>8 DEF Service!Arrive, Service!Goes

LEMMA SendPuts ==
  ASSUME Written, NEW n \in 1 .. WriteLength, Send(n)
  PROVE  writing \in Writes /\ Service!Put(writing, n)
<1>1. /\ at = "send" /\ sent + n <= WriteLength /\ UNCHANGED <<request, writing>>
      /\ stream' = stream \o Sent(n)
  BY DEF Send, Step
<1>2. writing \in Writes /\ request[writing] = "pending"
  BY <1>1 DEF Written, SendingWrite, SendSteps
<1>3. WriteState[writing] = "served" /\ WriteState' = WriteState
  BY <1>1, <1>2 DEF WriteState
<1>4. Service!Taken(writing) = sent
  BY <1>1, TakenIsSent
<1> QED
  BY <1>1, <1>2, <1>3, <1>4 DEF Service!Put, Sent

LEMMA CompletionCompletes ==
  ASSUME Written, CompleteWrite
  PROVE  writing \in Writes /\ Service!Complete(writing)
<1> USE NetworkControlAssumption
<1>1. /\ at = "complete" /\ request' = [request EXCEPT ![writing] = "completed"]
      /\ writing' = Null /\ stream' = stream
  BY DEF CompleteWrite, Return
<1>2. /\ writing \in Writes /\ request[writing] = "pending"
      /\ request \in [Writes -> {"new", "pending", "completed"}]
  BY <1>1 DEF Written, SendingWrite, SendSteps, LifetimeTypeOK
<1>3. ASSUME NEW v \in Writes
      PROVE  WriteState'[v] = IF v = writing THEN "completed" ELSE WriteState[v]
  BY <1>1, <1>2 DEF WriteState, Writes
<1>4. WriteState' = [WriteState EXCEPT ![writing] = "completed"]
  BY <1>2, <1>3, OneWriteGoes
<1>5. WriteState[writing] = "served"
  BY <1>2 DEF WriteState
<1> QED
  BY <1>1, <1>2, <1>4, <1>5 DEF Service!Complete, Service!Goes

(* All other steps leave the requests and the wire alone.                  *)
LEMMA OthersServeNothing ==
  ASSUME \/ CleanupNetwork \/ BindFails \/ CloseNetworkReturns
         \/ WinSockCreate \/ Connect \/ CreateThread \/ ConfigureFails
         \/ SendFails \/ LoseConnection \/ ThreadNext
         \/ ConfigureRejected \/ \E name \in Configurations : Configure(name)
         \/ Acquire \/ Configured \/ DeviceConfigureFails \/ RemoveDevice
         \/ CleanupDevice \/ UNCHANGED vars
  PROVE  UNCHANGED <<request, writing, stream>>
<1> USE DEF writeVars
<1>1. CASE CleanupNetwork
  BY <1>1 DEF CleanupNetwork, StopTimers, StopsTimers, NoThreadToStop, StopThread, Joined,
              CloseSocket
<1>2. CASE BindFails \/ CloseNetworkReturns \/ WinSockCreate \/ Connect \/ CreateThread
  BY <1>2 DEF BindFails, CloseNetworkReturns, CloseEvents, WinSockCreate, Connect,
              CreateThread
<1>3. CASE ConfigureFails \/ SendFails \/ LoseConnection \/ ConfigureRejected
           \/ \E name \in Configurations : Configure(name)
  BY <1>3 DEF ConfigureFails, FailsAt, SendFails, SendFailsTo, LoseConnection, Configure,
              ConfigureRejected
<1>4. CASE ThreadNext
  BY <1>4 DEF ThreadNext, ThreadSteps, LoopTop, Processed, RecvFails, ForgetSocket,
              WakeForThreadEvent, WakeForOther, Goes
<1>5. CASE Acquire \/ Configured \/ DeviceConfigureFails \/ RemoveDevice
  BY <1>5 DEF Acquire, Configured, DeviceConfigureFails, RemoveDevice, networkVars
<1>6. CASE CleanupDevice
  BY <1>6 DEF CleanupDevice, Crash, CleanupClosesNetwork, CloseEvents, CleanupReleases,
              CleanupRelease
<1>7. CASE UNCHANGED vars
  BY <1>7 DEF vars, networkVars
<1> QED
  BY <1>1, <1>2, <1>3, <1>4, <1>5, <1>6, <1>7

LEMMA ServiceStep ==
  ASSUME IInv, Written, [Next]_vars
  PROVE  [Service!Next]_(Service!serviceVars)
<1> USE DEF Service!Next, Service!Writes, Writes
<1>1. ASSUME UNCHANGED <<request, writing, stream>>
      PROVE  UNCHANGED Service!serviceVars
  BY <1>1 DEF Service!serviceVars, WriteState
<1>2. ASSUME NEW w \in Writes, EvtIoWrite(w) \/ EvtIoWriteFails(w)
      PROVE  Service!Next
  BY <1>2, ArrivalServes
<1>3. ASSUME NEW n \in 1 .. WriteLength, Send(n)
      PROVE  Service!Next
  BY <1>3, SendPuts
<1>4. CASE CompleteWrite
  BY <1>4, CompletionCompletes
<1> HIDE DEF Service!Next
<1>5. CASE OnlyNetwork
  BY <1>1, <1>3, <1>4, <1>5, OthersServeNothing DEF OnlyNetwork, CallSteps
<1>6. CASE InUse
  BY <1>1, <1>2, <1>6, OthersServeNothing DEF InUse, BeginCall, Configurations
<1>7. CASE Acquire \/ Configured \/ DeviceConfigureFails \/ RemoveDevice \/ CleanupDevice
           \/ UNCHANGED vars
  BY <1>1, <1>7, OthersServeNothing
<1> QED
  BY <1>5, <1>6, <1>7 DEF Next

(* Whatever is configured, fails, breaks or is removed, the write path is  *)
(* a WriteService: what EvtIoWrite and WinSockSend do to a request and to  *)
(* the wire is a step of that, and no other step does anything to them.    *)
THEOREM WritesAreServed == Spec => ImplementsWriteService
<1>1. IInv /\ Written /\ [Next]_vars => [Service!Next]_(Service!serviceVars)
  BY ServiceStep
<1> QED
  BY <1>1, ServiceInit, LifetimeInductive, WrittenInductive, PTL
     DEF Spec, ImplementsWriteService, Service!Spec

============================================================================
