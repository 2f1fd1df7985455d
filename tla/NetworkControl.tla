-------------------------- MODULE NetworkControl --------------------------
(***************************************************************************)
(* The network side of one port: IOCTL_HTSVSP_CONFIGURE (ConfigureClient,  *)
(* ConfigureService, CloseNetwork), CleanupNetwork, and EvtIoWrite, all    *)
(* run one at a time under the device lock; and the ClientThreads, which   *)
(* take no lock.  Of ClientThread only what the network control depends on *)
(* is kept (ReadPath has the rest): when it looks at TerminateThread and   *)
(* at ClientSocket, when it closes the socket, and what ends its wait.     *)
(*                                                                         *)
(* ServiceSocket is bound and closed but never created by any code, so     *)
(* ConfigureService cannot get past bind and ServiceThread never runs.     *)
(***************************************************************************)
EXTENDS Integers, Sequences, FiniteSets

CONSTANTS
    Sockets,      \* values of socket handles; Windows uses a closed one again
    MaxThreads,   \* bound: how many threads CreateThread starts
    Null,         \* NULL and INVALID_SOCKET
    MaxWrites,    \* bound: how many write requests arrive
    WriteLength   \* bytes of each

ASSUME NetworkControlAssumption ==
    /\ MaxThreads \in Nat \ {0} /\ MaxWrites \in Nat
    /\ Null \notin Sockets \cup (1 .. MaxThreads) \cup (1 .. MaxWrites)
    /\ WriteLength \in Nat \ {0}

(* In the order they start and arrive.                                     *)
Threads == 1 .. MaxThreads
Writes  == 1 .. MaxWrites

(* The handles of the device context that the network control closes.      *)
NetworkEvents == {"ThreadEvent", "ServiceSocketEvent", "ClientSocketEvent"}

(* ... and those that EvtDeviceCleanup closes.                             *)
ReadEvents == {"ReadQueueEvent", "CancelEvent", "IntervalTimerEvent",
               "TotalTimerEvent"}
Timers == {"IntervalTimer", "TotalTimer"}

VARIABLES
    (* the device context *)
    held,             \* its handles that are not NULL
    threadEvent,      \* ThreadEvent is signaled (it is a manual reset event)
    terminateThread,  \* TerminateThread
    threadHandle,     \* ThreadHandle
    clientSocket,     \* ClientSocket
    (* the system *)
    open,             \* sockets that are open
    lost,             \* sockets whose connection broke
    thread,           \* where each thread is
    timedOut,         \* a wait of 5000 ms for a thread has failed
    (* the call that holds the device lock *)
    op,               \* its name, or "none"
    at,               \* its next step
    status,           \* what the last IOCTL_HTSVSP_CONFIGURE returned
    (* writes *)
    request,          \* of each write: "new", "pending" or "completed"
    writing,          \* the request EvtIoWrite works on
    sent,             \* the local `sent' of WinSockSend
    stream            \* what the sockets have taken: <<request, byte>>

contextVars == <<held, threadEvent, terminateThread, threadHandle, clientSocket>>
systemVars  == <<open, lost, thread, timedOut>>
callVars    == <<op, at, status>>
writeVars   == <<request, writing, sent, stream>>

networkVars == <<contextVars, systemVars, callVars, writeVars>>

Live(t) == thread[t] \notin {"unborn", "exited"}

NetworkInit ==
    /\ held = {} /\ threadEvent = FALSE /\ terminateThread = FALSE
    /\ threadHandle = Null /\ clientSocket = Null
    /\ open = {} /\ lost = {}
    /\ thread = [t \in Threads |-> "unborn"] /\ timedOut = FALSE
    /\ op = "none" /\ at = "none" /\ status = "none"
    /\ request = [w \in Writes |-> "new"]
    /\ writing = Null /\ sent = 0 /\ stream = << >>

----------------------------------------------------------------------------
(* Calls.  Step(from, to) is a step of the call that moves it on.          *)

Begin(name, step) ==
    /\ op = "none"
    /\ op' = name
    /\ at' = step
    /\ UNCHANGED status

Step(from, to) ==
    /\ at = from
    /\ at' = to
    /\ UNCHANGED <<op, status>>

Return(from, result) ==
    /\ at = from
    /\ op' = "none" /\ at' = "none"
    /\ status' = result

(* IOCTL_HTSVSP_CONFIGURE.                                                 *)
Configure(name) ==
    /\ name \in {"ConfigureClient", "ConfigureService", "CloseNetwork"}
    /\ Begin(name, "timers")
    /\ UNCHANGED <<contextVars, systemVars, writeVars>>

(* RequestCopyToBuffer fails: CleanupNetwork has not been called.          *)
ConfigureRejected ==
    /\ op = "none"
    /\ status' = "BUFFER_TOO_SMALL"
    /\ UNCHANGED <<op, at, contextVars, systemVars, writeVars>>

(* CleanupNetwork, with which all three begin.  The framework ends the     *)
(* process on a timer handle that is NULL.                                 *)
StopsTimers(next) ==
    /\ Step("timers", next)
    /\ Timers \subseteq held
    /\ UNCHANGED <<contextVars, systemVars, writeVars>>

LeavesTheThread == StopsTimers("close")  \* mutant: the thread is not stopped

StopTimers == StopsTimers("stop")

NoThreadToStop ==
    /\ Step("stop", "close")
    /\ threadHandle = Null
    /\ UNCHANGED <<contextVars, systemVars, writeVars>>

StopThread ==
    /\ Step("stop", "join")
    /\ threadHandle # Null
    /\ terminateThread' = TRUE
    /\ threadEvent' = TRUE
    /\ UNCHANGED <<held, threadHandle, clientSocket, systemVars, writeVars>>

(* The wait of 5000 ms.  TerminateThread then gets the wrong handle and    *)
(* stops nobody.                                                           *)
Joined ==
    /\ Step("join", "close")
    /\ timedOut' = (timedOut \/ thread[threadHandle] # "exited")
    /\ threadHandle' = Null
    /\ UNCHANGED <<held, threadEvent, terminateThread, clientSocket, open, lost,
                   thread, writeVars>>

AfterCleanup == CASE op = "ConfigureClient"  -> "socket"
                  [] op = "ConfigureService" -> "bind"
                  [] OTHER                   -> "events"

CloseSocket ==
    /\ Step("close", AfterCleanup)
    /\ open' = open \ {clientSocket}
    /\ clientSocket' = Null
    /\ UNCHANGED <<held, threadEvent, terminateThread, threadHandle, lost,
                   thread, timedOut, writeVars>>

(* ConfigureService: bind fails on INVALID_SOCKET.                         *)
BindFails ==
    /\ Return("bind", "UNSUCCESSFUL")
    /\ UNCHANGED <<contextVars, systemVars, writeVars>>

(* CloseNetwork, from the IOCTL.                                           *)
CloseEvents(events) ==
    /\ held' = held \ events
    /\ UNCHANGED <<threadEvent, terminateThread, threadHandle, clientSocket,
                   systemVars, writeVars>>

CloseNetworkReturns ==
    /\ op = "CloseNetwork"
    /\ Return("events", "none")
    /\ CloseEvents(NetworkEvents)

(* ConfigureClient, after CleanupNetwork.                                  *)
WinSockCreate ==
    /\ Step("socket", "connect")
    /\ \E s \in Sockets \ open :
          /\ open' = (open \ {clientSocket}) \cup {s}
          /\ lost' = lost \ {s}
          /\ clientSocket' = s
    /\ UNCHANGED <<held, threadEvent, terminateThread, threadHandle, thread,
                   timedOut, writeVars>>

(* getaddrinfo, connect to one of the addresses it found, WSAEventSelect,  *)
(* which fails without an event, and setsockopt.                           *)
Connect ==
    /\ Step("connect", "thread")
    /\ "ClientSocketEvent" \in held
    /\ UNCHANGED <<contextVars, systemVars, writeVars>>

CreateThread ==
    /\ Return("thread", "SUCCESS")
    /\ \E t \in Threads :
          /\ thread[t] = "unborn" /\ \A u \in 1 .. t - 1 : thread[u] # "unborn"
          /\ thread' = [thread EXCEPT ![t] = "loop"]
          /\ threadHandle' = t
    /\ UNCHANGED <<held, threadEvent, terminateThread, clientSocket, open, lost,
                   timedOut, writeVars>>

(* Any of these calls may fail: cleanupSocket closes a socket that exists. *)
FailsAt(steps, closed) ==
    /\ at \in steps
    /\ Return(at, "UNSUCCESSFUL")
    /\ open' = open \ closed
    /\ clientSocket' = Null
    /\ UNCHANGED <<held, threadEvent, terminateThread, threadHandle, lost,
                   thread, timedOut, writeVars>>

(* mutant: ClientSocket is reset and the socket left open.                 *)
ForgetsTheSocket == FailsAt({"socket", "connect", "thread"}, {})

ConfigureFails ==
    FailsAt({"socket", "connect", "thread"}, {clientSocket})

----------------------------------------------------------------------------
(* EvtIoWrite.                                                             *)

Arrives(w) == request[w] = "new" /\ \A v \in 1 .. w - 1 : request[v] # "new"

(* Without its memory the request is given up, and never completed.        *)
EvtIoWriteFails(w) ==
    /\ op = "none"
    /\ Arrives(w)
    /\ request' = [request EXCEPT ![w] = "pending"]
    /\ UNCHANGED <<contextVars, systemVars, callVars, writing, sent, stream>>

EvtIoWrite(w) ==
    /\ Arrives(w)
    /\ Begin("EvtIoWrite", IF clientSocket # Null THEN "send" ELSE "complete")
    /\ request' = [request EXCEPT ![w] = "pending"]
    /\ writing' = w
    /\ UNCHANGED <<contextVars, systemVars, sent, stream>>

SentPast(n) ==     \* mutant: one byte further, and past the end
    [i \in 1 .. n |-> <<writing, sent + i + 1>>]

Sent(n) == [i \in 1 .. n |-> <<writing, sent + i>>]

SendCompletes(n) ==      \* mutant: the request is completed in the loop
    /\ Step("send", IF sent + n < WriteLength THEN "send" ELSE "complete")
    /\ clientSocket \in open \ lost
    /\ sent + n <= WriteLength
    /\ sent' = sent + n
    /\ stream' = stream \o Sent(n)
    /\ request' = [request EXCEPT ![writing] = "completed"]
    /\ UNCHANGED <<contextVars, systemVars, writing>>

(* WinSockSend: one round of its loop, in which send took n bytes.         *)
Send(n) ==
    /\ Step("send", IF sent + n < WriteLength THEN "send" ELSE "complete")
    /\ clientSocket \in open \ lost
    /\ sent + n <= WriteLength
    /\ sent' = sent + n
    /\ stream' = stream \o Sent(n)
    /\ UNCHANGED <<contextVars, systemVars, request, writing>>

SendFailsTo(next) ==
    /\ Step("send", next)
    /\ UNCHANGED <<contextVars, systemVars, writeVars>>

SendIsRetried == SendFailsTo("send")         \* mutant: the error ends no loop

(* An error, WSAEWOULDBLOCK included, or 0: the rest is dropped.           *)
SendFails == SendFailsTo("complete")

CompleteWrite ==
    /\ Return("complete", status)
    /\ request' = [request EXCEPT ![writing] = "completed"]
    /\ writing' = Null
    /\ sent' = 0
    /\ UNCHANGED <<contextVars, systemVars, stream>>

----------------------------------------------------------------------------
(* ClientThread.                                                           *)

Goes(t, from, to) ==
    /\ thread[t] = from
    /\ thread' = [thread EXCEPT ![t] = to]
    /\ UNCHANGED <<held, threadEvent, terminateThread, threadHandle, lost,
                   timedOut, callVars, writeVars>>

(* mutant: the top of the loop does not look at TerminateThread.           *)
LoopIgnoresTermination(t) ==
    /\ Goes(t, "loop", IF clientSocket = Null THEN "exited" ELSE "process")
    /\ UNCHANGED <<clientSocket, open>>

LoopTop(t) ==
    /\ Goes(t, "loop", IF terminateThread \/ clientSocket = Null
                       THEN "exited" ELSE "process")
    /\ UNCHANGED <<clientSocket, open>>

Processed(t) ==
    /\ Goes(t, "process", "wait")
    /\ UNCHANGED <<clientSocket, open>>

(* recv failed: closesocket, and then ClientSocket = INVALID_SOCKET.       *)
RecvFails(t) ==
    /\ clientSocket \notin open \ lost
    /\ Goes(t, "process", "closing")
    /\ open' = open \ {clientSocket}
    /\ UNCHANGED clientSocket

ForgetSocket(t) ==
    /\ Goes(t, "closing", "wait")
    /\ clientSocket' = Null
    /\ UNCHANGED open

(* Another event, or the timeout, ends the wait.                           *)
WakeForOther(t) ==
    /\ Goes(t, "wait", "loop")
    /\ UNCHANGED <<clientSocket, open>>

(* ThreadEvent ends the wait, unless the socket's event, which is before   *)
(* it, is signaled too.                                                    *)
WakeForThreadEvent(t) ==
    /\ threadEvent
    /\ \E to \in {"exited", "loop"} : Goes(t, "wait", to)
    /\ UNCHANGED <<clientSocket, open>>

LoseConnection ==
    /\ clientSocket \in open \ lost
    /\ lost' = lost \cup {clientSocket}
    /\ UNCHANGED <<contextVars, open, thread, timedOut, callVars, writeVars>>

----------------------------------------------------------------------------

CleanupNetwork ==
    StopTimers \/ NoThreadToStop \/ StopThread \/ Joined \/ CloseSocket

CallSteps ==
    \/ CleanupNetwork \/ BindFails \/ CloseNetworkReturns
    \/ WinSockCreate \/ Connect \/ CreateThread \/ ConfigureFails
    \/ \E n \in 1 .. WriteLength : Send(n)
    \/ SendFails \/ CompleteWrite

BeginCall ==
    \/ \E name \in {"ConfigureClient", "ConfigureService", "CloseNetwork"} :
          Configure(name)
    \/ ConfigureRejected
    \/ \E w \in Writes : EvtIoWrite(w) \/ EvtIoWriteFails(w)

ThreadSteps(t) ==
    \/ LoopTop(t) \/ Processed(t) \/ RecvFails(t) \/ ForgetSocket(t)
    \/ WakeForThreadEvent(t)

ThreadNext == \E t \in Threads : ThreadSteps(t) \/ WakeForOther(t)

============================================================================
