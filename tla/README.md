# HtsVsp in TLA+

HtsVsp is a user-mode (UMDF) driver for a virtual serial port whose wire is a TCP connection, with
`vspControl`, a program that installs it, adds ports and configures them. This directory models what
is hard to test in it, checks the models with TLC, and proves with TLAPS what matters most.
Paths below are relative to `src/`.

## 1. Inventory

### 1.1 Components

| component | state it keeps | operations | who calls it |
|---|---|---|---|
| **Read path** (`ComPort/queue.cpp` EvtIoRead and the callbacks; `ComPort/network.cpp` ClientThread, processRequest, calculateReadTimers) | the manual ReadQueue; of each request Length, Information, WaitTimeouts; in the device context CurrentRequest, NumberNeededForRead, BytesFromLastRead, the use-flags and due times of two timers, Timeouts; six events | EvtIoRead, EvtReadQueueReady, EvtIntervalTimer, EvtTotalTimer, EvtReadRequestCancel, IOCTL_SERIAL_SET_TIMEOUTS, the loop of ClientThread | the framework, under the device lock; ClientThread, under none |
| **Network control** (`network.cpp` ConfigureClient, ConfigureService, CleanupNetwork, CloseNetwork) | ThreadHandle, ThreadEvent, TerminateThread, ClientSocket, ServiceSocket and their events | IOCTL_HTSVSP_CONFIGURE in three forms | the IOCTL dispatch; EvtDeviceCleanup |
| **Write path** (`queue.cpp` EvtIoWrite, `network.cpp` WinSockSend) | none of its own; sends on ClientSocket | EvtIoWrite | the framework, under the device lock, in the order of arrival |
| **Device set-up and removal** (`device.cpp`, `driver.cpp`) | the handles of the device context, the port's value under DEVICEMAP\SERIALCOMM | DeviceCreate, DeviceConfigure, EvtDeviceCleanup | plug and play |
| **Ring buffer** (`ringbuffer.cpp`) | Head, Tail and the bytes | RingBufferInitialize, Write, Read, GetAvailableSpace, GetAvailableData | QueueCreate initialises it (`queue.cpp:158`); the command matcher writes it; nobody reads it in this version |
| **Command matcher** (`queue.cpp` QueueProcessWriteBytes) | IDLE / GOT_A / GOT_T, ConnectCommand, IgnoreNextChar | one call per write | nobody in this version |
| **I/O control** (`queue.cpp` EvtIoDeviceControl, line control, wait mask; `device.cpp` accessors) | BaudRate, modem and FIFO registers, LineControl, Timeouts, the one pending WAIT_ON_MASK, WaitUnits, log level | about twenty codes | the framework, under the device lock |
| **Device manager** (`App/vspControl/devicemanager.cpp`, `DeviceManager.h`, `PortDeviceManager.cpp`) | none of its own: the system's devices, drivers and their states | install, uninstall, add, remove, enable, disable, list | vspControl |
| **Control program** (`App/vspControl/vspControl.cpp`) | its options, the selected port, its exit code | configure, trace level, wait units, find, list and delete ports, echo | the user |
| API wrappers (`devapi.*`) | – | one system call each; updateDriver and installDevice several | the device manager |
| Logger, vendored parser, unit tests (`Logger.h`, `cxxopts.hpp`, `unitTest/`) | – | – | – |

### 1.2 How they interact

Every callback of the device runs under one lock (`WdfSynchronizationScopeDevice`, `device.cpp:69`):
EvtIoRead, EvtIoWrite, EvtIoDeviceControl, the queue's ready notification, both timers and the
cancel routine exclude one another. ClientThread takes no lock. It is told things by six events in a
fixed order of priority, and takes requests out of the queue that the callbacks fill. CleanupNetwork
waits for the thread *while it holds the device lock*. The network control, the write path and the
thread share ClientSocket; the set-up and the network control share the event handles.

vspControl talks to a port by opening it and sending control codes, and to the system through the
set-up API. Several of them may run at once, and nothing keeps them apart: what one has enumerated
another may remove before the first acts on it.

### 1.3 What is hard, and what correct means

- Reads: three parties hand one request to each other without a lock of the driver's (the queue, the
  thread, the cancellation of the I/O manager). Correct: a read is always in one place, is completed
  once, in its turn, gets consecutive bytes of the stream, and is woken by everything that may end it.
- Wake-ups: auto-reset events that say that something happened, not to which read. Correct: none is
  lost, and a surplus one does bounded harm.
- Time: two timers per read, started anew on every round, and timeouts that may be overwritten while
  they are copied. Correct: a read that has a timeout ends.
- Life: configurations come in any order and fail half-way. Correct: one thread, one socket, no event
  closed under the thread, nothing left behind by a removal, every call comes back.
- Ring buffer and matcher: one producer, one consumer, snapshots of two pointers; a command split over
  writes, answers cut off. Correct: a bounded lossy FIFO, and the answer that belongs to a line.
- I/O control: handlers that fail half-way through, and one pending WAIT_ON_MASK. Correct: at most one
  waiter, completed once; what was accepted is read back; a failure changes nothing else.
- Device manager: several system calls per operation, each of which may fail, beside other programs.
  Correct: a call changes its target only, and its result and the exit code tell what it did, as far
  as the code looks at what its calls return.

## 2. The modules

| module | models | state ↔ code |
|---|---|---|
| `ReadTimers` | calculateReadTimers as a pure operator over SERIAL_TIMEOUTS; the torn copy of Timeouts | a record with the fields of DEVICE_CONTEXT |
| `ReadPath` (extends `ReadTimers`) | one configuration of a port, from the creation of the thread to its end | the variables are the fields of DEVICE_CONTEXT and REQUEST_CONTEXT of the same name; `pc` is the thread's place in its loop; `signaled`, `callbacks`, `cancelling` are what the kernel and the framework owe; `socket`, `peer`, `sent`, `taken`, `fdRecorded`, `fdEnabled` are Winsock |
| `ReadService` | the abstract specification of reads: a line of reads, one stream, and the length that the end of a read reports | – |
| `ReadPathProperties` | the properties of `ReadPath`, and how it implements `ReadService`: the line is CurrentRequest before the read queue, what a read has received is the beginning of its buffer | – |
| `MCReadPath` | choices of timeouts and the symmetry for TLC | – |
| `ReadPathProofs`, `ReadServiceProofs` | proofs about `ReadPath` (section 4) | – |
| `NetworkControl` | IOCTL_HTSVSP_CONFIGURE, CleanupNetwork, CloseNetwork, EvtIoWrite, and of ClientThread what these depend on | `op`, `at` are the call that holds the device lock and its next step; `held` are the handles that are not NULL; `open`, `lost` are the system's sockets |
| `WriteService` | the abstract specification of writes: one is served at a time, and puts a beginning of itself on the wire | – |
| `DeviceLifetime` (extends `NetworkControl`) | DeviceConfigure, use and EvtDeviceCleanup around it, the properties of both, and how they implement `WriteService` | `phase` of the device |
| `DeviceLifetimeProofs` | proofs about both | – |
| `LossyBuffer` | the abstract specification of the ring buffer | two counts: bytes taken and bytes left |
| `RingBuffer` | ringbuffer.cpp, store by store | pointers are offsets; a byte is its place in the stream |
| `RingBufferProofs` | proofs about `RingBuffer` | – |
| `CommandMatcher` (extends `RingBuffer`) | QueueProcessWriteBytes, character by character, as the producer of the ring buffer | CommandMatchState, ConnectCommand, IgnoreNextChar, CurrentlyConnected; `line`, `echoed`, `answer` are history |
| `CommandMatcherProofs` | proofs about `CommandMatcher` | – |
| `WaitSlot` | the abstract specification of WAIT_ON_MASK: a place for one request | – |
| `IoControl` | the other codes of EvtIoDeviceControl, one action each, with a buffer that fits and one that does not | the registers of DEVICE_CONTEXT and Globals; `waitMaskQueue` is the manual queue of WAIT_ON_MASK |
| `MCIoControl` | the settings TLC tries | – |
| `IoControlProofs` | proofs about `IoControl` | – |
| `DeviceManager` | the calls of the device manager, from one system call to the next, for any number of programs | `tree`, `enabled`, `portName`, `store`, `comDb` are the system; `op`, `at`, `infoSet`, `device`, `found`, `oemFiles` are the call and its locals |
| `DeviceManagerProofs` | proofs about `DeviceManager` | – |
| `VspControl` (extends `DeviceManager`) | main of vspControl with every command, the search for a port, and the exit code | `htsvspPortNumber`, `portNumbers`, `portNumbersCount` of the code; `line` is where main is |
| `MCVspControl` | a machine with three devices and two programs | – |
| `VspControlProofs` | proofs about `VspControl` | – |

An action is a handler, or the part of one between two points where somebody else can act: the
thread's loop is cut at its shared reads and writes, a callback is one step, a call under the device
lock that waits or sends is cut where the thread runs meanwhile, a program is cut at every system
call. Operators whose comment says "mutant" are faulty variants of the definition after them; they
are used only to see that the properties notice such a fault.

## 3. The runs

Runs that pass:

| run | instance | what it shows |
|---|---|---|
| `ReadPathSafety` | 2 reads of up to 2 bytes, 2 bytes from the peer, a total timeout; rejection, cancellation, close and reset at any point; symmetric in the reads | nobody loses a read or owns it twice, the two counts agree, bytes arrive in order and are lost only with a read that is given up, a cancellation wakes the thread, surplus cancel events are accounted for, a completed read stays as it is, and all of it implements `ReadService` |
| `ReadPathCancelled` | 2 reads of up to 2 bytes, 1 byte from the peer, interval timer only: after a first byte the timer may fire for ever, so that only data or a cancellation ends the read | a cancelled read completes |
| `ReadPathTimers` | 1 read, two settings of the timeouts that are exchanged at any moment, CleanupNetwork at any moment | a sleeping read has its timer, untimed reads and reads with a total timeout alone end, the thread ends when told |
| `DeviceLifetime` | 2 threads, 2 sockets, 2 writes of 2 bytes; a failure at each step of set-up and configuration, a configuration whose buffer is too small, a lost connection, a wait that runs out | one client thread, sockets accounted for, events outlive the thread, a configuration that fails after CleanupNetwork leaves nothing, a removed device leaves nothing behind, the write path implements `WriteService` (so writes arrive in order, each in one piece), calls return, threads end |
| `CommandMatcher` | 5 places, the characters A, T, D and carriage return, 10 bytes, answers of 3 and 2 bytes; under the device lock or with merged stores | the bytes come out in order; the ring buffer implements `LossyBuffer`; only a line with AT in it is answered, with CONNECT only for ATA or ATD, and an AT that does not follow another A always, whatever was dropped; under the lock an answer has the echo of its line before it |
| `IoControl` | 2 WAIT_ON_MASKs, one with a short buffer; two values of each register; six line settings, two timeouts, two levels | one request waits at most, each is completed once, the queue implements `WaitSlot`, an accepted line control is read back, a failure changes nothing but line control and log level |
| `ControlProgram` | one program with any command beside one that adds, removes, uninstalls or frees a port number; any system call may fail; a device of the driver, one with its id in other letters, one of another driver, and one to be created; 4 port numbers | a call changes its target only, its result tells what happened, a successful uninstall has removed all that it got to know, exit codes tell what was done, a setting goes to the port that was reported, every program ends |

Runs that TLC answers with a counterexample, each against a sentence of the code (the sentence and
the story are in PROJECT.json, "findings"):

| run | what happens |
|---|---|
| `ReturnImmediately` | interval MAXULONG and total 0 ask for what is present; an empty socket makes such a read wait |
| `SleepOverQueued` | after completing a read the thread sleeps over the next one, which is already queued |
| `StaleTotalTimer` | a timer event left over from one read ends the next |
| `ReconfiguredPort` | TerminateThread and ThreadEvent are never reset: the second configuration succeeds and is served by nobody |
| `ExitCodes` | add, enable and disable exit with 1 when they have succeeded and with 0 when not: the functions return bool, and main takes it for an error code |

### 3.1 Bounds, and why they are enough

**Reads** are told apart only by their place in the queue and CurrentRequest, so two show everything
one can do to the next (a stale event, a stale count, a notification that was given to the first);
length 2 is the least that can be received in parts; WaitUnits 2 the least at which a wait is counted
without being the last. MaxUlong is 3: the conditions of calculateReadTimers compare with 0 and
MAXULONG only. Times are counted in ticks, and a timer is due at any moment after its start, as the
thread may be slow.

**Life.** Two threads show an old one beside a new one, and a second configuration; two sockets show a
handle used again.

**Ring buffer and matcher.** Ten bytes go around the five places twice, so that every alignment of the
pointers comes up; with answers of 3 and 2 bytes in a buffer for 4, echo and answer are cut off at each
of their bytes. A line of five characters, its carriage return included, is the shortest that has a
failed attempt at a command before one that succeeds (`A D A T`), a letter after the one that decides
(`A T D A`), and an A too many before a command (`A A T A`).

**I/O control.** The two waits are one that waits and the one that finds it waiting. The line settings
are words at both ends of the range with the longest stop they take, and one that is wrong in each of
the three groups of bits.

**Control program.** A program runs one command. Two of them are what it takes for one to act on what
the other has changed; the second is given only those that change what there is, by adding, removing, uninstalling and freeing
numbers (enabling and disabling are left to the first, to keep the run short). The devices
are one of each kind that the comparisons of hardware ids tell apart, and one that is not there yet.

The number of bytes, reads, writes, threads and calls in one behaviour is what bounds the models; the
code bounds none. Instances for liveness are smaller than those for safety, since no symmetry may be
used there. `CHECK_DEADLOCK FALSE` is set throughout: an application that issues nothing more, a
device that is gone, and programs that have all ended are legitimate ends.

### 3.2 Fairness, and why the code justifies it

`ReadPath`: weak fairness of ClientThread (the scheduler runs it; nothing it does takes a lock), of
Tick (time passes) and of calls already begun; strong fairness of the framework's callbacks, which are
owed but wait for a device lock that other callbacks keep taking. Nothing is assumed of the
application or the peer.

`DeviceLifetime`: weak fairness of the call that holds the lock (each of its steps returns, for the
wait has a limit of 5000 ms and the socket does not block after WSAEventSelect) and of each thread.
Configurations, writes, removal and the loss of connections are not fair, nor are the other events
that may end the thread's wait.

`VspControl`: weak fairness of each program that has been started: it is scheduled, and its system
calls return. That a program is started, and that a call succeeds, is not assumed.

`IoControl` and `CommandMatcher` have no liveness property: a handler is a step, and nothing obliges an
application to read or to set a mask.

## 4. The proofs

The theorems hold for every value of the constants, under the assumptions declared with them
(`ReadPathAssumption`, `MaxUlongAssumption`, `NetworkControlAssumption`, `RingBufferAssumption`,
`CommandMatcherAssumption`, `IoControlAssumption`, `DeviceManagerAssumption`, `VspControlAssumption`:
numbers are natural, NULL is no handle and no exit code, an answer fits in one call of the ring buffer,
and the like). Every safety invariant and every action property of the passing runs is stated by a
theorem, and so are the four refinements (section 4.1 has the rest).

**ReadPath.** `IInv` is the types, `EachReadInOnePlace`, `NeededMatchesInformation`, and the two facts
these need to be inductive: the thread holds a read wherever it processes, arms or times out one
(`HoldsARead`), and a read is untouched until it is dequeued (`FreshUntilDequeued`; without it a read
could enter CurrentRequest with bytes in it and NumberNeededForRead would be wrong). Actions that touch
none of the variables of placement are dealt with by one lemma; the others one by one. `CompletedOnce`
follows from the same invariant: a completed read is neither queued nor held, and every action that
completes a read or receives into its buffer takes it from the queue or from CurrentRequest.

**ReadPath implements ReadService.** With `IInv` at hand each step of `ReadPath` is one of six things to
the reads: it leaves them alone, issues or refuses one, moves one from the queue to CurrentRequest,
receives into the one that is held, or ends one. A dequeue is a stutter of the service, since the line
of waiting reads begins with CurrentRequest; to receive is `Receive`, with the bytes that follow in the
stream; an end is `End` with all that was received or with nothing. A cancellation in the queue removes
the read from the middle of the line. `BytesInOrder` and `LossOnlyOnGivingUp` are proved along the same
cases; the former needs that every byte taken so far is in exactly one buffer. `CancelWakesTheThread`
rests on what the thread knows of the mark of its read: from the moment it is marked until it is
unmarked, a cancellation leaves its routine due or CancelEvent signaled, and only the thread consumes
the event. `HeldReadHasItsWakeUp` rests on the timers being started before every wait, and stopped by
nobody but the thread and CleanupNetwork.

`StrayCancelsAreAccountedFor` is a matter of counting (`StrayInv`). An announcement of a cancellation is a
cancel routine that is due, the event while it is signaled, or the thread that was woken by it. The reads
that were ended by CancelEvent, together with the announcements, are at most as many as the reads that
were cancelled while the thread held them: the event merges announcements and never multiplies them.
That alone is not inductive enough, as a read may be cancelled and not yet be paid for: one cancelled
before it is marked gets no announcement. So the ended ones by themselves are also at most as many as
the cancelled reads that have ended, which holds since HandleCancelEvent spends an announcement and ends
the only cancelled read that has not ended, if there is one (`CancelledNotEnded`). Reads that were ended
by CancelEvent and cancelled appear on both sides; what remains is the property. The number of reads is
not assumed to be finite, so the invariant keeps that the sets it counts are.

**DeviceLifetime.** None of `OneClientThread`, `SocketsAccountedFor` and `EventsOutliveTheThread` is
inductive. They rest on: a configuration past CleanupNetwork has no thread handle
(`NoThreadPastCleanup`), so by `OneClientThread` nobody lives while sockets are created or events
closed; a thread that is about to forget the socket has closed it (`ClosingHasClosed`); ThreadEvent is
there whenever ClientSocketEvent is (`EventsTogether`), so a thread is never created without it; and
which call runs in which phase (`CallsInPhase`). All three are stated for as long as no wait of 5000 ms
has run out: when one has, `TerminateThread` is given the handle of the event, and the code promises
nothing any more. `FailedConfigureLeavesNothing` and `NothingLeftBehind` then follow from `Left`: past
CloseSocket there is no socket, and a failure that has been reported stays clean until the next
WinSockCreate. Both have their limits, which are the code's: a configuration whose buffer cannot be copied
(`ConfigureRejected`) fails before CleanupNetwork and leaves the connection that there was, so that the
first is about failures after that; and a device whose set-up failed half-way is not among the removed
ones of the second, since its cleanup ends in `Crash`, on a timer that was never created. `WritesArriveInOrder` and the types follow from `Written`: the request that is being sent
is the last of the stream, or not in it yet, and a request that has not arrived is nowhere in it.

**DeviceLifetime implements WriteService.** A request that is pending is served if EvtIoWrite works on it,
and dropped otherwise: the driver has forgotten it. Only four kinds of step change that or the wire:
EvtIoWrite and its early return are `Arrive`, a send that takes n bytes is `Put`, and WdfRequestComplete
is `Complete`; by `Written` what `WriteService` calls the taken part of a request is the counter of
WinSockSend's loop. All other steps, the whole of configuration, failure, the thread and removal among
them, stutter. The run checks the refinement only: it implies `WritesArriveInOrder`, which the proof needs
as an invariant and has as a theorem of its own. It is a safety specification: that a served write ends
is `CallsReturn`.

**RingBuffer.** The invariant ties the pointers to the counts: Tail is `accepted - delivered` places
after Head, and the ring holds the following bytes of the stream from Head on, those being copied in
included. `SpaceIsWhatIsLeft` shows that the four cases of GetAvailableSpace compute what the counts
say on every pair of pointers a call can see. Every step then is a step of `LossyBuffer` or leaves it
alone. The theorems assume that no mode is "unlocked". That mode is the reason for the assumption: a
pointer that reaches the end is stored twice, End and then Base (`ringbuffer.cpp:228`), and a consumer
that has just emptied the buffer and sees the first finds Size bytes in it.

**CommandMatcher.** Every step of the matcher is a call of the ring buffer, a step of one, or nothing to
it (`ModemUsesTheRing`), so that the theorems about `RingBuffer` hold of the driver's producer. The three
flags are determined by the line (`Knows`): GOT_T that a command has begun, IgnoreNextChar that a
character follows it, ConnectCommand that this one is A or D, and GOT_A that a run of A's of odd length
ends here, as the second of two A's puts the matcher back to IDLE. That a run has a beginning would take
an induction over the line; instead the invariant says so of the line so far (`RunsStart`), and one
character more keeps it. The runs of A's are the matcher's own reading, and are in the proof only
(`MatchesAt`): `AnswersCommands` speaks of AT, ATA and ATD in the line, and follows at the carriage return,
since an AT that does not follow another A ends a run of one and what the matcher takes for a command is
always an AT (`MatchesCommands`, `RightAnswerIsRight`). That every AT is answered,
which is how one would read the comment, is not so (section 6). The property is about the line only, not
about how it was cut into writes. `AnswerFollowsItsEcho` rests on what a buffer
under the device lock is between the calls of one write: if the echo did not fit, the buffer is full
until the answer has been tried (`EchoInv`). Both are proved under the assumption about "unlocked".

**IoControl.** A WAIT_ON_MASK has been answered, waits, or has not been issued; its answers are counted
and are at most one. That SET_WAIT_MASK takes one request only out of the queue is enough because the
handler of WAIT_ON_MASK has emptied the queue before it forwards one (`OneWaiter`, a part of
`EachWaitInOnePlace`). What
GET_LINE_CONTROL decodes is what was accepted last, or the register was changed by a rejected setting
since, which takes `accepted` back.

**IoControl implements WaitSlot.** The place is the request in the queue, of which `OneWaiter` says that
there is one at most; so the request that the queue gives, whichever the framework chooses, is the one
that has the place. `SlotInv` adds that a request has an answer if and only if it was issued and waits no
more; therefore an answer is never replaced by another, and a request that comes is new. WAIT_ON_MASK is
`TakePlace`, or `Refuse` at a queue that was purged; SET_WAIT_MASK is `SetMask`, or nothing if nobody
waits; the other codes are nothing to the place.

**DeviceManager.** `DmInv` says of each call what it knows at each place: the device it holds has the
hardware id it was compared with and the name it was asked for, although its registration may be gone
by now; a device that was created by this call is known to no other; and an uninstall that has come to
an end without an error has removed, or seen removed, everything its enumeration got to know. What it did
not is in `missed`: a device whose hardware ids could not be read, and those that an enumeration which
failed had not come to. `UninstallRemovesAll` excepts these: of them TRUE says nothing. Since the result is set in the step that
changes the device, or in one that changes none, `ResultTellsWhatHappened` follows; of an install it only
says that some device was given the driver, as the update goes by the hardware id and its own device may
have been removed by another program. `ChangesOnlyItsTarget` follows from the places alone.

**VspControl.** A step of main starts a call of the device manager, moves it, releases a port number, or
does nothing to it: `ProgramsUseTheManager`, after which the theorems about `DeviceManager` hold of the
programs. `VspInv` adds where main can be with which command (`InMain`), that the port that is selected
from the report on is the one that was reported (`Selects`), what the manager did of the command
(`Manages`), what was sent (`Sends`, `SetInv`), and what a call that has returned has changed (`DoneInv`).
`ExitCodeTells` says no more of a failing configure than that it exits with 1: the driver may have closed
the connection before it failed. `ActsOnReportedPort` needs that a device which can be opened has a name and keeps it (`NamedInv`,
`NamesStay`): it is the reason why the search in selectPort and the later one by number find the same
port, and it holds because the driver gives a name to a device that has none and nobody renames one.

### 4.1 What is only model-checked

Everything about liveness (`CancelledReadCompletes`, `UntimedReadCompletes`, `TotalTimeoutCompletes`,
`TerminationEndsTheThread`, `CallsReturn`, `TerminatedThreadsEnd`, `EveryProgramEnds`), which is outside
of what the prover can do. The counterexamples of section 3 are found by TLC on their instances, which is
all that a counterexample needs. In the mode "unlocked" of the ring buffer, where a pointer may be stored
twice, nothing is claimed, by a theorem or by a run.

## 5. What is assumed of the outside

- A wait for several events returns the lowest that is signaled and resets it unless it is
  manual-reset. A stopped timer whose callback has begun still signals its event.
- A request that was marked cancelable and is cancelled gets its cancel routine once, unless unmarked
  before; marking a cancelled request fails.
- The ready notification comes when the queue becomes non-empty, once.
- FD_READ is recorded when data arrives, and not again before recv is called, which records it at once if
  data is left. The end of the connection is no event, as only FD_READ is selected: recv meets it.
- WSAEventSelect fails without an event. WdfTimerStop ends the host process on a NULL handle.
- Plain stores are seen in program order. Whether a build keeps both stores to a pointer of the ring
  buffer is left open ("merged", "unlocked").
- A device set is a snapshot. A call on a device that is gone fails. A system call that fails has changed
  nothing, but for IOCTL_HTSVSP_CONFIGURE. UpdateDriverForPlugAndPlayDevices succeeds if there is any
  device of the hardware id it is given. A port can be opened if an enabled
  device has its name, and GetCommPorts reports ERROR_MORE_DATA if there are more than it has room for.

## 6. What is not modelled, and why

In modelled parts:

- WSA_WAIT_IO_COMPLETION of ClientThread: the driver queues no APC. The flag crunchDownToOne is set and
  never read.
- WaitUnits changing during a read; the overflow of due times at the multiplication by 10000;
  statistics.
- ServiceThread: ServiceSocket is never created (`network.cpp:737`), so ConfigureService fails at bind.
- The registry, the symbolic link and the device interface of the set-up; several devices, of which
  the first one removed deletes the key DEVICEMAP\SERIALCOMM for all (`device.cpp:459`).
- Handles of the device manager, which destructors release; findHwIds and removeDriver, which nobody
  calls; the data that the echo service passes on.

Whole parts: formatting and tracing (`Logger.h`), the vendored parser (`cxxopts.hpp`), the unit tests,
and of `devapi.*` the wrappers of one system call.

Seen while modelling, and not covered by a run of its own:

- The thread may see TerminateThread at the top of its loop (`network.cpp:348`) and leave with a read
  that it has made uncancelable; what the framework does with it at removal is not modelled.
- With both timers in use each interval event starts the total timer anew (`network.cpp:402`), so that
  the total timeout of a read that receives nothing may never come.
- After an event for which WSAEnumNetworkEvents reports nothing, BytesFromLastRead keeps its value, and
  the interval timer fires without ever ending the read; at any rate the read ends only at the second
  period, as the first finds BytesFromLastRead set.
- EvtDeviceCleanup closes the timers' events before it stops the timers (`device.cpp:469`); CloseNetwork
  has stopped them before, so only a callback that was under way can meet a closed event.
- EvtIoWrite leaves a request pending for ever if its memory cannot be retrieved (`queue.cpp:618`).
- GET_TIMEOUTS answers zeros for timeouts that it holds; a SET_LOGLEVEL with a short buffer fails and
  sets level 0 (which `inc/htsvsp.h:16` says logs everything, and the driver takes for errors only),
  and a level above the highest succeeds and sets nothing; a WAIT_ON_MASK without room for the mask is
  ended with an error only when the mask is set. `IoControl` has these as the code does them.
- A DeviceConfigure that fails before its timers exist ends the host process in EvtDeviceCleanup, as
  CleanupNetwork stops timers that are NULL (`network.cpp:61`); `DeviceLifetime` has it as `Crash`.
- The line AAT gets no answer, and AATA no CONNECT: the second A ends the attempt of the first and begins
  none (`queue.cpp:757`), of which the comment of QueueProcessWriteBytes, "looks for the sequences", says
  nothing (`queue.cpp:696`). The matcher takes ATD for a dial command whether a number follows or not
  (`queue.cpp:769`).
- installDriver goes on when the uninstall before it has failed, and after registering its device updates
  by hardware id only (`devicemanager.cpp:282`): it returns TRUE, and vspControl 0, also if its own
  device has been removed meanwhile and another one takes the driver.
- uninstallDriver takes a failing enumeration for the end of the set and passes over a device whose
  hardware ids cannot be read (`devicemanager.cpp:157`, `160`): it then returns TRUE ("true on success",
  `DeviceManager.h:79`) with devices of the driver left. enumClassDevices takes a failure for the end too (`devicemanager.cpp:327`): list, remove,
  enable and disable then say that there is no such device.
- uninstallDriver ignores the package file it is given and removes the packages of the devices it met
  (`devicemanager.cpp:221`): without a device it returns TRUE and the package stays.
- vspControl reports a trace level above the highest as set. Given an empty name, remove, enable and
  disable act on the first device whose name cannot be read; the model gives every such call a name.

## 7. Plan

In place: `ReadTimers`, `ReadPath`, `ReadService`; `WriteService`, `NetworkControl`, `DeviceLifetime`;
`LossyBuffer`, `RingBuffer`, `CommandMatcher`; `WaitSlot`, `IoControl`; `DeviceManager`, `VspControl`; with their proofs. What would
come next, in order of weight:

1. One module that composes `ReadPath` with `NetworkControl`: reads across a second configuration, with
   the read that the first thread leaves behind. Today each sees of the other what it depends on.
2. Several devices and the registry key that they share.
