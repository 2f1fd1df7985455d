-------------------------- MODULE ReadPathProofs --------------------------
(***************************************************************************)
(* Proofs, for every set of requests and every bound, that ReadPath keeps  *)
(* its types, that every read is in one place only, that the two counts of *)
(* a held read agree, and that a completed read is left alone.             *)
(***************************************************************************)
EXTENDS ReadPathProperties, SequenceTheorems, TLAPS

(* Where the program counter says that the thread holds a read.            *)
HoldsARead == pc \in {"process", "arm", "WAIT_TIMEOUT"} => current # None

(* What EachReadInOnePlace and the counts of a held read depend on.        *)
placeVars == <<length, info, outcome, readQueue, current, needed>>

(* Nothing has happened to a read that is not issued or is still queued.   *)
FreshUntilDequeued ==
    \A r \in Requests : ~Issued(r) \/ Queued(r) =>
        info[r] = 0 /\ outcome[r].status = Pending

Placement ==
    /\ EachReadInOnePlace
    /\ FreshUntilDequeued
    /\ NeededMatchesInformation

IInv == TypeOK /\ HoldsARead /\ Placement

USE ReadPathAssumption, MaxUlongAssumption

LEMMA TimersType ==
    ASSUME NEW t \in SerialTimeouts, NEW n \in Nat
    PROVE  CalculateReadTimers(t, n) \in ReadTimersOf
BY DEF CalculateReadTimers, ReadTimersOf, SerialTimeouts, ULong,
       ReturnWithWhatsPresent, ReturnQuickly, NoTotal, Os2ssReturn,
       UsesIntervalTimer, UsesTotalTimer, TotalTime

LEMMA TornReadType ==
    ASSUME NEW t \in SerialTimeouts, NEW u \in SerialTimeouts
    PROVE  TornRead(t, u) \subseteq SerialTimeouts
BY DEF TornRead, SerialTimeouts

LEMMA NoTimeoutsType == NoTimeouts \in SerialTimeouts
BY DEF NoTimeouts, SerialTimeouts, ULong

(* What is left of a sequence after one element was taken out of it.       *)
LEMMA RemoveAtProperties ==
    ASSUME NEW S, NEW s \in Seq(S), NEW i \in 1 .. Len(s)
    PROVE  /\ RemoveAt(s, i) \in Seq(S)
           /\ Len(RemoveAt(s, i)) = Len(s) - 1
           /\ \A j \in 1 .. Len(s) - 1 :
                  RemoveAt(s, i)[j] = IF j < i THEN s[j] ELSE s[j + 1]
<1> DEFINE before == SubSeq(s, 1, i - 1)
           after  == SubSeq(s, i + 1, Len(s))
<1>1. /\ before \in Seq(S) /\ Len(before) = i - 1
      /\ \A j \in 1 .. i - 1 : before[j] = s[j]
  BY SubSeqProperties, LenProperties, ElementOfSeq
<1>2. /\ after \in Seq(S) /\ Len(after) = Len(s) - i
      /\ \A j \in 1 .. Len(s) - i : after[j] = s[i + j]
  BY SubSeqProperties, LenProperties, ElementOfSeq
<1> HIDE DEF before, after
<1>3. RemoveAt(s, i) = before \o after
  BY DEF RemoveAt, before, after
<1>4. Len(s) \in Nat
  BY LenProperties
<1>5. ASSUME NEW j \in 1 .. Len(s) - 1
      PROVE  (before \o after)[j] = IF j < i THEN s[j] ELSE s[j + 1]
  BY <1>1, <1>2, <1>4, ConcatProperties
<1>6. before \o after \in Seq(S) /\ Len(before \o after) = Len(s) - 1
  <2>1. /\ before \o after \in Seq(S)
        /\ Len(before \o after) = Len(before) + Len(after)
    BY <1>1, <1>2, ConcatProperties
  <2> QED
    BY <1>1, <1>2, <1>4, <2>1
<1> QED
  BY <1>3, <1>5, <1>6

LEMMA InitIInv == Init => IInv
<1> SUFFICES ASSUME Init PROVE IInv
    OBVIOUS
<1>1. TypeOK
  <2>1. RequestTypes
    BY DEF Init, RequestTypes, Outcome, Statuses, Pending, Sites, Byte
  <2>2. OwnerTypes
    BY EmptySeq DEF Init, OwnerTypes
  <2>3. ReadTypes
    BY TimersType, NoTimeoutsType DEF Init, ReadTypes, AcceptedTimeouts
  <2>4. ThreadTypes
    BY DEF Init, ThreadTypes, PCs
  <2>5. EventTypes
    BY DEF Init, EventTypes
  <2>6. SocketTypes
    <3>1. sent \in 0 .. MaxBytes /\ taken \in 0 .. sent
      BY DEF Init
    <3>2. fdRecorded \in BOOLEAN /\ fdEnabled \in BOOLEAN
      BY DEF Init
    <3> QED
      BY <3>1, <3>2 DEF Init, SocketTypes
  <2> QED
    BY <2>1, <2>2, <2>3, <2>4, <2>5, <2>6 DEF TypeOK
<1>2. HoldsARead /\ FreshUntilDequeued /\ NeededMatchesInformation
  BY DEF Init, HoldsARead, FreshUntilDequeued, NeededMatchesInformation, Outcome
<1>3. EachReadInOnePlace
  BY DEF Init, EachReadInOnePlace, Queued, IsPending, Issued
<1> QED
  BY <1>1, <1>2, <1>3 DEF IInv, Placement

----------------------------------------------------------------------------
(* Types.                                                                  *)

(* A group of variables that a step leaves alone keeps its types.          *)
LEMMA TypeFrames ==
    /\ RequestTypes /\ UNCHANGED requestVars => RequestTypes'
    /\ OwnerTypes /\ UNCHANGED <<readQueue, current, cancelVars>> => OwnerTypes'
    /\ ReadTypes /\ UNCHANGED <<needed, timers, bytesFromLastRead, timeoutVars>>
          => ReadTypes'
    /\ ThreadTypes /\ UNCHANGED <<terminate, threadVars, cleanup>> => ThreadTypes'
    /\ EventTypes /\ UNCHANGED eventVars => EventTypes'
    /\ SocketTypes /\ UNCHANGED netVars => SocketTypes'
<1>1. RequestTypes /\ UNCHANGED requestVars => RequestTypes'
  BY DEF RequestTypes, requestVars
<1>2. OwnerTypes /\ UNCHANGED <<readQueue, current, cancelVars>> => OwnerTypes'
  BY DEF OwnerTypes, cancelVars
<1>3. ReadTypes /\ UNCHANGED <<needed, timers, bytesFromLastRead, timeoutVars>>
        => ReadTypes'
  BY DEF ReadTypes, timeoutVars
<1>4. ThreadTypes /\ UNCHANGED <<terminate, threadVars, cleanup>> => ThreadTypes'
  BY DEF ThreadTypes, threadVars
<1>5. EventTypes /\ UNCHANGED eventVars => EventTypes'
  BY DEF EventTypes, eventVars
<1>6. SocketTypes /\ UNCHANGED netVars => SocketTypes'
  BY DEF SocketTypes, netVars, streamVars
<1> QED
  BY <1>1, <1>2, <1>3, <1>4, <1>5, <1>6

(* Completing a read keeps the types.                                      *)
LEMMA CompleteType ==
    ASSUME RequestTypes, NEW r \in Requests, NEW st \in Statuses,
           NEW n \in 0 .. MaxLength, NEW site \in Sites,
           Complete(r, st, n, site)
    PROVE  outcome' \in [Requests -> [status : Statuses,
                                      information : 0 .. MaxLength, by : Sites]]
BY DEF RequestTypes, Complete, Outcome

(* ... also when the read is the current one, or nothing is completed.     *)
LEMMA CompleteCurrentType ==
    ASSUME RequestTypes, OwnerTypes, current # None,
           NEW st \in Statuses, NEW n \in 0 .. MaxLength, NEW site \in Sites,
           CompleteCurrent(st, n, site),
           UNCHANGED <<length, info, waitTimeouts, buffer, readQueue, cancelVars>>
    PROVE  RequestTypes' /\ OwnerTypes'
<1>1. outcome' \in [Requests -> [status : Statuses,
                                 information : 0 .. MaxLength, by : Sites]]
  BY CompleteType DEF OwnerTypes, CompleteCurrent
<1> QED
  BY <1>1 DEF RequestTypes, OwnerTypes, CompleteCurrent, cancelVars

LEMMA StringSets ==
    /\ {"SUCCESS", "TIMEOUT", "CANCELLED", "UNSUCCESSFUL", "INVALID"}
          \subseteq Statuses
    /\ {"WAIT_TIMEOUT", "recv", "mark", "queue", "issue"} \cup Events \subseteq Sites
    /\ {"loop", "process", "arm", "wait", "exited", "WAIT_TIMEOUT"} \cup Events
          \subseteq PCs
BY DEF Statuses, Sites, PCs

LEMMA RecvReenablesType ==
    ASSUME NEW k, RecvReenables(k), fdRecorded \in BOOLEAN
    PROVE  fdRecorded' \in BOOLEAN /\ fdEnabled' \in BOOLEAN
BY Zenon DEF RecvReenables

LEMMA TypeStep == IInv /\ [Next]_vars => TypeOK'
<1> SUFFICES ASSUME IInv, [Next]_vars PROVE TypeOK'
    OBVIOUS
<1> USE TypeFrames DEF IInv, Placement, TypeOK, requestVars, cancelVars, readVars,
        timeoutVars, threadVars, eventVars, streamVars, netVars
<1>1. CASE Application
  <2>1. ASSUME NEW r \in Requests, NEW n \in 1 .. MaxLength, EvtIoRead(r, n)
        PROVE  TypeOK'
    <3>1. RequestTypes'
      BY <2>1 DEF EvtIoRead, RequestTypes
    <3>2. OwnerTypes'
      BY <2>1, AppendProperties DEF EvtIoRead, OwnerTypes
    <3>3. EventTypes'
      BY <2>1 DEF EvtIoRead, EventTypes, Callbacks
    <3> QED
      BY <2>1, <3>1, <3>2, <3>3 DEF EvtIoRead
  <2>2. ASSUME NEW r \in Requests, NEW n \in 1 .. MaxLength,
               EvtIoReadFails(r, n)
        PROVE  TypeOK'
    <3>1. RequestTypes'
      <4>1. outcome' \in [Requests -> [status : Statuses,
                                       information : 0 .. MaxLength, by : Sites]]
        BY <2>2, CompleteType, StringSets DEF EvtIoReadFails
      <4>2. length' \in [Requests -> 0 .. MaxLength]
        BY <2>2 DEF EvtIoReadFails, RequestTypes
      <4>3. UNCHANGED <<info, waitTimeouts, buffer>>
        BY <2>2 DEF EvtIoReadFails
      <4> QED
        BY <4>1, <4>2, <4>3 DEF RequestTypes
    <3> QED
      BY <2>2, <3>1 DEF EvtIoReadFails
  <2>3. ASSUME NEW r \in Requests, CancelQueued(r)
        PROVE  TypeOK'
    <3>1. RequestTypes'
      BY <2>3, CompleteType, StringSets DEF CancelQueued, RequestTypes
    <3>2. OwnerTypes'
      BY <2>3, RemoveAtProperties, LenProperties DEF CancelQueued, OwnerTypes
    <3> QED
      BY <2>3, <3>1, <3>2 DEF CancelQueued
  <2>4. ASSUME NEW r \in Requests, CancelHeld(r)
        PROVE  TypeOK'
    <3>1. OwnerTypes'
      BY <2>4 DEF CancelHeld, OwnerTypes
    <3> QED
      BY <2>4, <3>1 DEF CancelHeld
  <2>5. ASSUME NEW t \in TimeoutChoices, SetTimeoutsBegin(t)
        PROVE  TypeOK'
    <3>1. ReadTypes'
      BY <2>5 DEF SetTimeoutsBegin, ReadTypes, AcceptedTimeouts
    <3> QED
      BY <2>5, <3>1 DEF SetTimeoutsBegin
  <2> QED
    BY <1>1, <2>1, <2>2, <2>3, <2>4, <2>5 DEF Application
<1>2. CASE SetTimeoutsEnd
  <2>1. ReadTypes'
    BY <1>2 DEF SetTimeoutsEnd, ReadTypes
  <2> QED
    BY <1>2, <2>1 DEF SetTimeoutsEnd
<1>3. CASE Peer
  <2>1. CASE PeerSend
    <3>1. EventTypes'
      BY <2>1 DEF PeerSend, EventTypes, Events
    <3>2. sent' \in 0 .. MaxBytes /\ taken' \in 0 .. sent'
      BY <2>1 DEF PeerSend, SocketTypes
    <3>3. fdRecorded' \in BOOLEAN /\ fdEnabled' \in BOOLEAN
      BY <2>1 DEF PeerSend, SocketTypes
    <3> QED
      BY <2>1, <3>1, <3>2, <3>3 DEF PeerSend, SocketTypes
  <2>2. CASE PeerClose \/ PeerReset
    <3>1. SocketTypes'
      BY <2>2 DEF PeerClose, PeerReset, PeerEnds, SocketTypes
    <3> QED
      BY <2>2, <3>1 DEF PeerClose, PeerReset, PeerEnds
  <2> QED
    BY <1>3, <2>1, <2>2 DEF Peer
<1>4. CASE RunCallbacks
  <2>1. ASSUME NEW e \in Events, Callback(e)
        PROVE  TypeOK'
    <3>1. EventTypes'
      BY <2>1 DEF Callback, EventTypes
    <3> QED
      BY <2>1, <3>1 DEF Callback
  <2>2. ASSUME NEW r \in Requests, EvtReadRequestCancel(r)
        PROVE  TypeOK'
    <3>1. EventTypes' /\ OwnerTypes'
      BY <2>2 DEF EvtReadRequestCancel, CancelCallback, EventTypes, OwnerTypes,
                  Events
    <3> QED
      BY <2>2, <3>1 DEF EvtReadRequestCancel, CancelCallback
  <2> QED
    BY <1>4, <2>1, <2>2
       DEF RunCallbacks, EvtReadQueueReady, EvtIntervalTimer, EvtTotalTimer,
           Events
<1>5. CASE Tick
  <2>1. EventTypes'
    <3>1. ASSUME NEW t \in Timers
          PROVE  (IF left[t] <= 1 THEN Stopped ELSE left[t] - 1)
                     \in Nat \cup {Stopped}
      BY DEF EventTypes, Stopped
    <3>2. callbacks' \subseteq Callbacks
      BY <1>5 DEF Tick, EventTypes, Callbacks
    <3> QED
      BY <1>5, <3>1, <3>2 DEF Tick, EventTypes
  <2> QED
    BY <1>5, <2>1 DEF Tick
<1>6. CASE ClientThread
  <2>1. CASE LoopExit \/ NothingToDequeue
    <3>1. ThreadTypes'
      BY <2>1, StringSets DEF LoopExit, NothingToDequeue, ThreadTypes
    <3> QED
      BY <2>1, <3>1 DEF LoopExit, NothingToDequeue
  <2>2. CASE Dequeue
    <3>1. Head(readQueue) \in Requests /\ Tail(readQueue) \in Seq(Requests)
      BY <2>2, HeadTailProperties DEF Dequeue, OwnerTypes
    <3>2. length[Head(readQueue)] \in 0 .. MaxLength
      BY <3>1 DEF RequestTypes
    <3>3. ReadTypes'
      <4>1. PICK t \in TornRead(timeouts, newTimeouts) :
               /\ timers' = CalculateReadTimers(t, length[Head(readQueue)])
               /\ bytesFromLastRead' = IF UsesIntervalTimer(t) THEN 0
                                       ELSE bytesFromLastRead
        BY <2>2 DEF Dequeue
      <4>2. t \in SerialTimeouts
        BY TornReadType DEF ReadTypes
      <4>3. timers' \in ReadTimersOf
        BY <3>2, <4>1, <4>2, TimersType
      <4> QED
        BY <2>2, <3>2, <4>1, <4>3 DEF Dequeue, ReadTypes
    <3>4. OwnerTypes'
      BY <2>2, <3>1 DEF Dequeue, OwnerTypes
    <3>5. EventTypes' /\ ThreadTypes'
      BY <2>2, StringSets DEF Dequeue, EventTypes, ThreadTypes
    <3> QED
      BY <2>2, <3>3, <3>4, <3>5 DEF Dequeue
  <2>3. ASSUME NEW n \in 1 .. MaxLength, RecvData(n)
        PROVE  TypeOK'
    <3>1. current \in Requests /\ n \in Nat
      BY <2>3 DEF RecvData, MustRecv, OwnerTypes
    <3>2. length[current] \in 0 .. MaxLength /\ info[current] \in 0 .. MaxLength
      BY <3>1 DEF RequestTypes
    <3>3. n <= needed /\ needed = length[current] - info[current]
      BY <2>3, <3>1, <3>2 DEF RecvData, Room, MustRecv, NeededMatchesInformation
    <3>4. n <= sent - taken
      BY <2>3 DEF RecvData, Unread
    <3>5. info[current] + n \in 0 .. MaxLength
      BY <3>1, <3>2, <3>3
    <3>6. RequestTypes' /\ OwnerTypes'
      <4>1. info' \in [Requests -> 0 .. MaxLength] /\ info'[current] \in 0 .. MaxLength
        BY <2>3, <3>1, <3>5 DEF RecvData, RequestTypes
      <4>2. buffer' \in [Requests -> [Offsets -> Byte]]
        <5>1. Received(n) \in [Offsets -> Byte]
          <6>1. ASSUME NEW i \in Offsets, i \in info[current] .. info[current] + n - 1
                PROVE  taken + 1 + i - info[current] \in Byte
            BY <3>1, <3>2, <3>4, <6>1 DEF SocketTypes, Offsets, Byte
          <6>2. buffer[current] \in [Offsets -> Byte]
            BY <3>1 DEF RequestTypes
          <6> QED
            BY <6>1, <6>2 DEF Received, Written
        <5> QED
          BY <2>3, <3>1, <5>1 DEF RecvData, RequestTypes
      <4>3. CASE CompleteCurrent("SUCCESS", info'[current], "recv")
        <5>1. outcome' \in [Requests -> [status : Statuses,
                                         information : 0 .. MaxLength, by : Sites]]
          BY <3>1, <4>1, <4>3, CompleteType, StringSets DEF CompleteCurrent
        <5> QED
          BY <2>3, <4>1, <4>2, <4>3, <5>1
             DEF RecvData, RequestTypes, OwnerTypes, CompleteCurrent
      <4>4. CASE UNCHANGED <<outcome, current>>
        BY <2>3, <4>1, <4>2, <4>4 DEF RecvData, RequestTypes, OwnerTypes
      <4> QED
        BY <2>3, <4>3, <4>4 DEF RecvData
    <3>7. ReadTypes'
      BY <2>3, <3>1, <3>3 DEF RecvData, ReadTypes
    <3>8. ThreadTypes'
      BY <2>3, StringSets DEF RecvData, AfterProcessing, ThreadTypes
    <3>9. EventTypes'
      BY <2>3 DEF RecvData, RecvReenables, EventTypes, Events
    <3>10. SocketTypes'
      <4>1. sent' \in 0 .. MaxBytes /\ taken' \in 0 .. sent'
        BY <2>3, <3>1, <3>4 DEF RecvData, SocketTypes
      <4>2. fdRecorded' \in BOOLEAN /\ fdEnabled' \in BOOLEAN
        BY <2>3, RecvReenablesType DEF RecvData, SocketTypes
      <4> QED
        BY <2>3, <4>1, <4>2 DEF RecvData, SocketTypes
    <3> QED
      BY <3>6, <3>7, <3>8, <3>9, <3>10
  <2>4. CASE RecvZero \/ RecvError
    <3>1. RequestTypes' /\ OwnerTypes'
      BY <2>4, CompleteCurrentType, StringSets DEF RecvZero, RecvError, MustRecv
    <3>2. ThreadTypes'
      BY <2>4, StringSets DEF RecvZero, RecvError, AfterProcessing, ThreadTypes
    <3>3. SocketTypes'
      BY <2>4 DEF RecvZero, RecvError, SocketTypes
    <3> QED
      BY <2>4, <3>1, <3>2, <3>3 DEF RecvZero, RecvError
  <2>5. CASE RecvWouldBlock
    <3>1. ThreadTypes'
      BY <2>5, StringSets DEF RecvWouldBlock, AfterProcessing, ThreadTypes
    <3>2. ReadTypes'
      BY <2>5 DEF RecvWouldBlock, ReadTypes
    <3>3. EventTypes'
      BY <2>5 DEF RecvWouldBlock, RecvReenables, EventTypes
    <3>4. SocketTypes'
      <4>1. fdRecorded' \in BOOLEAN /\ fdEnabled' \in BOOLEAN
        BY <2>5, RecvReenablesType DEF RecvWouldBlock, SocketTypes
      <4> QED
        BY <2>5, <4>1 DEF RecvWouldBlock, SocketTypes
    <3> QED
      BY <2>5, <3>1, <3>2, <3>3, <3>4 DEF RecvWouldBlock
  <2>6. CASE MarkFails
    <3>1. current # None
      BY <2>6 DEF MarkFails, StillHeld, HoldsARead
    <3>2. RequestTypes' /\ OwnerTypes'
      BY <2>6, <3>1, CompleteCurrentType, StringSets DEF MarkFails
    <3>3. ThreadTypes'
      BY <2>6, StringSets DEF MarkFails, ThreadTypes
    <3> QED
      BY <2>6, <3>2, <3>3 DEF MarkFails
  <2>7. CASE Arm
    <3>1. DueTimes \in [Timers -> Nat \cup {Stopped}]
      BY DEF DueTimes, DueTime, ReadTypes, ReadTimersOf
    <3>2. EventTypes' /\ OwnerTypes' /\ ThreadTypes'
      BY <2>7, <3>1, StringSets DEF Arm, EventTypes, OwnerTypes, ThreadTypes
    <3> QED
      BY <2>7, <3>2 DEF Arm
  <2>8. CASE Wake
    <3>1. \A i \in DOMAIN EventArray : EventArray[i] \in Events
      BY DEF EventArray, Events
    <3>2. EventTypes' /\ ThreadTypes'
      BY <2>8, <3>1, StringSets DEF Wake, EventTypes, ThreadTypes
    <3> QED
      BY <2>8, <3>2 DEF Wake
  <2>9. CASE WaitTimesOut
    <3>1. ThreadTypes'
      BY <2>9, StringSets DEF WaitTimesOut, ThreadTypes
    <3> QED
      BY <2>9, <3>1 DEF WaitTimesOut
  <2>10. CASE HandleEvent
    <3>1. ThreadTypes'
      BY <2>10, StringSets
         DEF HandleEvent, HandleWaitTimeout, HandleSocketEvent,
             HandleThreadEvent, HandleReadQueueEvent, HandleCancelEvent,
             HandleIntervalTimerEvent, HandleTotalTimerEvent, Handle,
             KeepWaiting, KeepSocketEvent, ThreadTypes, SocketTypes
    <3>2. ReadTypes'
      BY <2>10
         DEF HandleEvent, HandleWaitTimeout, HandleSocketEvent,
             HandleThreadEvent, HandleReadQueueEvent, HandleCancelEvent,
             HandleIntervalTimerEvent, HandleTotalTimerEvent, Handle
    <3>3. EventTypes' /\ SocketTypes'
      BY <2>10
         DEF HandleEvent, HandleWaitTimeout, HandleSocketEvent,
             HandleThreadEvent, HandleReadQueueEvent, HandleCancelEvent,
             HandleIntervalTimerEvent, HandleTotalTimerEvent, Handle,
             KeepSocketEvent, EventTypes, SocketTypes
    <3>4. RequestTypes' /\ OwnerTypes'
      <4>1. ASSUME waitTimeouts' \in [Requests -> Nat], marked' = FALSE,
                   UNCHANGED <<length, info, buffer, readQueue, cancelled,
                               cancelling>>,
                   \/ KeepOutcome
                   \/ /\ current # None
                      /\ \E st \in Statuses, n \in 0 .. MaxLength, site \in Sites :
                            CompleteCurrent(st, n, site)
            PROVE  RequestTypes' /\ OwnerTypes'
        <5>1. outcome' \in [Requests -> [status : Statuses,
                                         information : 0 .. MaxLength, by : Sites]]
          BY <4>1, CompleteType
             DEF CompleteCurrent, KeepOutcome, RequestTypes, OwnerTypes
        <5> QED
          BY <4>1, <5>1 DEF CompleteCurrent, KeepOutcome, RequestTypes, OwnerTypes
      <4>2. waitTimeouts \in [Requests -> Nat]
        BY DEF RequestTypes
      <4>3. current # None => info[current] \in 0 .. MaxLength
        BY DEF RequestTypes, OwnerTypes
      <4>4. /\ waitTimeouts' \in [Requests -> Nat] /\ marked' = FALSE
            /\ UNCHANGED <<length, info, buffer, readQueue, cancelled,
                           cancelling>>
        BY <2>10, <4>2
           DEF HandleEvent, HandleWaitTimeout, HandleSocketEvent,
               HandleThreadEvent, HandleReadQueueEvent, HandleCancelEvent,
               HandleIntervalTimerEvent, HandleTotalTimerEvent, Handle,
               KeepWaiting
      <4>5. \/ KeepOutcome
            \/ /\ current # None
               /\ \/ CompleteCurrent("TIMEOUT", 0, "WAIT_TIMEOUT")
                  \/ CompleteCurrent("CANCELLED", 0, "CancelEvent")
                  \/ CompleteCurrent("CANCELLED", 0, "ThreadEvent")
                  \/ CompleteCurrent("CANCELLED", info[current],
                                     "IntervalTimerEvent")
                  \/ CompleteCurrent("CANCELLED", info[current],
                                     "TotalTimerEvent")
        BY <2>10
           DEF HandleEvent, HandleWaitTimeout, HandleSocketEvent,
               HandleThreadEvent, HandleReadQueueEvent, HandleCancelEvent,
               HandleIntervalTimerEvent, HandleTotalTimerEvent, Handle,
               HoldsARead
      <4>6. \/ KeepOutcome
            \/ /\ current # None
               /\ \E st \in Statuses, n \in 0 .. MaxLength, site \in Sites :
                     CompleteCurrent(st, n, site)
        BY <4>3, <4>5, StringSets DEF Events
      <4> QED
        BY <4>1, <4>4, <4>6
    <3> QED
      BY <3>1, <3>2, <3>3, <3>4
  <2> QED
    BY <1>6, <2>1, <2>2, <2>3, <2>4, <2>5, <2>6, <2>7, <2>8, <2>9, <2>10
       DEF ClientThread, ProcessRequest
<1>7. CASE CleanupNetwork
  <2>1. EventTypes' /\ ThreadTypes' /\ SocketTypes'
    BY <1>7 DEF CleanupNetwork, CleanupStopsTimers, CleanupTerminates,
                CleanupSignals, CleanupSetsEvent, CleanupCloses, CleanupGoesTo,
                EventTypes, ThreadTypes, SocketTypes, Events
  <2> QED
    BY <1>7, <2>1
       DEF CleanupNetwork, CleanupStopsTimers, CleanupTerminates,
           CleanupSignals, CleanupSetsEvent, CleanupCloses, CleanupGoesTo
<1>8. CASE UNCHANGED vars
  BY <1>8 DEF vars
<1> QED
  BY <1>1, <1>2, <1>3, <1>4, <1>5, <1>6, <1>7, <1>8 DEF Next

----------------------------------------------------------------------------
(* Where each read is, and how much of it is missing.                      *)

LEMMA PlacementFrame == Placement /\ UNCHANGED placeVars => Placement'
BY DEF Placement, placeVars, EachReadInOnePlace, FreshUntilDequeued,
       NeededMatchesInformation, Queued, IsPending, Issued

(* Completing the read the thread holds, and forgetting it.                *)
LEMMA CompletePlacement ==
    ASSUME TypeOK, Placement, current # None, NEW st \in Statuses \ {Pending},
           NEW n, NEW site, CompleteCurrent(st, n, site),
           UNCHANGED <<length, readQueue>>,
           \A r \in Requests \ {current} : info'[r] = info[r]
    PROVE  Placement'
<1>1. current \in Requests /\ current' = None
  BY DEF TypeOK, OwnerTypes, CompleteCurrent
<1>2. /\ outcome'[current].status = st
      /\ \A r \in Requests \ {current} : outcome'[r] = outcome[r]
  BY <1>1 DEF CompleteCurrent, Complete, Outcome, TypeOK, RequestTypes
<1>3. \A r \in Requests : Queued(r) => r # current
  BY DEF Placement, EachReadInOnePlace
<1>4. EachReadInOnePlace'
  BY <1>1, <1>2, <1>3
     DEF Placement, EachReadInOnePlace, Queued, IsPending, Issued
<1>5. FreshUntilDequeued'
  <2>1. Issued(current)
    BY DEF Placement, EachReadInOnePlace, IsPending
  <2>2. \A x \in Requests : (Queued(x)' <=> Queued(x)) /\ (Issued(x)' <=> Issued(x))
    BY DEF Queued, Issued
  <2>3. ASSUME NEW x \in Requests, (~Issued(x) \/ Queued(x))'
        PROVE  x # current /\ (~Issued(x) \/ Queued(x))
    BY <1>3, <2>1, <2>2, <2>3
  <2> QED
    BY <1>2, <2>3 DEF Placement, FreshUntilDequeued
<1>6. NeededMatchesInformation'
  BY <1>1 DEF NeededMatchesInformation
<1> QED
  BY <1>4, <1>5, <1>6 DEF Placement

LEMMA EvtIoReadPlacement ==
    ASSUME TypeOK, Placement, NEW r \in Requests, NEW n \in 1 .. MaxLength,
           EvtIoRead(r, n)
    PROVE  Placement'
<1>1. /\ readQueue' = Append(readQueue, r) /\ length' = [length EXCEPT ![r] = n]
      /\ UNCHANGED <<info, outcome, current, needed>>
      /\ ~Issued(r)
  BY DEF EvtIoRead, requestVars, readVars
<1>2. /\ readQueue \in Seq(Requests) /\ Len(readQueue) \in Nat
      /\ DOMAIN readQueue = 1 .. Len(readQueue)
      /\ DOMAIN readQueue' = 1 .. Len(readQueue) + 1
      /\ readQueue'[Len(readQueue) + 1] = r
      /\ \A i \in DOMAIN readQueue : readQueue'[i] = readQueue[i]
  BY <1>1, AppendProperties, LenProperties DEF TypeOK, OwnerTypes
<1>3. ~Queued(r) /\ r # current /\ info[r] = 0 /\ outcome[r].status = Pending
  BY <1>1 DEF Placement, EachReadInOnePlace, FreshUntilDequeued, IsPending
<1>4. /\ \A x \in Requests : Queued(x)' <=> Queued(x) \/ x = r
      /\ Issued(r)'
      /\ \A x \in Requests \ {r} : Issued(x)' <=> Issued(x)
  <2>1. ASSUME NEW x \in Requests PROVE Queued(x)' <=> Queued(x) \/ x = r
    BY <1>2 DEF Queued
  <2>2. /\ Issued(r)'
        /\ \A x \in Requests \ {r} : Issued(x)' <=> Issued(x)
    BY <1>1 DEF Issued, TypeOK, RequestTypes
  <2> QED
    BY <2>1, <2>2
<1>5. EachReadInOnePlace'
  <2>1. \A i, j \in DOMAIN readQueue' : readQueue'[i] = readQueue'[j] => i = j
    BY <1>2, <1>3 DEF Placement, EachReadInOnePlace, Queued
  <2>2. \A x \in Requests : IsPending(x)' <=> IsPending(x) \/ x = r
    BY <1>1, <1>3, <1>4 DEF IsPending
  <2> QED
    BY <1>1, <1>3, <1>4, <2>1, <2>2
       DEF Placement, EachReadInOnePlace, TypeOK, OwnerTypes
<1>6. FreshUntilDequeued'
  BY <1>1, <1>3, <1>4 DEF Placement, FreshUntilDequeued
<1>7. NeededMatchesInformation'
  <2>1. current # None => current \in Requests /\ length'[current] = length[current]
    BY <1>1, <1>3 DEF TypeOK, OwnerTypes, RequestTypes
  <2> QED
    BY <1>1, <2>1 DEF Placement, NeededMatchesInformation
<1> QED
  BY <1>5, <1>6, <1>7 DEF Placement

LEMMA EvtIoReadFailsPlacement ==
    ASSUME TypeOK, Placement, NEW r \in Requests, NEW n \in 1 .. MaxLength,
           EvtIoReadFails(r, n)
    PROVE  Placement'
<1>1. /\ length' = [length EXCEPT ![r] = n]
      /\ outcome' = [outcome EXCEPT ![r] = Outcome("INVALID", 0, "issue")]
      /\ UNCHANGED <<info, readQueue, current, needed>>
      /\ ~Issued(r)
  BY DEF EvtIoReadFails, Complete, requestVars, readVars
<1>2. ~Queued(r) /\ r # current
  BY <1>1 DEF Placement, EachReadInOnePlace, IsPending
<1>3. /\ outcome'[r].status # Pending
      /\ Issued(r)'
      /\ \A x \in Requests \ {r} : outcome'[x] = outcome[x] /\ length'[x] = length[x]
  BY <1>1 DEF Issued, Outcome, Pending, TypeOK, RequestTypes
<1>4. \A x \in Requests : Queued(x)' <=> Queued(x)
  BY <1>1 DEF Queued
<1>5. EachReadInOnePlace'
  <2>1. \A x \in Requests : IsPending(x)' <=> IsPending(x) /\ x # r
    BY <1>1, <1>3 DEF IsPending, Issued
  <2> QED
    BY <1>1, <1>2, <1>4, <2>1 DEF Placement, EachReadInOnePlace, TypeOK, OwnerTypes
<1>6. FreshUntilDequeued'
  BY <1>1, <1>2, <1>3, <1>4 DEF Placement, FreshUntilDequeued, Issued
<1>7. NeededMatchesInformation'
  <2>1. current # None => current \in Requests /\ length'[current] = length[current]
    BY <1>1, <1>2, <1>3 DEF TypeOK, OwnerTypes
  <2> QED
    BY <1>1, <2>1 DEF Placement, NeededMatchesInformation
<1> QED
  BY <1>5, <1>6, <1>7 DEF Placement

LEMMA CancelQueuedPlacement ==
    ASSUME TypeOK, Placement, NEW r \in Requests, CancelQueued(r)
    PROVE  Placement'
<1>1. PICK k \in DOMAIN readQueue :
         /\ readQueue[k] = r
         /\ readQueue' = RemoveAt(readQueue, k)
         /\ outcome' = [outcome EXCEPT ![r] = Outcome("CANCELLED", 0, "queue")]
         /\ UNCHANGED <<length, info, current, needed>>
  BY DEF CancelQueued, Complete, readVars
<1>2. /\ Len(readQueue) \in Nat /\ k \in 1 .. Len(readQueue)
      /\ DOMAIN readQueue = 1 .. Len(readQueue)
      /\ DOMAIN readQueue' = 1 .. Len(readQueue) - 1
      /\ \A j \in 1 .. Len(readQueue) - 1 :
            readQueue'[j] = IF j < k THEN readQueue[j] ELSE readQueue[j + 1]
  BY <1>1, RemoveAtProperties, LenProperties DEF TypeOK, OwnerTypes
<1>3. \A i, j \in DOMAIN readQueue : readQueue[i] = readQueue[j] => i = j
  BY DEF Placement, EachReadInOnePlace
<1>4. \A x \in Requests : Queued(x)' <=> Queued(x) /\ x # r
  <2>1. ASSUME NEW x \in Requests, Queued(x)' PROVE Queued(x) /\ x # r
    <3>1. PICK j \in 1 .. Len(readQueue) - 1 : readQueue'[j] = x
      BY <1>2, <2>1 DEF Queued
    <3> QED
      BY <1>1, <1>2, <1>3, <3>1 DEF Queued
  <2>2. ASSUME NEW x \in Requests, Queued(x), x # r PROVE Queued(x)'
    <3>1. PICK j \in 1 .. Len(readQueue) : readQueue[j] = x
      BY <1>2, <2>2 DEF Queued
    <3>2. CASE j < k
      BY <1>2, <3>1, <3>2 DEF Queued
    <3>3. CASE j > k
      <4>1. j - 1 \in 1 .. Len(readQueue) - 1 /\ readQueue'[j - 1] = x
        BY <1>2, <3>1, <3>3
      <4> QED
        BY <1>2, <4>1 DEF Queued
    <3> QED
      BY <1>1, <1>2, <2>2, <3>1, <3>2, <3>3
  <2> QED
    BY <2>1, <2>2
<1>5. /\ outcome'[r].status # Pending
      /\ \A x \in Requests \ {r} : outcome'[x] = outcome[x]
  BY <1>1 DEF Outcome, Pending, TypeOK, RequestTypes
<1>6. Queued(r) /\ Issued(r) /\ r # current
  BY <1>1 DEF Placement, EachReadInOnePlace, Queued, IsPending
<1>7. EachReadInOnePlace'
  <2> DEFINE before(j) == IF j < k THEN j ELSE j + 1
  <2>1. \A i, j \in DOMAIN readQueue' : readQueue'[i] = readQueue'[j] => i = j
    <3>1. \A j \in DOMAIN readQueue' :
             before(j) \in DOMAIN readQueue /\ readQueue'[j] = readQueue[before(j)]
      BY <1>2
    <3>2. \A i, j \in DOMAIN readQueue' : before(i) = before(j) => i = j
      BY <1>2
    <3> HIDE DEF before
    <3> QED
      BY <1>3, <3>1, <3>2
  <2>2. \A x \in Requests : IsPending(x)' <=> IsPending(x) /\ x # r
    BY <1>1, <1>5 DEF IsPending, Issued
  <2> QED
    BY <1>1, <1>4, <1>6, <2>1, <2>2
       DEF Placement, EachReadInOnePlace, TypeOK, OwnerTypes
<1>8. FreshUntilDequeued'
  BY <1>1, <1>4, <1>5, <1>6 DEF Placement, FreshUntilDequeued, Issued
<1>9. NeededMatchesInformation'
  BY <1>1 DEF Placement, NeededMatchesInformation
<1> QED
  BY <1>7, <1>8, <1>9 DEF Placement

LEMMA DequeuePlacement ==
    ASSUME TypeOK, Placement, Dequeue
    PROVE  Placement'
<1> DEFINE r == Head(readQueue)
<1>1. /\ current = None /\ readQueue # << >>
      /\ current' = r /\ needed' = length[r] /\ readQueue' = Tail(readQueue)
      /\ UNCHANGED <<length, info, outcome>>
  BY DEF Dequeue, requestVars
<1>2. /\ Len(readQueue) \in Nat \ {0}
      /\ DOMAIN readQueue = 1 .. Len(readQueue)
      /\ DOMAIN readQueue' = 1 .. Len(readQueue) - 1
      /\ \A j \in 1 .. Len(readQueue) - 1 : readQueue'[j] = readQueue[j + 1]
      /\ r = readQueue[1] /\ r \in Requests
  BY <1>1, HeadTailProperties, LenProperties, EmptySeq DEF TypeOK, OwnerTypes
<1> HIDE DEF r
<1>3. \A i, j \in DOMAIN readQueue : readQueue[i] = readQueue[j] => i = j
  BY DEF Placement, EachReadInOnePlace
<1>4. Queued(r) /\ IsPending(r) /\ info[r] = 0 /\ length[r] > 0
  BY <1>2 DEF Queued, Placement, EachReadInOnePlace, FreshUntilDequeued,
              IsPending, Issued
<1>5. \A x \in Requests : Queued(x)' <=> Queued(x) /\ x # r
  <2>1. ASSUME NEW x \in Requests, Queued(x)' PROVE Queued(x) /\ x # r
    <3>1. PICK j \in 1 .. Len(readQueue) - 1 : readQueue'[j] = x
      BY <1>2, <2>1 DEF Queued
    <3>2. j + 1 \in DOMAIN readQueue /\ readQueue[j + 1] = x /\ 1 \in DOMAIN readQueue
      BY <1>2, <3>1
    <3> QED
      BY <1>2, <1>3, <3>1, <3>2 DEF Queued
  <2>2. ASSUME NEW x \in Requests, Queued(x), x # r PROVE Queued(x)'
    <3>1. PICK j \in 1 .. Len(readQueue) : readQueue[j] = x
      BY <1>2, <2>2 DEF Queued
    <3>2. j - 1 \in 1 .. Len(readQueue) - 1 /\ readQueue'[j - 1] = x
      BY <1>2, <2>2, <3>1
    <3> QED
      BY <1>2, <3>2 DEF Queued
  <2> QED
    BY <2>1, <2>2
<1>6. \A x \in Requests : (IsPending(x)' <=> IsPending(x)) /\ (Issued(x)' <=> Issued(x))
  BY <1>1 DEF IsPending, Issued
<1>7. EachReadInOnePlace'
  <2>1. \A i, j \in DOMAIN readQueue' : readQueue'[i] = readQueue'[j] => i = j
    <3>1. \A j \in DOMAIN readQueue' :
             j + 1 \in DOMAIN readQueue /\ readQueue'[j] = readQueue[j + 1]
      BY <1>2
    <3> QED
      BY <1>2, <1>3, <3>1
  <2> QED
    BY <1>1, <1>2, <1>4, <1>5, <1>6, <2>1 DEF Placement, EachReadInOnePlace
<1>8. FreshUntilDequeued'
  BY <1>1, <1>5, <1>6 DEF Placement, FreshUntilDequeued
<1>9. NeededMatchesInformation'
  BY <1>1, <1>2, <1>4 DEF NeededMatchesInformation, TypeOK, RequestTypes
<1> QED
  BY <1>7, <1>8, <1>9 DEF Placement

LEMMA RecvDataPlacement ==
    ASSUME TypeOK, Placement, NEW n \in 1 .. MaxLength, RecvData(n)
    PROVE  Placement'
<1>1. current \in Requests /\ current # None
  BY DEF RecvData, MustRecv, TypeOK, OwnerTypes
<1>2. /\ length' = length /\ readQueue' = readQueue
      /\ info' = [info EXCEPT ![current] = info[current] + n]
      /\ needed' = needed - n
      /\ n <= Room(current)
  BY DEF RecvData
<1>3. \A r \in Requests \ {current} : info'[r] = info[r]
  BY <1>1, <1>2 DEF TypeOK, RequestTypes
<1>4. CASE ReadIsDone(needed - n)
  BY <1>1, <1>2, <1>3, <1>4, CompletePlacement
     DEF RecvData, Statuses, Pending
<1>5. CASE ~ReadIsDone(needed - n)
  <2>1. UNCHANGED <<outcome, current>> /\ needed - n # 0
    BY <1>5 DEF RecvData, ReadIsDone
  <2>2. EachReadInOnePlace'
    BY <1>2, <2>1 DEF Placement, EachReadInOnePlace, Queued, IsPending, Issued
  <2>3. FreshUntilDequeued'
    <3>1. Issued(current) /\ ~Queued(current)
      BY <1>1 DEF Placement, EachReadInOnePlace, IsPending
    <3>2. \A x \in Requests : (Queued(x)' <=> Queued(x)) /\ (Issued(x)' <=> Issued(x))
      BY <1>2 DEF Queued, Issued
    <3> QED
      BY <1>3, <2>1, <3>1, <3>2 DEF Placement, FreshUntilDequeued
  <2>4. NeededMatchesInformation'
    <3>1. info'[current] = info[current] + n
      BY <1>1, <1>2 DEF TypeOK, RequestTypes
    <3>2. info[current] \in Nat /\ length[current] \in Nat /\ needed \in Nat
      BY <1>1 DEF TypeOK, RequestTypes, ReadTypes
    <3>3. needed = length[current] - info[current] /\ n <= needed
      BY <1>1, <1>2 DEF Placement, NeededMatchesInformation, Room
    <3> QED
      BY <1>2, <2>1, <3>1, <3>2, <3>3 DEF NeededMatchesInformation
  <2> QED
    BY <2>2, <2>3, <2>4 DEF Placement
<1> QED
  BY <1>4, <1>5

(* Every other step completes the read the thread holds, or leaves all     *)
(* reads where they are.                                                   *)
LEMMA PlacementStep == IInv /\ [Next]_vars => Placement'
<1> SUFFICES ASSUME IInv, [Next]_vars PROVE Placement'
    OBVIOUS
<1> USE DEF IInv
<1>1. CASE Application
  <2>1. CASE \E r \in Requests, n \in 1 .. MaxLength : EvtIoRead(r, n)
    BY <2>1, EvtIoReadPlacement
  <2>2. CASE \E r \in Requests, n \in 1 .. MaxLength : EvtIoReadFails(r, n)
    BY <2>2, EvtIoReadFailsPlacement
  <2>3. CASE \E r \in Requests : CancelQueued(r)
    BY <2>3, CancelQueuedPlacement
  <2>4. CASE \E r \in Requests : CancelHeld(r)
    BY <2>4, PlacementFrame DEF CancelHeld, requestVars, readVars, placeVars
  <2>5. CASE \E t \in TimeoutChoices : SetTimeoutsBegin(t)
    BY <2>5, PlacementFrame
       DEF SetTimeoutsBegin, requestVars, readVars, placeVars
  <2> QED
    BY <1>1, <2>1, <2>2, <2>3, <2>4, <2>5 DEF Application
<1>2. CASE SetTimeoutsEnd \/ Peer \/ RunCallbacks \/ Tick \/ CleanupNetwork
  <2>1. UNCHANGED placeVars
    BY <1>2
       DEF SetTimeoutsEnd, Peer, PeerSend, PeerClose, PeerReset, PeerEnds,
           RunCallbacks, EvtReadQueueReady, EvtIntervalTimer, EvtTotalTimer,
           Callback, EvtReadRequestCancel, CancelCallback, Tick, CleanupNetwork,
           CleanupStopsTimers, CleanupTerminates, CleanupSignals,
           CleanupSetsEvent, CleanupCloses, CleanupGoesTo, requestVars,
           readVars, placeVars
  <2> QED
    BY <2>1, PlacementFrame
<1>3. CASE ClientThread
  <2>1. CASE LoopExit \/ NothingToDequeue \/ RecvWouldBlock \/ Arm \/ Wake
             \/ WaitTimesOut
    <3>1. UNCHANGED placeVars
      BY <2>1 DEF LoopExit, NothingToDequeue, RecvWouldBlock, Arm, Wake,
                  WaitTimesOut, requestVars, readVars, placeVars
    <3> QED
      BY <3>1, PlacementFrame
  <2>2. CASE Dequeue
    BY <2>2, DequeuePlacement
  <2>3. CASE \E n \in 1 .. MaxLength : RecvData(n)
    BY <2>3, RecvDataPlacement
  <2>4. CASE RecvZero \/ RecvError
    <3>1. /\ current # None /\ CompleteCurrent("UNSUCCESSFUL", 0, "recv")
          /\ UNCHANGED <<length, info, readQueue>>
      BY <2>4 DEF RecvZero, RecvError, MustRecv
    <3> QED
      BY <3>1, CompletePlacement DEF Statuses, Pending
  <2>5. CASE MarkFails
    <3>1. /\ current # None /\ CompleteCurrent("CANCELLED", 0, "mark")
          /\ UNCHANGED <<length, info, readQueue>>
      BY <2>5 DEF MarkFails, StillHeld, HoldsARead
    <3> QED
      BY <3>1, CompletePlacement DEF Statuses, Pending
  <2>6. CASE HandleEvent
    <3>1. UNCHANGED <<length, info, readQueue, needed>>
      BY <2>6
         DEF HandleEvent, HandleWaitTimeout, HandleSocketEvent,
             HandleThreadEvent, HandleReadQueueEvent, HandleCancelEvent,
             HandleIntervalTimerEvent, HandleTotalTimerEvent, Handle
    <3>2. \/ KeepOutcome
          \/ /\ current # None
             /\ \E st \in Statuses \ {Pending} : \E n, site :
                   CompleteCurrent(st, n, site)
      <4>1. "TIMEOUT" \in Statuses \ {Pending}
            /\ "CANCELLED" \in Statuses \ {Pending}
        BY DEF Statuses, Pending
      <4>2. HandleWaitTimeout =>
               KeepOutcome \/ (/\ current # None
                               /\ CompleteCurrent("TIMEOUT", 0, "WAIT_TIMEOUT"))
        BY DEF HandleWaitTimeout, Handle, HoldsARead
      <4>3. HandleCancelEvent =>
               KeepOutcome \/ (/\ current # None
                               /\ CompleteCurrent("CANCELLED", 0, "CancelEvent"))
        BY DEF HandleCancelEvent
      <4>4. HandleThreadEvent =>
               KeepOutcome \/ (/\ current # None
                               /\ CompleteCurrent("CANCELLED", 0, "ThreadEvent"))
        BY DEF HandleThreadEvent
      <4>5. HandleIntervalTimerEvent =>
               KeepOutcome \/ (/\ current # None
                               /\ CompleteCurrent("CANCELLED", info[current],
                                                  "IntervalTimerEvent"))
        BY DEF HandleIntervalTimerEvent
      <4>6. HandleTotalTimerEvent =>
               KeepOutcome \/ (/\ current # None
                               /\ CompleteCurrent("CANCELLED", info[current],
                                                  "TotalTimerEvent"))
        BY DEF HandleTotalTimerEvent
      <4>7. HandleSocketEvent \/ HandleReadQueueEvent => KeepOutcome
        BY DEF HandleSocketEvent, HandleReadQueueEvent
      <4> QED
        BY <2>6, <4>1, <4>2, <4>3, <4>4, <4>5, <4>6, <4>7 DEF HandleEvent
    <3>3. CASE KeepOutcome
      BY <3>1, <3>3, PlacementFrame DEF KeepOutcome, placeVars
    <3>4. CASE ~KeepOutcome
      BY <3>1, <3>2, <3>4, CompletePlacement
    <3> QED
      BY <3>3, <3>4
  <2> QED
    BY <1>3, <2>1, <2>2, <2>3, <2>4, <2>5, <2>6 DEF ClientThread, ProcessRequest
<1>4. CASE UNCHANGED vars
  BY <1>4, PlacementFrame DEF vars, requestVars, readVars, placeVars
<1> QED
  BY <1>1, <1>2, <1>3, <1>4 DEF Next

LEMMA HoldsStep == IInv /\ [Next]_vars => HoldsARead'
<1> SUFFICES ASSUME IInv, [Next]_vars PROVE HoldsARead'
    OBVIOUS
<1> USE DEF IInv, HoldsARead
<1>1. CASE UNCHANGED <<pc, current>>
  BY <1>1
<1>2. CASE ClientThread
  <2>1. CASE LoopExit \/ MarkFails \/ Arm \/ Wake \/ HandleEvent
    <3>1. pc' \notin {"process", "arm", "WAIT_TIMEOUT"}
      BY <2>1 DEF LoopExit, MarkFails, Arm, Wake, EventArray, HandleEvent,
             HandleWaitTimeout, HandleSocketEvent, HandleThreadEvent,
             HandleReadQueueEvent, HandleCancelEvent, HandleIntervalTimerEvent,
             HandleTotalTimerEvent, Handle
    <3> QED
      BY <3>1
  <2>2. CASE Dequeue
    <3>1. current' = Head(readQueue) /\ Head(readQueue) \in Requests
      BY <2>2, HeadTailProperties DEF Dequeue, TypeOK, OwnerTypes
    <3> QED
      BY <3>1
  <2>3. CASE NothingToDequeue
    BY <2>3 DEF NothingToDequeue, readVars
  <2>4. CASE ProcessRequest
    <3>1. AfterProcessing
      BY <2>4 DEF ProcessRequest, RecvData, RecvZero, RecvWouldBlock, RecvError
    <3> QED
      BY <3>1 DEF AfterProcessing
  <2>5. CASE WaitTimesOut
    BY <2>5 DEF WaitTimesOut, readVars
  <2> QED
    BY <1>2, <2>1, <2>2, <2>3, <2>4, <2>5 DEF ClientThread
<1>3. CASE ~ClientThread
  <2>1. UNCHANGED <<pc, current>>
    BY <1>3
       DEF Next, vars, Application, EvtIoRead, EvtIoReadFails, CancelQueued,
           CancelHeld, SetTimeoutsBegin, SetTimeoutsEnd, Peer, PeerSend,
           PeerClose, PeerReset, PeerEnds, RunCallbacks, EvtReadQueueReady,
           EvtIntervalTimer, EvtTotalTimer, Callback, EvtReadRequestCancel,
           CancelCallback, Tick, CleanupNetwork, CleanupStopsTimers,
           CleanupTerminates, CleanupSignals, CleanupSetsEvent, CleanupCloses,
           CleanupGoesTo, readVars, threadVars
  <2> QED
    BY <1>1, <2>1
<1> QED
  BY <1>2, <1>3

----------------------------------------------------------------------------
(* The theorems.                                                           *)

(* IInv holds in every reachable state.  It is EachReadInOnePlace and       *)
(* NeededMatchesInformation with what makes them inductive: the types,     *)
(* that the thread holds a read wherever it goes on to process, arm or     *)
(* time out one, and that a read is untouched until it is dequeued.        *)
THEOREM Inductive == Spec => []IInv
<1>1. IInv /\ [Next]_vars => IInv'
  BY TypeStep, HoldsStep, PlacementStep DEF IInv
<1> QED
  BY InitIInv, <1>1, PTL DEF Spec

(* Every variable keeps its type: in particular recv never writes past the *)
(* end of a read's buffer, whatever the peer sends and the timers do.      *)
THEOREM TypeCorrect == Spec => []TypeOK
<1>1. IInv => TypeOK
  BY DEF IInv
<1> QED
  BY Inductive, <1>1, PTL

(* The queue, ClientThread, the framework's cancellation and the           *)
(* termination of the thread never lose a read and never own it twice.     *)
THEOREM ReadsInOnePlace == Spec => []EachReadInOnePlace
<1>1. IInv => EachReadInOnePlace
  BY DEF IInv, Placement
<1> QED
  BY Inductive, <1>1, PTL

(* NumberNeededForRead is the length of the held read minus its            *)
(* Information, and never 0.                                               *)
THEOREM NeededIsExact == Spec => []NeededMatchesInformation
<1>1. IInv => NeededMatchesInformation
  BY DEF IInv, Placement
<1> QED
  BY Inductive, <1>1, PTL

----------------------------------------------------------------------------

(* A step of the thread may complete the read it holds, and no other.      *)
LEMMA CompletesOnlyCurrent ==
    ASSUME RequestTypes, NEW r \in Requests, r # current,
           NEW st, NEW n, NEW site, CompleteCurrent(st, n, site)
    PROVE  outcome'[r] = outcome[r]
BY DEF RequestTypes, CompleteCurrent, Complete

(* A completed read is in nobody's hands, and every step that completes a  *)
(* read or writes into its buffer takes it from somebody's.                *)
LEMMA CompletedIsLeftAlone ==
    ASSUME IInv, NEW r \in Requests, outcome[r].status # Pending, Next
    PROVE  outcome'[r] = outcome[r] /\ buffer'[r] = buffer[r] /\ info'[r] = info[r]
<1> USE DEF requestVars, cancelVars, readVars, timeoutVars, threadVars, eventVars,
            streamVars, netVars
<1>1. r # current /\ ~Queued(r) /\ Issued(r) /\ RequestTypes
  BY DEF IInv, Placement, EachReadInOnePlace, FreshUntilDequeued, IsPending, TypeOK
<1>2. CASE Application
  <2>1. ASSUME NEW q \in Requests, NEW n \in 1 .. MaxLength,
               EvtIoRead(q, n) \/ EvtIoReadFails(q, n)
        PROVE  outcome'[r] = outcome[r] /\ UNCHANGED <<buffer, info>>
    BY <2>1, <1>1 DEF EvtIoRead, EvtIoReadFails, Complete, RequestTypes
  <2>2. ASSUME NEW q \in Requests, CancelQueued(q) \/ CancelHeld(q)
        PROVE  outcome'[r] = outcome[r] /\ UNCHANGED <<buffer, info>>
    BY <2>2, <1>1 DEF CancelQueued, CancelHeld, Complete, RequestTypes, Queued
  <2>3. ASSUME NEW t \in TimeoutChoices, SetTimeoutsBegin(t)
        PROVE  UNCHANGED <<outcome, buffer, info>>
    BY <2>3 DEF SetTimeoutsBegin
  <2> QED
    BY <1>2, <2>1, <2>2, <2>3 DEF Application
<1>3. CASE SetTimeoutsEnd \/ Peer \/ RunCallbacks \/ Tick \/ CleanupNetwork
  BY <1>3 DEF SetTimeoutsEnd, Peer, PeerSend, PeerClose, PeerReset, PeerEnds,
     RunCallbacks, EvtReadQueueReady, EvtIntervalTimer, EvtTotalTimer, Callback,
     EvtReadRequestCancel, CancelCallback, Tick, CleanupNetwork,
     CleanupStopsTimers, CleanupTerminates, CleanupSignals, CleanupSetsEvent,
     CleanupCloses, CleanupGoesTo
<1>4. CASE ClientThread
  <2>1. CASE ProcessRequest
    <3>1. ASSUME NEW n \in 1 .. MaxLength, RecvData(n)
          PROVE  outcome'[r] = outcome[r] /\ buffer'[r] = buffer[r]
                 /\ info'[r] = info[r]
      BY <3>1, <1>1, CompletesOnlyCurrent DEF RecvData, RequestTypes
    <3>2. CASE RecvZero \/ RecvError
      BY <3>2, <1>1, CompletesOnlyCurrent DEF RecvZero, RecvError
    <3>3. CASE RecvWouldBlock
      BY <3>3 DEF RecvWouldBlock
    <3> QED
      BY <2>1, <3>1, <3>2, <3>3 DEF ProcessRequest
  <2>2. CASE HandleEvent
    BY <2>2, <1>1, CompletesOnlyCurrent
    DEF HandleEvent, HandleWaitTimeout, HandleSocketEvent, HandleThreadEvent,
        HandleReadQueueEvent, HandleCancelEvent, HandleIntervalTimerEvent,
        HandleTotalTimerEvent, Handle, KeepOutcome
  <2>3. CASE MarkFails
    BY <2>3, <1>1, CompletesOnlyCurrent DEF MarkFails
  <2>4. CASE LoopExit \/ Dequeue \/ NothingToDequeue \/ Arm \/ Wake \/ WaitTimesOut
    BY <2>4 DEF LoopExit, Dequeue, NothingToDequeue, Arm, Wake, WaitTimesOut
  <2> QED
    BY <1>4, <2>1, <2>2, <2>3, <2>4 DEF ClientThread
<1> QED
  BY <1>2, <1>3, <1>4 DEF Next

(* A read that was completed is not completed again, and its buffer, which *)
(* is the application's, is not written: by the receive of the next read,  *)
(* by a timer or cancel event that comes late, or by the end of the thread.*)
THEOREM ReadsCompleteOnce == Spec => CompletedOnce
<1>1. IInv /\ [Next]_vars =>
        [\A r \in Requests : outcome[r].status # Pending =>
            UNCHANGED <<outcome[r], buffer[r], info[r]>>]_vars
  BY CompletedIsLeftAlone
<1> QED
  BY <1>1, Inductive, PTL DEF Spec, CompletedOnce

============================================================================
