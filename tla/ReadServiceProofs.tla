------------------------- MODULE ReadServiceProofs -------------------------
(***************************************************************************)
(* That ReadPath implements ReadService, for every set of requests and     *)
(* every bound, and what follows along the same cases of a step: that the  *)
(* bytes are in order, and how they can be lost; that a cancelled or timed *)
(* read does not sleep without its wake-up; and how often a cancellation   *)
(* can end a read it was not meant for.                                    *)
(***************************************************************************)
EXTENDS ReadPathProofs, FiniteSetTheorems

USE ReadPathAssumption, MaxUlongAssumption

(* The other steps, as seen by the reads: they leave them alone ...        *)
LeavesReads == UNCHANGED <<length, info, buffer, taken, outcome, readQueue, current>>

(* ... or end the read that the thread holds.                              *)
GivesUp(s, n, site) ==
    /\ n = 0
    /\ site \in {"WAIT_TIMEOUT", "recv", "mark", "CancelEvent", "ThreadEvent"}
    /\ s # "SUCCESS"

Ends(s, n, site) ==
    /\ current # None
    /\ CompleteCurrent(s, n, site)
    /\ n = info[current] \/ GivesUp(s, n, site)
    /\ UNCHANGED <<length, info, buffer, taken, readQueue>>

EndsHeld == \E s \in Statuses \ {Pending}, n \in 0 .. MaxLength, site \in Sites :
                Ends(s, n, site)

LEMMA HandledEvents ==
    ASSUME IInv, HandleEvent
    PROVE  LeavesReads \/ EndsHeld
<1> USE DEF Handle, KeepOutcome
<1>1. ASSUME current # None
      PROVE  /\ info[current] \in 0 .. MaxLength /\ 0 \in 0 .. MaxLength
             /\ current \in Requests
  BY <1>1 DEF IInv, TypeOK, OwnerTypes, RequestTypes
<1>2. CASE HandleWaitTimeout
  <2>1. current # None
    BY <1>2 DEF HandleWaitTimeout, IInv, HoldsARead
  <2>2. LeavesReads \/ Ends("TIMEOUT", 0, "WAIT_TIMEOUT")
    BY <1>2, <2>1 DEF HandleWaitTimeout, LeavesReads, Ends, GivesUp, CompleteCurrent
  <2> QED
    BY <1>1, <2>1, <2>2, StringSets DEF EndsHeld, Pending
<1>3. CASE HandleSocketEvent \/ HandleReadQueueEvent
  BY <1>3 DEF HandleSocketEvent, HandleReadQueueEvent, LeavesReads
<1>4. CASE HandleCancelEvent
  <2>1. LeavesReads \/ Ends("CANCELLED", 0, "CancelEvent")
    BY <1>4 DEF HandleCancelEvent, LeavesReads, Ends, GivesUp, CompleteCurrent
  <2> QED
    BY <1>1, <2>1, StringSets DEF EndsHeld, Ends, Pending, Events
<1>5. CASE HandleIntervalTimerEvent
  <2>1. LeavesReads \/ Ends("CANCELLED", info[current], "IntervalTimerEvent")
    BY <1>5 DEF HandleIntervalTimerEvent, LeavesReads, Ends, CompleteCurrent
  <2> QED
    BY <1>1, <2>1, StringSets DEF EndsHeld, Ends, Pending, Events
<1>6. CASE HandleTotalTimerEvent
  <2>1. LeavesReads \/ Ends("CANCELLED", info[current], "TotalTimerEvent")
    BY <1>6 DEF HandleTotalTimerEvent, LeavesReads, Ends, CompleteCurrent
  <2> QED
    BY <1>1, <2>1, StringSets DEF EndsHeld, Ends, Pending, Events
<1>7. CASE HandleThreadEvent
  <2>1. LeavesReads \/ Ends("CANCELLED", 0, "ThreadEvent")
    BY <1>7 DEF HandleThreadEvent, LeavesReads, Ends, GivesUp, CompleteCurrent, netVars,
       streamVars
  <2> QED
    BY <1>1, <2>1, StringSets DEF EndsHeld, Ends, Pending, Events
<1> QED
  BY <1>2, <1>3, <1>4, <1>5, <1>6, <1>7 DEF HandleEvent

(* What a step can do to the reads.                                        *)
LEMMA StepKinds ==
    ASSUME IInv, [Next]_vars
    PROVE  \/ LeavesReads
           \/ EndsHeld
           \/ \E r \in Requests, n \in 1 .. MaxLength :
                  EvtIoRead(r, n) \/ EvtIoReadFails(r, n)
           \/ \E r \in Requests : CancelQueued(r)
           \/ Dequeue
           \/ \E n \in 1 .. MaxLength : RecvData(n)
<1> USE DEF requestVars, netVars, streamVars, readVars
<1>1. CASE Application
  <2>1. ASSUME NEW r \in Requests, CancelHeld(r)
        PROVE  LeavesReads
    BY <2>1 DEF CancelHeld, LeavesReads
  <2>2. ASSUME NEW t \in TimeoutChoices, SetTimeoutsBegin(t)
        PROVE  LeavesReads
    BY <2>2 DEF SetTimeoutsBegin, LeavesReads
  <2> QED
    BY <1>1, <2>1, <2>2 DEF Application
<1>2. CASE SetTimeoutsEnd \/ Peer \/ RunCallbacks \/ Tick \/ CleanupNetwork
  BY <1>2 DEF SetTimeoutsEnd, Peer, PeerSend, PeerClose, PeerReset, PeerEnds,
     RunCallbacks, EvtReadQueueReady, EvtIntervalTimer, EvtTotalTimer, Callback,
     EvtReadRequestCancel, CancelCallback, Tick, CleanupNetwork,
     CleanupStopsTimers, CleanupTerminates, CleanupSignals, CleanupSetsEvent,
     CleanupCloses, CleanupGoesTo, LeavesReads
<1>3. CASE ClientThread
  <2>1. CASE RecvZero \/ RecvError
    <3>1. current \in Requests /\ info[current] \in 0 .. MaxLength
      BY <2>1 DEF RecvZero, RecvError, MustRecv, IInv, TypeOK, OwnerTypes, RequestTypes
    <3>2. Ends("UNSUCCESSFUL", 0, "recv")
      BY <2>1, <3>1 DEF RecvZero, RecvError, MustRecv, Ends, GivesUp
    <3> QED
      BY <3>1, <3>2, StringSets DEF EndsHeld, Pending
  <2>2. CASE MarkFails
    <3>1. current # None
      BY <2>2 DEF MarkFails, StillHeld, IInv, HoldsARead
    <3>2. Ends("CANCELLED", 0, "mark")
      BY <2>2, <3>1 DEF MarkFails, Ends, GivesUp
    <3> QED
      BY <3>2, StringSets DEF EndsHeld, Pending
  <2>3. CASE LoopExit \/ NothingToDequeue \/ RecvWouldBlock \/ Arm \/ Wake \/ WaitTimesOut
    BY <2>3 DEF LoopExit, NothingToDequeue, RecvWouldBlock, Arm, Wake, WaitTimesOut,
       LeavesReads
  <2> QED
    BY <1>3, <2>1, <2>2, <2>3, HandledEvents DEF ClientThread, ProcessRequest
<1>4. CASE UNCHANGED vars
  BY <1>4 DEF vars, LeavesReads
<1> QED
  BY <1>1, <1>2, <1>3, <1>4 DEF Next

----------------------------------------------------------------------------
(* Sequences: a first element before the others.                           *)

LEMMA ConsProperties ==
    ASSUME NEW S, NEW c \in S, NEW q \in Seq(S)
    PROVE  /\ Cons(c, q) \in Seq(S)
           /\ Len(Cons(c, q)) = Len(q) + 1
           /\ (Cons(c, q))[1] = c
           /\ \A i \in 1 .. Len(q) : (Cons(c, q))[i + 1] = q[i]
           /\ Cons(c, q) # << >>
           /\ Head(Cons(c, q)) = c
           /\ Tail(Cons(c, q)) = q
           /\ RemoveAt(Cons(c, q), 1) = q
<1>1. <<c>> \in Seq(S) /\ Len(<<c>>) = 1 /\ <<c>>[1] = c
  <2>1. <<c>> \in Seq(S)
    OBVIOUS
  <2>2. Len(<<c>>) = 1
    OBVIOUS
  <2>3. <<c>>[1] = c
    OBVIOUS
  <2> QED
    BY <2>1, <2>2, <2>3, Zenon
<1>2. Len(q) \in Nat
  BY LenProperties
<1>3. /\ Cons(c, q) \in Seq(S) /\ Len(Cons(c, q)) = Len(q) + 1 /\ Cons(c, q)[1] = c
      /\ \A i \in 1 .. Len(q) : Cons(c, q)[i + 1] = q[i]
  BY <1>1, <1>2, ConcatProperties DEF Cons
<1>4. Cons(c, q) # << >> /\ Head(Cons(c, q)) = c
  BY <1>2, <1>3, EmptySeq
<1>5. Tail(Cons(c, q)) = q
  <2>1. /\ Tail(Cons(c, q)) \in Seq(S) /\ Len(Tail(Cons(c, q))) = Len(q)
        /\ \A i \in 1 .. Len(q) : Tail(Cons(c, q))[i] = q[i]
    BY <1>2, <1>3, <1>4, HeadTailProperties
  <2> QED
    BY <2>1, SeqEqual
<1>6. RemoveAt(Cons(c, q), 1) = q
  <2> DEFINE t == RemoveAt(Cons(c, q), 1)
  <2>1. 1 \in 1 .. Len(Cons(c, q)) /\ Len(Cons(c, q)) - 1 = Len(q)
    BY <1>2, <1>3
  <2>2. /\ t \in Seq(S) /\ Len(t) = Len(Cons(c, q)) - 1
        /\ \A i \in 1 .. Len(Cons(c, q)) - 1 :
              t[i] = IF i < 1 THEN Cons(c, q)[i] ELSE Cons(c, q)[i + 1]
    BY <1>3, <2>1, RemoveAtProperties
  <2> HIDE DEF t
  <2>3. Len(t) = Len(q) /\ \A i \in 1 .. Len(q) : t[i] = q[i]
    BY <1>2, <1>3, <2>1, <2>2
  <2> QED
    BY <2>2, <2>3, SeqEqual DEF t
<1> QED
  BY <1>3, <1>4, <1>5, <1>6

LEMMA ConsElement ==
    ASSUME NEW S, NEW c \in S, NEW q \in Seq(S), NEW i \in 1 .. Len(q)
    PROVE  Cons(c, q)[i + 1] = q[i]
<1>1. \A j \in 1 .. Len(q) : (Cons(c, q))[j + 1] = q[j]
  BY ConsProperties
<1> QED
  BY <1>1

(* A sequence is known by its first element and the ones that follow.      *)
LEMMA ConsIs ==
    ASSUME NEW S, NEW c \in S, NEW l \in Seq(S), NEW s \in Seq(S),
           Len(s) = Len(l) + 1, s[1] = c, \A i \in 1 .. Len(l) : s[i + 1] = l[i]
    PROVE  Cons(c, l) = s
<1> DEFINE t == Cons(c, l)
<1>1. /\ t \in Seq(S) /\ Len(t) = Len(s) /\ t[1] = c
      /\ \A i \in 1 .. Len(l) : t[i + 1] = l[i]
  BY ConsProperties
<1>2. Len(l) \in Nat
  BY LenProperties
<1> HIDE DEF t
<1>3. ASSUME NEW i \in 1 .. Len(s)
      PROVE  t[i] = s[i]
  <2>1. CASE i = 1
    BY <1>1, <2>1
  <2>2. CASE i # 1
    <3>1. i - 1 \in 1 .. Len(l) /\ (i - 1) + 1 = i
      BY <1>2, <2>2
    <3> QED
      BY <1>1, <3>1
  <2> QED
    BY <2>1, <2>2
<1> QED
  BY <1>1, <1>3, SeqEqual DEF t

LEMMA ConsHeadTail ==
    ASSUME NEW S, NEW q \in Seq(S), q # << >>
    PROVE  Cons(Head(q), Tail(q)) = q
<1>1. /\ Head(q) \in S /\ Tail(q) \in Seq(S) /\ Len(Tail(q)) = Len(q) - 1
      /\ \A i \in 1 .. Len(q) - 1 : Tail(q)[i] = q[i + 1]
      /\ Len(q) \in Nat \ {0} /\ Head(q) = q[1]
  BY HeadTailProperties, EmptySeq, LenProperties
<1>2. Len(q) = Len(Tail(q)) + 1 /\ \A i \in 1 .. Len(Tail(q)) : q[i + 1] = Tail(q)[i]
  BY <1>1
<1> QED
  BY <1>1, <1>2, ConsIs

LEMMA ConsRemoveAt ==
    ASSUME NEW S, NEW c \in S, NEW q \in Seq(S), NEW i \in 1 .. Len(q)
    PROVE  RemoveAt(Cons(c, q), i + 1) = Cons(c, RemoveAt(q, i))
<1> DEFINE s == Cons(c, q)
           t == RemoveAt(q, i)
           u == RemoveAt(s, i + 1)
<1>1. Len(q) \in Nat
  BY LenProperties
<1>2. /\ s \in Seq(S) /\ Len(s) = Len(q) + 1 /\ s[1] = c
      /\ \A j \in 1 .. Len(q) : s[j + 1] = q[j]
  BY ConsProperties
<1>3. /\ t \in Seq(S) /\ Len(t) = Len(q) - 1
      /\ \A j \in 1 .. Len(q) - 1 : t[j] = IF j < i THEN q[j] ELSE q[j + 1]
  BY RemoveAtProperties
<1> HIDE DEF s, t
<1>4. /\ u \in Seq(S) /\ Len(u) = Len(q)
      /\ \A j \in 1 .. Len(q) : u[j] = IF j < i + 1 THEN s[j] ELSE s[j + 1]
  <2>1. i + 1 \in 1 .. Len(s) /\ Len(s) - 1 = Len(q)
    BY <1>1, <1>2
  <2>2. /\ u \in Seq(S) /\ Len(u) = Len(s) - 1
        /\ \A j \in 1 .. Len(s) - 1 : u[j] = IF j < i + 1 THEN s[j] ELSE s[j + 1]
    BY <1>2, <2>1, RemoveAtProperties
  <2> QED
    BY <2>1, <2>2
<1> HIDE DEF u
<1>5. Len(t) + 1 = Len(q) /\ u[1] = c
  <2>1. Len(t) + 1 = Len(q) /\ 1 \in 1 .. Len(q) /\ 1 < i + 1
    BY <1>1, <1>3
  <2>2. u[1] = s[1]
    BY <1>4, <2>1
  <2> QED
    BY <1>2, <2>1, <2>2
<1>6. ASSUME NEW j \in 1 .. Len(t)
      PROVE  u[j + 1] = t[j]
  <2>1. j \in 1 .. Len(q) - 1 /\ j + 1 \in 1 .. Len(q)
    BY <1>1, <1>3
  <2>2. u[j + 1] = IF j + 1 < i + 1 THEN s[j + 1] ELSE s[(j + 1) + 1]
    BY <1>4, <2>1
  <2>3. s[j + 1] = q[j] /\ s[(j + 1) + 1] = q[j + 1]
    BY <1>1, <1>2, <2>1
  <2>4. t[j] = IF j < i THEN q[j] ELSE q[j + 1]
    BY <1>3, <2>1
  <2>5. (j + 1 < i + 1) <=> j < i
    BY <2>1
  <2> QED
    BY <2>2, <2>3, <2>4, <2>5
<1>7. Cons(c, t) = u
  BY <1>3, <1>4, <1>5, <1>6, ConsIs
<1> QED
  BY <1>7 DEF s, t, u

LEMMA ConsAppend ==
    ASSUME NEW S, NEW c \in S, NEW q \in Seq(S), NEW e \in S
    PROVE  Cons(c, Append(q, e)) = Append(Cons(c, q), e)
<1>1. <<c>> \in Seq(S) /\ <<e>> \in Seq(S) /\ <<c>> \o q \in Seq(S)
  BY ConsProperties DEF Cons
<1> QED
  BY <1>1, AppendIsConcat, ConcatAssociative DEF Cons

----------------------------------------------------------------------------
(* The refinement, one kind of step after the other.                       *)

LEMMA WaitingIs ==
    ASSUME TypeOK
    PROVE  /\ Waiting \in Seq(Requests)
           /\ current = None => Waiting = readQueue
           /\ current # None => /\ Waiting = Cons(current, readQueue)
                                /\ Waiting # << >>
                                /\ Head(Waiting) = current /\ Waiting[1] = current
                                /\ 1 \in DOMAIN Waiting
                                /\ Tail(Waiting) = readQueue
                                /\ RemoveAt(Waiting, 1) = readQueue
<1>1. readQueue \in Seq(Requests) /\ (current # None => current \in Requests)
  BY DEF TypeOK, OwnerTypes
<1>2. CASE current = None
  BY <1>1, <1>2 DEF Waiting
<1>3. CASE current # None
  <2>1. Waiting = Cons(current, readQueue)
    BY <1>3 DEF Waiting, Cons
  <2>2. /\ Waiting \in Seq(Requests) /\ Waiting # << >> /\ Head(Waiting) = current
        /\ Waiting[1] = current
        /\ Tail(Waiting) = readQueue /\ RemoveAt(Waiting, 1) = readQueue
    <3>1. Waiting \in Seq(Requests) /\ Waiting # << >>
      BY <1>1, <1>3, <2>1, ConsProperties
    <3>2. Head(Waiting) = current
      BY <1>1, <1>3, <2>1, ConsProperties
    <3>3. Waiting[1] = current
      BY <1>1, <1>3, <2>1, ConsProperties
    <3>4. Tail(Waiting) = readQueue
      <4>1. Tail(Cons(current, readQueue)) = readQueue
        BY <1>1, <1>3, ConsProperties
      <4> QED
        BY <2>1, <4>1
    <3>5. RemoveAt(Waiting, 1) = readQueue
      BY <1>1, <1>3, <2>1, ConsProperties
    <3> QED
      BY <3>1, <3>2, <3>3, <3>4, <3>5
  <2>3. 1 \in DOMAIN Waiting
    BY <2>2, EmptySeq, LenProperties
  <2> QED
    BY <1>3, <2>1, <2>2, <2>3
<1> QED
  BY <1>2, <1>3

(* A completed read is reported with its information; the others stay.     *)
LEMMA ReportedIs ==
    ASSUME RequestTypes, NEW r \in Requests, NEW s, s # Pending, NEW n, NEW site,
           Complete(r, s, n, site)
    PROVE  Reported' = [Reported EXCEPT ![r] = n]
BY DEF RequestTypes, Complete, Outcome, Reported

LEMMA ServiceInit == Init => Service!Init
<1> SUFFICES ASSUME Init PROVE Service!Init
    OBVIOUS
<1>1. Waiting = << >> /\ length = [r \in Requests |-> 0] /\ taken = 0
  BY DEF Init, Waiting
<1>2. ReceivedBytes = [r \in Requests |-> << >>]
  <2>1. ASSUME NEW r \in Requests
        PROVE  [i \in 1 .. info[r] |-> buffer[r][i - 1]] = << >>
    BY DEF Init
  <2> QED
    BY <2>1, Zenon DEF ReceivedBytes
<1>3. Reported = [r \in Requests |-> -1]
  BY DEF Init, Reported, Outcome
<1> QED
  BY <1>1, <1>2, <1>3 DEF Service!Init, Service!NotYet

LEMMA DequeueStutters ==
    ASSUME IInv, Dequeue
    PROVE  UNCHANGED Service!serviceVars
<1>1. readQueue \in Seq(Requests) /\ readQueue # << >>
  BY DEF IInv, TypeOK, OwnerTypes, Dequeue
<1>2. current = None /\ current' = Head(readQueue) /\ readQueue' = Tail(readQueue)
  BY DEF Dequeue
<1>3. Head(readQueue) # None
  BY <1>1, HeadTailProperties
<1>4. Waiting' = Cons(Head(readQueue), Tail(readQueue)) /\ Waiting = readQueue
  BY <1>2, <1>3 DEF Waiting, Cons
<1>5. Waiting' = Waiting
  BY <1>1, <1>4, ConsHeadTail
<1> QED
  BY <1>5 DEF Dequeue, requestVars, netVars, streamVars, Service!serviceVars,
     ReceivedBytes, Reported

LEMMA IssueStep ==
    ASSUME IInv, NEW r \in Requests, NEW n \in 1 .. MaxLength, EvtIoRead(r, n)
    PROVE  Service!Issue(r, n)
<1>1. length[r] = 0
  BY DEF EvtIoRead, Issued, IInv, TypeOK, RequestTypes
<1>2. Waiting' = Append(Waiting, r)
  BY ConsAppend DEF EvtIoRead, readVars, Waiting, Cons, IInv, TypeOK, OwnerTypes
<1> QED
  BY <1>1, <1>2 DEF EvtIoRead, netVars, streamVars, ReceivedBytes, Reported,
     Service!Issue

LEMMA RefuseStep ==
    ASSUME IInv, NEW r \in Requests, NEW n \in 1 .. MaxLength, EvtIoReadFails(r, n)
    PROVE  Service!Refuse(r, n)
<1>1. length[r] = 0
  BY DEF EvtIoReadFails, Issued, IInv, TypeOK, RequestTypes
<1>2. Reported' = [Reported EXCEPT ![r] = 0]
  BY ReportedIs DEF EvtIoReadFails, IInv, TypeOK, Pending
<1> QED
  BY <1>1, <1>2 DEF EvtIoReadFails, readVars, netVars, streamVars, Waiting,
     ReceivedBytes, Service!Refuse, Service!Report

LEMMA CancelQueuedStep ==
    ASSUME IInv, NEW r \in Requests, CancelQueued(r)
    PROVE  \E i \in DOMAIN Waiting : Service!End(i, 0)
<1>1. PICK k \in DOMAIN readQueue :
         /\ readQueue[k] = r
         /\ readQueue' = RemoveAt(readQueue, k)
         /\ Complete(r, "CANCELLED", 0, "queue")
         /\ UNCHANGED <<length, info, buffer, current, taken>>
  BY DEF CancelQueued, readVars, netVars, streamVars
<1>2. Reported' = [Reported EXCEPT ![r] = 0]
  BY <1>1, ReportedIs DEF IInv, TypeOK, Pending
<1>3. length' = length /\ ReceivedBytes' = ReceivedBytes /\ taken' = taken
  BY <1>1 DEF ReceivedBytes
<1>4. readQueue \in Seq(Requests) /\ k \in 1 .. Len(readQueue)
  BY <1>1, LenProperties DEF IInv, TypeOK, OwnerTypes
<1>5. PICK i \in DOMAIN Waiting : Waiting[i] = r /\ Waiting' = RemoveAt(Waiting, i)
  <2>1. CASE current = None
    BY <1>1, <2>1 DEF Waiting
  <2>2. CASE current # None
    <3>1. Waiting = Cons(current, readQueue) /\ current \in Requests
      BY <2>2 DEF Waiting, Cons, IInv, TypeOK, OwnerTypes
    <3>2. Waiting' = Cons(current, RemoveAt(readQueue, k))
      BY <1>1, <2>2 DEF Waiting, Cons
    <3>3. Waiting' = RemoveAt(Waiting, k + 1)
      BY <1>4, <3>1, <3>2, ConsRemoveAt
    <3>4. k + 1 \in DOMAIN Waiting /\ Waiting[k + 1] = r
      <4>1. /\ Waiting \in Seq(Requests) /\ Len(Waiting) = Len(readQueue) + 1
            /\ \A j \in 1 .. Len(readQueue) : Waiting[j + 1] = readQueue[j]
        <5>1. Waiting \in Seq(Requests)
          BY <1>4, <3>1, ConsProperties
        <5>2. Len(Waiting) = Len(readQueue) + 1
          BY <1>4, <3>1, ConsProperties
        <5>3. ASSUME NEW j \in 1 .. Len(readQueue)
              PROVE  Waiting[j + 1] = readQueue[j]
          <6>1. Cons(current, readQueue)[j + 1] = readQueue[j]
            BY <1>4, <3>1, ConsElement
          <6> QED
            BY <3>1, <6>1
        <5> QED
          BY <5>1, <5>2, <5>3
      <4> QED
        BY <1>1, <1>4, <4>1, LenProperties
    <3> QED
      BY <3>3, <3>4
  <2> QED
    BY <2>1, <2>2
<1>6. Service!End(i, 0)
  <2>1. Waiting' = RemoveAt(Waiting, i)
    BY <1>5
  <2>2. Reported' = [Reported EXCEPT ![Waiting[i]] = 0]
    BY <1>2, <1>5
  <2>3. 0 \in {0, Len(ReceivedBytes[Waiting[i]])}
    OBVIOUS
  <2> QED
    BY <1>3, <2>1, <2>2, <2>3
       DEF Service!End, Service!Report, RemoveAt, Service!RemoveAt
<1> QED
  BY <1>6

LEMMA EndStep ==
    ASSUME IInv, NEW s \in Statuses \ {Pending}, NEW n \in 0 .. MaxLength,
           NEW site \in Sites, Ends(s, n, site)
    PROVE  \E i \in DOMAIN Waiting : Service!End(i, n)
<1>1. /\ current # None /\ current \in Requests /\ current' = None
      /\ UNCHANGED <<length, info, buffer, taken, readQueue>>
  BY DEF Ends, CompleteCurrent, IInv, TypeOK, OwnerTypes
<1>2. Waiting' = RemoveAt(Waiting, 1) /\ Waiting[1] = current /\ 1 \in DOMAIN Waiting
  <2>1. Waiting' = readQueue
    BY <1>1 DEF Waiting
  <2> QED
    BY <1>1, <2>1, WaitingIs DEF IInv
<1>3. Reported' = [Reported EXCEPT ![current] = n]
  BY <1>1, ReportedIs DEF Ends, CompleteCurrent, IInv, TypeOK
<1>4. n \in {0, Len(ReceivedBytes[current])}
  <2>1. info[current] \in Nat
    BY <1>1 DEF IInv, TypeOK, RequestTypes
  <2>2. ReceivedBytes[current] = [i \in 1 .. info[current] |-> buffer[current][i - 1]]
    BY <1>1 DEF ReceivedBytes
  <2>3. Len(ReceivedBytes[current]) = info[current]
    BY <2>1, <2>2
  <2> QED
    BY <2>3 DEF Ends, GivesUp
<1>5. length' = length /\ ReceivedBytes' = ReceivedBytes /\ taken' = taken
  BY <1>1 DEF ReceivedBytes
<1>6. Service!End(1, n)
  BY <1>2, <1>3, <1>4, <1>5
     DEF Service!End, Service!Report, RemoveAt, Service!RemoveAt
<1> QED
  BY <1>2, <1>6

(* What a receive of n bytes does to the request, and when it ends it.     *)
LEMMA RecvDataEffect ==
    ASSUME IInv, NEW n \in 1 .. MaxLength, RecvData(n)
    PROVE  /\ current # None /\ current \in Requests /\ taken \in Nat
           /\ info[current] \in Nat /\ info[current] + n <= length[current]
           /\ info' = [info EXCEPT ![current] = info[current] + n]
           /\ buffer' = [buffer EXCEPT ![current] = Received(n)]
           /\ taken' = taken + n /\ length' = length /\ readQueue' = readQueue
           /\ \/ CompleteCurrent("SUCCESS", info[current] + n, "recv")
              \/ /\ UNCHANGED <<outcome, current>>
                 /\ info[current] + n < length[current]
<1>1. current # None /\ current \in Requests
  BY DEF RecvData, MustRecv, IInv, TypeOK, OwnerTypes
<1>2. /\ info[current] \in Nat /\ length[current] \in Nat /\ taken \in Nat
  BY <1>1 DEF IInv, TypeOK, RequestTypes, SocketTypes
<1>3. needed = length[current] - info[current] /\ n <= needed
  BY <1>1 DEF IInv, Placement, NeededMatchesInformation, RecvData, Room
<1>4. info' = [info EXCEPT ![current] = info[current] + n]
  BY DEF RecvData
<1>5. info'[current] = info[current] + n
  BY <1>1, <1>4 DEF IInv, TypeOK, RequestTypes
<1>6. \/ CompleteCurrent("SUCCESS", info[current] + n, "recv")
      \/ UNCHANGED <<outcome, current>> /\ info[current] + n < length[current]
  <2>1. CASE ReadIsDone(needed - n)
    BY <1>5, <2>1 DEF RecvData
  <2>2. CASE ~ReadIsDone(needed - n)
    <3>1. UNCHANGED <<outcome, current>> /\ needed - n # 0
      BY <2>2 DEF RecvData, ReadIsDone
    <3> QED
      BY <1>2, <1>3, <3>1
  <2> QED
    BY <2>1, <2>2
<1> QED
  BY <1>1, <1>2, <1>3, <1>4, <1>6 DEF RecvData

(* The n bytes are appended to those the request has received.             *)
LEMMA ReceivedIsAppended ==
    ASSUME IInv, NEW n \in 1 .. MaxLength, RecvData(n)
    PROVE  ReceivedBytes' = [ReceivedBytes EXCEPT ![current] =
                                @ \o [i \in 1 .. n |-> taken + i]]
<1> DEFINE old  == [i \in 1 .. info[current] |-> buffer[current][i - 1]]
           more == [i \in 1 .. n |-> taken + i]
           new  == [i \in 1 .. info[current] + n |-> Received(n)[i - 1]]
<1>1. /\ current \in Requests /\ taken \in Nat /\ info[current] \in Nat
      /\ info[current] + n <= MaxLength
      /\ info' = [info EXCEPT ![current] = info[current] + n]
      /\ buffer' = [buffer EXCEPT ![current] = Received(n)]
  BY RecvDataEffect DEF IInv, TypeOK, RequestTypes
<1>2. /\ info \in [Requests -> 0 .. MaxLength]
      /\ buffer \in [Requests -> [Offsets -> Byte]]
  BY DEF IInv, TypeOK, RequestTypes
<1>3. new = old \o more
  <2>1. old \in Seq(Byte) /\ Len(old) = info[current]
    <3>1. \A i \in 1 .. info[current] : i - 1 \in Offsets
      BY <1>1, <1>2 DEF Offsets
    <3>2. old \in [1 .. info[current] -> Byte]
      BY <1>1, <1>2, <3>1
    <3> HIDE DEF old
    <3> QED
      BY <1>1, <3>2
  <2>2. more \in Seq(Nat) /\ Len(more) = n
    BY <1>1
  <2>3. new \in Seq(Nat) /\ Len(new) = info[current] + n
    <3>1. \A i \in 1 .. info[current] + n : Received(n)[i - 1] \in Nat
      <4>1. ASSUME NEW i \in 1 .. info[current] + n
            PROVE  Received(n)[i - 1] \in Nat
        <5>1. i - 1 \in Offsets
          BY <1>1, <1>2 DEF Offsets
        <5> QED
          BY <1>1, <1>2, <5>1 DEF Received, Written, Byte
      <4> QED
        BY <4>1
    <3>2. new \in [1 .. info[current] + n -> Nat]
      BY <3>1
    <3>3. info[current] + n \in Nat
      BY <1>1
    <3> HIDE DEF new
    <3> QED
      BY <3>2, <3>3
  <2>4. ASSUME NEW i \in 1 .. info[current] + n
        PROVE  new[i] = IF i <= info[current] THEN old[i] ELSE more[i - info[current]]
    <3>1. i - 1 \in Offsets
      BY <1>1, <1>2 DEF Offsets
    <3>2. new[i] = Received(n)[i - 1]
      OBVIOUS
    <3>3. Received(n)[i - 1] = IF i - 1 \in info[current] .. info[current] + n - 1
                               THEN taken + 1 + (i - 1) - info[current]
                               ELSE buffer[current][i - 1]
      BY <3>1 DEF Received, Written
    <3>4. CASE i <= info[current]
      BY <1>1, <3>2, <3>3, <3>4
    <3>5. CASE ~(i <= info[current])
      <4>1. i - info[current] \in 1 .. n
        BY <1>1, <3>5
      <4>2. more[i - info[current]] = taken + (i - info[current])
        BY <4>1
      <4> HIDE DEF more, old, new
      <4> QED
        BY <1>1, <3>2, <3>3, <3>5, <4>2
    <3> QED
      BY <3>4, <3>5
  <2>5. old \in Seq(Nat)
    BY <2>1 DEF Byte
  <2> HIDE DEF old, more, new
  <2>6. /\ old \o more \in Seq(Nat) /\ Len(old \o more) = info[current] + n
        /\ \A i \in 1 .. info[current] + n :
              (old \o more)[i] = IF i <= info[current] THEN old[i]
                                 ELSE more[i - info[current]]
    <3>1. more \in Seq(Nat)
      BY <2>2
    <3>2. /\ old \o more \in Seq(Nat) /\ Len(old \o more) = Len(old) + Len(more)
          /\ \A i \in 1 .. Len(old) + Len(more) :
                (old \o more)[i] = IF i <= Len(old) THEN old[i]
                                   ELSE more[i - Len(old)]
      BY <2>5, <3>1, ConcatProperties
    <3>3. Len(old) = info[current] /\ Len(more) = n
      BY <2>1, <2>2
    <3> QED
      BY <3>2, <3>3, Zenon
  <2>7. /\ Len(new) = Len(old \o more)
        /\ \A i \in 1 .. Len(new) : new[i] = (old \o more)[i]
    <3>1. Len(new) = Len(old \o more)
      BY <2>3, <2>6
    <3>2. ASSUME NEW i \in 1 .. info[current] + n
          PROVE  new[i] = (old \o more)[i]
      BY <2>4, <2>6
    <3> QED
      BY <2>3, <3>1, <3>2
  <2> QED
    BY <2>3, <2>6, <2>7, SeqEqual
<1>4. ASSUME NEW r \in Requests
      PROVE  ReceivedBytes'[r] = IF r = current THEN new ELSE ReceivedBytes[r]
  BY <1>1, <1>2 DEF ReceivedBytes
<1>5. ReceivedBytes[current] = old
  BY <1>1 DEF ReceivedBytes
<1> HIDE DEF old, more, new
<1>6. /\ ReceivedBytes' = [r \in Requests |-> ReceivedBytes'[r]]
      /\ ReceivedBytes = [r \in Requests |-> ReceivedBytes[r]]
  BY DEF ReceivedBytes
<1>7. ReceivedBytes' = [ReceivedBytes EXCEPT ![current] = old \o more]
  BY <1>1, <1>3, <1>4, <1>6
<1> QED
  BY <1>5, <1>7 DEF more

LEMMA ReceiveStep ==
    ASSUME IInv, NEW n \in 1 .. MaxLength, RecvData(n)
    PROVE  Service!Receive(n)
<1>1. Waiting # << >> /\ Head(Waiting) = current /\ Tail(Waiting) = readQueue
  BY RecvDataEffect, WaitingIs DEF IInv
<1>2. Len(ReceivedBytes[current]) = info[current]
  <2>1. info[current] \in Nat /\ current \in Requests
    BY RecvDataEffect
  <2>2. ReceivedBytes[current] = [i \in 1 .. info[current] |-> buffer[current][i - 1]]
    BY <2>1 DEF ReceivedBytes
  <2> QED
    BY <2>1, <2>2
<1>3. \/ /\ info[current] + n < length[current]
         /\ Waiting' = Waiting /\ Reported' = Reported
      \/ /\ Waiting' = Tail(Waiting)
         /\ Reported' = [Reported EXCEPT ![current] = info[current] + n]
  <2>1. CASE CompleteCurrent("SUCCESS", info[current] + n, "recv")
    <3>1. Reported' = [Reported EXCEPT ![current] = info[current] + n]
      BY <2>1, RecvDataEffect, ReportedIs DEF CompleteCurrent, IInv, TypeOK, Pending
    <3>2. Waiting' = readQueue
      BY <2>1, RecvDataEffect DEF CompleteCurrent, Waiting
    <3> QED
      BY <1>1, <3>1, <3>2
  <2>2. CASE UNCHANGED <<outcome, current>> /\ info[current] + n < length[current]
    BY <2>2, RecvDataEffect DEF Waiting, Reported
  <2> QED
    BY <2>1, <2>2, RecvDataEffect
<1>4. /\ info[current] + n <= length[current] /\ taken' = taken + n
      /\ length' = length
  BY RecvDataEffect
<1> QED
  BY <1>1, <1>2, <1>3, <1>4, ReceivedIsAppended DEF Service!Receive, Service!Report

LEMMA ServiceStep == IInv /\ [Next]_vars => [Service!Next]_(Service!serviceVars)
<1> SUFFICES ASSUME IInv, [Next]_vars
             PROVE  Service!Next \/ UNCHANGED Service!serviceVars
    OBVIOUS
<1>1. CASE LeavesReads
  BY <1>1 DEF LeavesReads, Service!serviceVars, Waiting, ReceivedBytes, Reported
<1>2. CASE EndsHeld
  BY <1>2, EndStep DEF EndsHeld, Service!Next
<1>3. ASSUME NEW r \in Requests, NEW n \in 1 .. MaxLength,
             EvtIoRead(r, n) \/ EvtIoReadFails(r, n)
      PROVE  Service!Next
  BY <1>3, IssueStep, RefuseStep DEF Service!Next
<1>4. ASSUME NEW r \in Requests, CancelQueued(r)
      PROVE  Service!Next
  BY <1>4, CancelQueuedStep DEF Service!Next
<1>5. ASSUME NEW n \in 1 .. MaxLength, RecvData(n)
      PROVE  Service!Next
  BY <1>5, ReceiveStep DEF Service!Next
<1> QED
  BY <1>1, <1>2, <1>3, <1>4, <1>5, DequeueStutters, StepKinds

(* The read path is a ReadService, for every set of reads: through the     *)
(* queue, the thread, cancellation, the timers and the end of the thread,  *)
(* reads are served in the order they were issued, each with the next      *)
(* bytes of the stream, and every end is final.                            *)
THEOREM ReadsAreServed == Spec => ImplementsReadService
<1>1. IInv /\ [Next]_vars => [Service!Next]_(Service!serviceVars)
  BY ServiceStep
<1> QED
  BY ServiceInit, <1>1, Inductive, PTL DEF Spec, ImplementsReadService, Service!Spec

----------------------------------------------------------------------------
(* How bytes are lost.                                                     *)

LEMMA LossInit == Init => LossOnlyOnGivingUp
BY DEF Init, LossOnlyOnGivingUp, Issued

LEMMA LossStep ==
    IInv /\ LossOnlyOnGivingUp /\ [Next]_vars => LossOnlyOnGivingUp'
<1> SUFFICES ASSUME IInv, LossOnlyOnGivingUp, [Next]_vars,
                    NEW r \in Requests, (Issued(r) /\ outcome[r].status # Pending)'
             PROVE  \/ outcome'[r].information = info'[r]
                    \/ /\ outcome'[r].information = 0
                       /\ outcome'[r].by \in {"WAIT_TIMEOUT", "recv", "mark",
                                              "CancelEvent", "ThreadEvent"}
                       /\ outcome'[r].status # "SUCCESS"
    BY DEF LossOnlyOnGivingUp
<1> USE DEF IInv, TypeOK, RequestTypes
<1>1. CASE outcome[r].status # Pending
  <2>1. Issued(r)
    BY <1>1 DEF Placement, FreshUntilDequeued
  <2>2. outcome'[r] = outcome[r] /\ info'[r] = info[r]
    BY <1>1, CompletedIsLeftAlone DEF vars, requestVars
  <2> QED
    BY <1>1, <2>1, <2>2 DEF LossOnlyOnGivingUp
<1>2. CASE outcome[r].status = Pending
  <2>1. CASE LeavesReads \/ Dequeue
    BY <1>2, <2>1 DEF LeavesReads, Dequeue, requestVars
  <2>2. ASSUME NEW s \in Statuses \ {Pending}, NEW n \in 0 .. MaxLength,
               NEW site \in Sites, Ends(s, n, site)
        PROVE  \/ outcome'[r].information = info'[r]
               \/ /\ outcome'[r].information = 0
                  /\ outcome'[r].by \in {"WAIT_TIMEOUT", "recv", "mark",
                                         "CancelEvent", "ThreadEvent"}
                  /\ outcome'[r].status # "SUCCESS"
    <3>1. r = current
      BY <1>2, <2>2, CompletesOnlyCurrent DEF Ends
    <3>2. outcome'[r] = Outcome(s, n, site) /\ info' = info
      BY <2>2, <3>1 DEF Ends, CompleteCurrent, Complete
    <3> QED
      BY <2>2, <3>1, <3>2 DEF Ends, GivesUp, Outcome
  <2>3. ASSUME NEW q \in Requests, NEW n \in 1 .. MaxLength,
               EvtIoRead(q, n) \/ EvtIoReadFails(q, n)
        PROVE  outcome'[r].information = info'[r]
    <3>1. outcome' = [outcome EXCEPT ![q] = Outcome("INVALID", 0, "issue")]
          /\ info' = info /\ ~Issued(q)
      BY <1>2, <2>3 DEF EvtIoRead, EvtIoReadFails, Complete
    <3> QED
      BY <1>2, <3>1 DEF Outcome, Placement, FreshUntilDequeued
  <2>4. ASSUME NEW q \in Requests, CancelQueued(q)
        PROVE  outcome'[r].information = info'[r]
    <3>1. outcome' = [outcome EXCEPT ![q] = Outcome("CANCELLED", 0, "queue")]
          /\ info' = info /\ Queued(q)
      BY <2>4 DEF CancelQueued, Complete, Queued
    <3> QED
      BY <1>2, <3>1 DEF Outcome, Placement, FreshUntilDequeued
  <2>5. ASSUME NEW n \in 1 .. MaxLength, RecvData(n)
        PROVE  outcome'[r].information = info'[r]
    <3>1. CompleteCurrent("SUCCESS", info[current] + n, "recv")
      BY <1>2, <2>5, RecvDataEffect
    <3>2. r = current
      BY <1>2, <3>1, CompletesOnlyCurrent
    <3> QED
      BY <2>5, <3>1, <3>2, RecvDataEffect DEF CompleteCurrent, Complete, Outcome
  <2> QED
    BY <2>1, <2>2, <2>3, <2>4, <2>5, StepKinds DEF EndsHeld
<1> QED
  BY <1>1, <1>2

(* Bytes that were received are reported to the application or lost with a *)
(* read that is given up: after 500 ms waits, by a failed receive, a       *)
(* cancellation, or the end of the thread.  No read that succeeds loses or *)
(* invents any.                                                            *)
THEOREM LossIsGivingUp == Spec => []LossOnlyOnGivingUp
BY LossInit, LossStep, Inductive, PTL DEF Spec

----------------------------------------------------------------------------
(* The bytes of the stream.                                                *)

(* What makes BytesInOrder inductive: a request holds only bytes that were *)
(* taken, and the last byte of the held request is the last one taken.     *)
ReceivedWereTaken ==
    \A r \in Requests : \A i \in 0 .. info[r] - 1 : buffer[r][i] \in 1 .. taken

HeldHasTheLast ==
    current # None /\ info[current] > 0 =>
        buffer[current][info[current] - 1] = taken

StreamInv == BytesInOrder /\ ReceivedWereTaken /\ HeldHasTheLast

LEMMA StreamInit == Init => StreamInv
BY DEF Init, StreamInv, BytesInOrder, ReceivedWereTaken, HeldHasTheLast

LEMMA StreamFrame ==
    ASSUME StreamInv, UNCHANGED <<info, buffer, taken>>,
           current' \in {current, None} \/ info[current'] = 0
    PROVE  StreamInv'
BY DEF StreamInv, BytesInOrder, ReceivedWereTaken, HeldHasTheLast

LEMMA StreamRecvData ==
    ASSUME IInv, StreamInv, NEW n \in 1 .. MaxLength, RecvData(n)
    PROVE  StreamInv'
<1> DEFINE k == info[current]
<1>1. /\ current \in Requests /\ k \in Nat /\ taken \in Nat /\ taken' = taken + n
      /\ k + n <= MaxLength
  BY RecvDataEffect DEF IInv, TypeOK, RequestTypes
<1>2. /\ info'[current] = k + n
      /\ buffer'[current] = Received(n)
      /\ \A r \in Requests \ {current} : info'[r] = info[r] /\ buffer'[r] = buffer[r]
  BY <1>1, RecvDataEffect DEF IInv, TypeOK, RequestTypes
<1>3. \A r \in Requests : info[r] \in Nat
  BY DEF IInv, TypeOK, RequestTypes
<1>4. ASSUME NEW i \in 0 .. k + n - 1
      PROVE  buffer'[current][i] = IF i < k THEN buffer[current][i]
                                   ELSE taken + 1 + i - k
  <2>1. i \in Offsets
    BY <1>1 DEF Offsets
  <2> QED
    BY <1>1, <1>2, <2>1 DEF Received, Written
<1> HIDE DEF k
<1>5. ReceivedWereTaken'
  <2>1. ASSUME NEW r \in Requests, NEW i \in 0 .. info'[r] - 1
        PROVE  buffer'[r][i] \in 1 .. taken + n
    <3>1. CASE r # current
      BY <1>1, <1>2, <1>3, <3>1 DEF StreamInv, ReceivedWereTaken
    <3>2. CASE r = current /\ i < k
      <4>1. i \in 0 .. info[r] - 1
        BY <1>1, <1>2, <3>2 DEF k
      <4>2. buffer[r][i] \in 1 .. taken
        BY <4>1 DEF StreamInv, ReceivedWereTaken
      <4> QED
        BY <1>1, <1>2, <1>4, <3>2, <4>2
    <3>3. CASE r = current /\ ~(i < k)
      BY <1>1, <1>2, <1>4, <3>3
    <3> QED
      BY <3>1, <3>2, <3>3
  <2> QED
    BY <1>1, <2>1 DEF ReceivedWereTaken
<1>6. HeldHasTheLast'
  <2>1. buffer'[current][k + n - 1] = taken + n
    BY <1>1, <1>4
  <2>2. current' \in {current, None}
    BY RecvDataEffect DEF CompleteCurrent
  <2> QED
    BY <1>1, <1>2, <2>1, <2>2 DEF HeldHasTheLast
<1>7. BytesInOrder'
  <2>1. ASSUME NEW r \in Requests, NEW i \in 1 .. info'[r] - 1
        PROVE  buffer'[r][i] = buffer'[r][i - 1] + 1
    <3>1. CASE r # current
      BY <1>2, <3>1 DEF StreamInv, BytesInOrder
    <3>2. CASE r = current
      <4>1. i \in 0 .. k + n - 1 /\ i - 1 \in 0 .. k + n - 1
        BY <1>1, <1>2, <3>2
      <4>2. CASE i < k
        <5>1. i \in 1 .. info[current] - 1
          BY <1>1, <3>2, <4>1, <4>2 DEF k
        <5>2. buffer[current][i] = buffer[current][i - 1] + 1
          BY <1>1, <5>1 DEF StreamInv, BytesInOrder
        <5> QED
          BY <1>1, <1>4, <3>2, <4>1, <4>2, <5>2
      <4>3. CASE i = k
        <5>1. buffer[current][k - 1] = taken
          BY <1>1, <4>1, <4>3 DEF StreamInv, HeldHasTheLast, k
        <5> QED
          BY <1>1, <1>4, <3>2, <4>1, <4>3, <5>1
      <4>4. CASE i > k
        BY <1>1, <1>4, <3>2, <4>1, <4>4
      <4> QED
        BY <1>1, <4>1, <4>2, <4>3, <4>4
    <3> QED
      BY <3>1, <3>2
  <2>2. ASSUME NEW b \in 1 .. taken + n
        PROVE  \E r \in Requests :
                  /\ \E i \in 0 .. info'[r] - 1 : buffer'[r][i] = b
                  /\ \A s \in Requests \ {r} : \A i \in 0 .. info'[s] - 1 :
                         buffer'[s][i] # b
    <3>1. CASE b <= taken
      <4>1. PICK r \in Requests :
               /\ \E i \in 0 .. info[r] - 1 : buffer[r][i] = b
               /\ \A s \in Requests \ {r} : \A i \in 0 .. info[s] - 1 :
                      buffer[s][i] # b
        BY <1>1, <3>1 DEF StreamInv, BytesInOrder
      <4>2. PICK i \in 0 .. info[r] - 1 : buffer[r][i] = b
        BY <4>1
      <4>3. i \in 0 .. info'[r] - 1 /\ buffer'[r][i] = b
        <5>1. CASE r # current
          BY <1>2, <4>2, <5>1
        <5>2. CASE r = current
          <6>1. i < k /\ i \in 0 .. k + n - 1
            BY <1>1, <5>2 DEF k
          <6>2. i \in 0 .. info'[current] - 1
            <7>1. info'[current] = k + n
              BY <1>2
            <7> QED
              BY <1>1, <6>1, <7>1
          <6>3. buffer'[current][i] = buffer[current][i]
            BY <1>4, <6>1
          <6> QED
            BY <4>2, <5>2, <6>2, <6>3
        <5> QED
          BY <5>1, <5>2
      <4>4. ASSUME NEW s \in Requests \ {r}, NEW j \in 0 .. info'[s] - 1
            PROVE  buffer'[s][j] # b
        <5>1. CASE s # current
          BY <1>2, <4>1, <5>1
        <5>2. CASE s = current /\ j < k
          <6>1. j \in 0 .. info[s] - 1 /\ j \in 0 .. k + n - 1
            BY <1>1, <1>2, <5>2 DEF k
          <6> QED
            BY <1>4, <4>1, <5>2, <6>1
        <5>3. CASE s = current /\ ~(j < k)
          BY <1>1, <1>2, <1>4, <3>1, <5>3
        <5> QED
          BY <5>1, <5>2, <5>3
      <4> QED
        BY <4>3, <4>4
    <3>2. CASE b > taken
      <4> DEFINE j == k + (b - taken) - 1
      <4>1. j \in 0 .. k + n - 1 /\ ~(j < k) /\ taken + 1 + j - k = b
        BY <1>1, <3>2
      <4> HIDE DEF j
      <4>2. j \in 0 .. info'[current] - 1 /\ buffer'[current][j] = b
        <5>1. j \in 0 .. info'[current] - 1
          <6>1. info'[current] = k + n
            BY <1>2
          <6> QED
            BY <1>1, <4>1, <6>1
        <5>2. buffer'[current][j] = taken + 1 + j - k
          BY <1>4, <4>1
        <5> QED
          BY <4>1, <5>1, <5>2
      <4>3. ASSUME NEW s \in Requests \ {current}, NEW i \in 0 .. info'[s] - 1
            PROVE  buffer'[s][i] # b
        <5>1. buffer'[s][i] \in 1 .. taken
          BY <1>2 DEF StreamInv, ReceivedWereTaken
        <5> QED
          BY <1>1, <3>2, <5>1
      <4> QED
        BY <1>1, <4>2, <4>3
    <3> QED
      BY <1>1, <3>1, <3>2
  <2> QED
    BY <1>1, <2>1, <2>2 DEF BytesInOrder
<1> QED
  BY <1>5, <1>6, <1>7 DEF StreamInv

LEMMA StreamStep == IInv /\ StreamInv /\ [Next]_vars => StreamInv'
<1> SUFFICES ASSUME IInv, StreamInv, [Next]_vars PROVE StreamInv'
    OBVIOUS
<1> USE DEF requestVars, readVars, netVars, streamVars
<1>1. CASE LeavesReads
  BY <1>1, StreamFrame DEF LeavesReads
<1>2. CASE EndsHeld
  BY <1>2, StreamFrame DEF EndsHeld, Ends, CompleteCurrent
<1>3. ASSUME NEW r \in Requests, NEW n \in 1 .. MaxLength,
             EvtIoRead(r, n) \/ EvtIoReadFails(r, n)
      PROVE  StreamInv'
  BY <1>3, StreamFrame DEF EvtIoRead, EvtIoReadFails
<1>4. ASSUME NEW r \in Requests, CancelQueued(r)
      PROVE  StreamInv'
  BY <1>4, StreamFrame DEF CancelQueued
<1>5. CASE Dequeue
  <2>1. /\ readQueue \in Seq(Requests) /\ readQueue # << >>
        /\ current' = Head(readQueue)
    BY <1>5 DEF Dequeue, IInv, TypeOK, OwnerTypes
  <2>2. Queued(Head(readQueue)) /\ Head(readQueue) \in Requests
    BY <2>1, HeadTailProperties, EmptySeq, LenProperties DEF Queued
  <2>3. info[current'] = 0
    BY <2>1, <2>2 DEF IInv, Placement, FreshUntilDequeued
  <2> QED
    BY <1>5, <2>3, StreamFrame DEF Dequeue
<1> QED
  BY <1>1, <1>2, <1>3, <1>4, <1>5, StreamRecvData, StepKinds

(* No byte is duplicated, reordered or overwritten, whatever lengths the   *)
(* reads have and however the stream is cut into receives.                 *)
THEOREM BytesStayInOrder == Spec => []BytesInOrder
<1>1. IInv /\ StreamInv /\ [Next]_vars => StreamInv'
  BY StreamStep
<1>2. StreamInv => BytesInOrder
  BY DEF StreamInv
<1> QED
  BY StreamInit, <1>1, <1>2, Inductive, PTL DEF Spec

----------------------------------------------------------------------------
(* What wakes the thread.                                                  *)

(* The steps of the others, while the thread sleeps.                       *)
OthersNext ==
    \/ Application \/ SetTimeoutsEnd \/ Peer
    \/ RunCallbacks \/ Tick \/ CleanupNetwork
    \/ UNCHANGED vars

(* The thread goes to sleep with a read only by Arm; then the others move, *)
(* who leave the thread and its read alone.                                *)
LEMMA SleepKinds ==
    ASSUME IInv, [Next]_vars, pc' = "wait", current' # None
    PROVE  Arm \/ (OthersNext /\ UNCHANGED <<pc, current, timers>>)
<1>1. CASE ClientThread
  <2>1. ~(LoopExit \/ MarkFails \/ Dequeue \/ Wake \/ WaitTimesOut \/ HandleEvent)
    BY DEF LoopExit, MarkFails, Dequeue, Wake, EventArray, WaitTimesOut, HandleEvent,
       HandleWaitTimeout, HandleSocketEvent, HandleThreadEvent, HandleReadQueueEvent,
       HandleCancelEvent, HandleIntervalTimerEvent, HandleTotalTimerEvent, Handle
  <2>2. ~NothingToDequeue
    BY DEF NothingToDequeue, readVars
  <2>3. ~ProcessRequest
    BY DEF ProcessRequest, RecvData, RecvZero, RecvWouldBlock, RecvError,
       AfterProcessing
  <2> QED
    BY <1>1, <2>1, <2>2, <2>3 DEF ClientThread
<1>2. CASE OthersNext
  <2>1. UNCHANGED <<pc, current, timers>>
    BY <1>2
       DEF OthersNext, vars, Application, EvtIoRead, EvtIoReadFails, CancelQueued,
           CancelHeld, SetTimeoutsBegin, SetTimeoutsEnd, Peer, PeerSend,
           PeerClose, PeerReset, PeerEnds, RunCallbacks, EvtReadQueueReady,
           EvtIntervalTimer, EvtTotalTimer, Callback, EvtReadRequestCancel,
           CancelCallback, Tick, CleanupNetwork, CleanupStopsTimers,
           CleanupTerminates, CleanupSignals, CleanupSetsEvent, CleanupCloses,
           CleanupGoesTo, readVars, threadVars
  <2> QED
    BY <1>2, <2>1
<1> QED
  BY <1>1, <1>2 DEF Next, OthersNext

(* A sleeping thread's read is marked cancelable until it is cancelled.    *)
AsleepIsCancelable ==
    pc = "wait" /\ current # None => marked \/ current \in cancelled

CancelInv == AsleepIsCancelable /\ CancelWakesTheThread

LEMMA CancelInit == Init => CancelInv
BY DEF Init, CancelInv, AsleepIsCancelable, CancelWakesTheThread

LEMMA CancelStep == IInv /\ CancelInv /\ [Next]_vars => CancelInv'
<1> SUFFICES ASSUME IInv, CancelInv, [Next]_vars PROVE CancelInv'
    OBVIOUS
<1>0. current' = None => current' \notin cancelled'
  <2>1. cancelled' \subseteq Requests
    BY TypeStep DEF TypeOK, OwnerTypes
  <2> QED
    BY <2>1
<1> SUFFICES ASSUME pc' = "wait", current' # None
             PROVE  /\ marked' \/ current' \in cancelled'
                    /\ current' \in cancelled' =>
                           current' \in cancelling' \/ "CancelEvent" \in signaled'
    BY <1>0 DEF CancelInv, AsleepIsCancelable, CancelWakesTheThread
<1>1. CASE Arm
  BY <1>1 DEF Arm, MarkSucceeds, readVars
<1>2. CASE OthersNext /\ UNCHANGED <<pc, current, timers>>
  <2>1. /\ pc = "wait" /\ current # None /\ current' = current
        /\ marked \/ current \in cancelled
        /\ current \in cancelled =>
               current \in cancelling \/ "CancelEvent" \in signaled
    BY <1>2 DEF CancelInv, AsleepIsCancelable, CancelWakesTheThread
  <2>2. ASSUME NEW r \in Requests, CancelQueued(r)
        PROVE  r # current /\ cancelled' = cancelled \cup {r}
               /\ UNCHANGED <<marked, cancelling, signaled>>
    BY <2>2 DEF CancelQueued, eventVars, IInv, Placement, EachReadInOnePlace, Queued
  <2>3. ASSUME NEW r \in Requests, CancelHeld(r)
        PROVE  /\ r = current /\ r \notin cancelled /\ cancelled' = cancelled \cup {r}
               /\ cancelling' = IF marked THEN cancelling \cup {r} ELSE cancelling
    BY <2>3 DEF CancelHeld
  <2>4. ASSUME NEW r \in Requests, EvtReadRequestCancel(r)
        PROVE  "CancelEvent" \in signaled' /\ UNCHANGED <<cancelled, marked>>
    BY <2>4 DEF EvtReadRequestCancel, CancelCallback
  <2>5. CASE \/ \E r \in Requests, n \in 1 .. MaxLength :
                    EvtIoRead(r, n) \/ EvtIoReadFails(r, n)
             \/ \E t \in TimeoutChoices : SetTimeoutsBegin(t)
             \/ SetTimeoutsEnd \/ Peer \/ Tick \/ CleanupNetwork
             \/ EvtReadQueueReady \/ EvtIntervalTimer \/ EvtTotalTimer
             \/ UNCHANGED vars
    <3>1. UNCHANGED cancelVars /\ signaled \subseteq signaled'
      BY <2>5
         DEF vars, EvtIoRead, EvtIoReadFails, SetTimeoutsBegin, SetTimeoutsEnd,
             Peer, PeerSend, PeerClose, PeerReset, PeerEnds, EvtReadQueueReady,
             EvtIntervalTimer, EvtTotalTimer, Callback, Tick, CleanupNetwork,
             CleanupStopsTimers, CleanupTerminates, CleanupSignals,
             CleanupSetsEvent, CleanupCloses, CleanupGoesTo, eventVars
    <3> QED
      BY <2>1, <3>1 DEF cancelVars
  <2>6. CASE \E r \in Requests : CancelQueued(r)
    BY <2>1, <2>2, <2>6
  <2>7. CASE \E r \in Requests : CancelHeld(r)
    BY <2>1, <2>3, <2>7
  <2>8. CASE \E r \in Requests : EvtReadRequestCancel(r)
    BY <2>1, <2>4, <2>8
  <2> QED
    BY <1>2, <2>5, <2>6, <2>7, <2>8 DEF OthersNext, Application, RunCallbacks
<1> QED
  BY <1>1, <1>2, SleepKinds

(* Between MarkCancelableEx and the wait, and while the thread sleeps, the *)
(* cancellation of its read reaches CancelEvent.                           *)
THEOREM CancelIsNotLost == Spec => []CancelWakesTheThread
<1>1. IInv /\ CancelInv /\ [Next]_vars => CancelInv'
  BY CancelStep
<1>2. CancelInv => CancelWakesTheThread
  BY DEF CancelInv
<1> QED
  BY CancelInit, <1>1, <1>2, Inductive, PTL DEF Spec

UsesTimer(t) ==
    IF t = "TotalTimerEvent" THEN timers.UseTotalTimer ELSE timers.UseIntervalTimer

LEMMA WakeUpInit == Init => HeldReadHasItsWakeUp
BY DEF Init, HeldReadHasItsWakeUp

LEMMA WakeUpStep ==
    IInv /\ HeldReadHasItsWakeUp /\ [Next]_vars => HeldReadHasItsWakeUp'
<1> SUFFICES ASSUME IInv, HeldReadHasItsWakeUp, [Next]_vars,
                    (pc = "wait")', (current # None)', (cleanup = "idle")',
                    NEW t \in Timers, UsesTimer(t)'
             PROVE  (left[t] # Stopped)' \/ t \in callbacks' \cup signaled'
    BY DEF HeldReadHasItsWakeUp, UsesTimer
<1>1. CASE Arm
  <2>1. left' = DueTimes /\ UsesTimer(t)
    BY <1>1 DEF Arm, readVars, UsesTimer
  <2>2. timers.IntervalTime \in Nat /\ timers.TotalTime \in Nat
    BY DEF IInv, TypeOK, ReadTypes, ReadTimersOf
  <2> QED
    BY <2>1, <2>2 DEF DueTimes, DueTime, UsesTimer, Timers, Stopped
<1>2. CASE OthersNext /\ UNCHANGED <<pc, current, timers>>
  <2>1. pc = "wait" /\ current # None /\ UsesTimer(t)
    BY <1>2 DEF UsesTimer
  <2>2. CASE CleanupNetwork
    BY <2>2 DEF CleanupNetwork, CleanupStopsTimers, CleanupTerminates, CleanupSignals,
       CleanupSetsEvent, CleanupCloses, CleanupGoesTo
  <2>3. CASE ~CleanupNetwork
    <3>1. UNCHANGED cleanup
      BY <1>2, <2>3
         DEF OthersNext, vars, Application, EvtIoRead, EvtIoReadFails, CancelQueued,
             CancelHeld, SetTimeoutsBegin, SetTimeoutsEnd, Peer, PeerSend,
             PeerClose, PeerReset, PeerEnds, RunCallbacks, EvtReadQueueReady,
             EvtIntervalTimer, EvtTotalTimer, Callback, EvtReadRequestCancel,
             CancelCallback, Tick
    <3>2. left[t] # Stopped \/ t \in callbacks \cup signaled
      BY <2>1, <3>1 DEF HeldReadHasItsWakeUp, UsesTimer
    <3>3. CASE Tick
      <4>1. /\ left'[t] = IF left[t] <= 1 THEN Stopped ELSE left[t] - 1
            /\ callbacks' = callbacks \cup {u \in Timers : left[u] \in {0, 1}}
            /\ signaled' = signaled
        BY <3>3 DEF Tick
      <4>2. left[t] \in Nat \cup {Stopped}
        BY DEF IInv, TypeOK, EventTypes
      <4> QED
        BY <3>2, <4>1, <4>2 DEF Stopped
    <3>4. CASE RunCallbacks
      <4>1. left' = left /\ callbacks \cup signaled \subseteq callbacks' \cup signaled'
        BY <3>4 DEF RunCallbacks, EvtReadQueueReady, EvtIntervalTimer,
           EvtTotalTimer, Callback, EvtReadRequestCancel, CancelCallback
      <4> QED
        BY <3>2, <4>1
    <3>5. CASE Application \/ SetTimeoutsEnd \/ Peer \/ UNCHANGED vars
      <4>1. left' = left /\ callbacks \subseteq callbacks' /\ signaled \subseteq signaled'
        BY <3>5
           DEF vars, Application, EvtIoRead, EvtIoReadFails, CancelQueued,
               CancelHeld, SetTimeoutsBegin, SetTimeoutsEnd, Peer, PeerSend,
               PeerClose, PeerReset, PeerEnds, eventVars
      <4> QED
        BY <3>2, <4>1
    <3> QED
      BY <1>2, <2>3, <3>3, <3>4, <3>5 DEF OthersNext
  <2> QED
    BY <2>2, <2>3
<1> QED
  BY <1>1, <1>2, SleepKinds

(* A thread that sleeps over a read with a timer has that timer running,   *)
(* or its expiry on the way, until CleanupNetwork stops the timers.        *)
THEOREM WakeUpIsArmed == Spec => []HeldReadHasItsWakeUp
BY WakeUpInit, WakeUpStep, Inductive, PTL DEF Spec

----------------------------------------------------------------------------
(* How often CancelEvent ends a read that nobody cancelled.                *)

(* Every cancellation that can end one of the reads: its callback is due,  *)
(* the event is signaled, or the thread has been woken by it.              *)
Announced ==
    Cardinality(cancelling) + (IF "CancelEvent" \in signaled THEN 1 ELSE 0)
                            + (IF pc = "CancelEvent" THEN 1 ELSE 0)

EndedByCancel == {r \in Requests : outcome[r].by = "CancelEvent"}

(* The reads that were cancelled while the thread held them, and those of  *)
(* them that were completed since.                                         *)
CancelledHeld == {r \in cancelled : outcome[r].by # "queue"}

CancelledAndEnded == {r \in cancelled : outcome[r].by \notin {"none", "queue"}}

SitesTell ==
    \A r \in Requests : outcome[r].by = "none" <=> outcome[r].status = Pending

CancelledWasIssued ==
    /\ cancelling \subseteq cancelled
    /\ \A r \in cancelled : Issued(r) /\ ~Queued(r)

(* Each announcement and each read ended by one is paid for by a read that *)
(* was cancelled in the thread's hands; those that are spent, by one that  *)
(* is completed: the announcement of the held read is not spent on another.*)
Accounts ==
    /\ IsFiniteSet(cancelled) /\ IsFiniteSet(EndedByCancel)
    /\ Cardinality(EndedByCancel) + Announced <= Cardinality(CancelledHeld)
    /\ Cardinality(EndedByCancel) <= Cardinality(CancelledAndEnded)

StrayInv == SitesTell /\ CancelledWasIssued /\ Accounts

LEMMA StrayInit == Init => StrayInv
<1> SUFFICES ASSUME Init PROVE StrayInv
    OBVIOUS
<1>1. SitesTell /\ CancelledWasIssued
  BY DEF Init, SitesTell, CancelledWasIssued, Outcome
<1>2. /\ EndedByCancel = {} /\ CancelledHeld = {} /\ CancelledAndEnded = {}
      /\ cancelled = {} /\ cancelling = {}
  BY DEF Init, EndedByCancel, CancelledHeld, CancelledAndEnded, Outcome
<1>3. Announced = 0
  BY <1>2, FS_EmptySet DEF Init, Announced
<1> QED
  BY <1>1, <1>2, <1>3, FS_EmptySet DEF StrayInv, Accounts

(* A read is ended by something that is neither a cancellation nor the     *)
(* framework.                                                              *)
EndsOtherwise(r) ==
    /\ outcome[r].status = Pending
    /\ \E s \in Statuses \ {Pending}, n \in 0 .. MaxLength,
          site \in Sites \ {"none", "queue", "CancelEvent"} : Complete(r, s, n, site)

(* A step that has nothing to do with a cancellation.                      *)
KeepsAnnouncements ==
    /\ UNCHANGED <<cancelled, cancelling>>
    /\ "CancelEvent" \in signaled' <=> "CancelEvent" \in signaled
    /\ pc' = "CancelEvent" <=> pc = "CancelEvent"
    /\ outcome' = outcome \/ \E r \in Requests : EndsOtherwise(r)

LEMMA CurrentIsPending ==
    ASSUME IInv, current # None
    PROVE  /\ current \in Requests /\ outcome[current].status = Pending
           /\ info[current] \in 0 .. MaxLength /\ 0 \in 0 .. MaxLength
           /\ Issued(current) /\ ~Queued(current)
BY DEF IInv, TypeOK, OwnerTypes, RequestTypes, Placement, EachReadInOnePlace, IsPending

LEMMA EndsCurrentOtherwise ==
    ASSUME IInv, current # None, NEW s, NEW n \in {0, info[current]},
           NEW site \in Sites \ {"none", "queue", "CancelEvent"},
           s \in Statuses, s # Pending,
           CompleteCurrent(s, n, site)
    PROVE  \E r \in Requests : EndsOtherwise(r)
BY CurrentIsPending DEF EndsOtherwise, CompleteCurrent

LEMMA EndingStrings ==
    /\ {"SUCCESS", "TIMEOUT", "CANCELLED", "UNSUCCESSFUL", "INVALID"}
          \subseteq Statuses \ {Pending}
    /\ {"WAIT_TIMEOUT", "recv", "mark", "issue", "ThreadEvent",
        "IntervalTimerEvent", "TotalTimerEvent"}
          \subseteq Sites \ {"none", "queue", "CancelEvent"}
BY DEF Statuses, Sites, Pending, Events

(* What a step can do to the announcements.                                *)
LEMMA AnnouncementKinds ==
    ASSUME IInv, [Next]_vars
    PROVE  \/ \E r \in Requests :
                  CancelHeld(r) \/ CancelQueued(r) \/ EvtReadRequestCancel(r)
           \/ Wake \/ HandleCancelEvent
           \/ KeepsAnnouncements
<1> USE DEF requestVars, cancelVars, threadVars, eventVars, KeepsAnnouncements
<1>1. CASE Application
  <2>1. ASSUME NEW r \in Requests, NEW n \in 1 .. MaxLength, EvtIoRead(r, n)
        PROVE  KeepsAnnouncements
    BY <2>1 DEF EvtIoRead
  <2>2. ASSUME NEW r \in Requests, NEW n \in 1 .. MaxLength, EvtIoReadFails(r, n)
        PROVE  KeepsAnnouncements
    <3>1. outcome[r].status = Pending /\ 0 \in 0 .. MaxLength
      BY <2>2 DEF EvtIoReadFails, IInv, Placement, FreshUntilDequeued
    <3>2. EndsOtherwise(r)
      BY <2>2, <3>1, EndingStrings DEF EvtIoReadFails, EndsOtherwise
    <3> QED
      BY <2>2, <3>2 DEF EvtIoReadFails
  <2>3. ASSUME NEW t \in TimeoutChoices, SetTimeoutsBegin(t)
        PROVE  KeepsAnnouncements
    BY <2>3 DEF SetTimeoutsBegin
  <2> QED
    BY <1>1, <2>1, <2>2, <2>3 DEF Application
<1>2. CASE SetTimeoutsEnd \/ Peer \/ Tick \/ CleanupNetwork
  <2>1. CASE SetTimeoutsEnd \/ Tick
    BY <2>1 DEF SetTimeoutsEnd, Tick
  <2>2. CASE Peer
    BY <2>2 DEF Peer, PeerSend, PeerClose, PeerReset, PeerEnds
  <2>3. CASE CleanupNetwork
    <3>1. /\ UNCHANGED <<cancelled, cancelling, pc, outcome>>
          /\ signaled' = signaled \/ signaled' = signaled \cup {"ThreadEvent"}
      BY <2>3 DEF CleanupNetwork, CleanupStopsTimers, CleanupTerminates,
         CleanupSignals, CleanupSetsEvent, CleanupCloses, CleanupGoesTo
    <3> QED
      BY <3>1
  <2> QED
    BY <1>2, <2>1, <2>2, <2>3
<1>3. CASE RunCallbacks
  <2>1. CASE EvtReadQueueReady \/ EvtIntervalTimer \/ EvtTotalTimer
    BY <2>1 DEF EvtReadQueueReady, EvtIntervalTimer, EvtTotalTimer, Callback
  <2> QED
    BY <1>3, <2>1 DEF RunCallbacks
<1>4. CASE ClientThread
  <2>1. CASE LoopExit \/ Dequeue \/ NothingToDequeue \/ Arm \/ WaitTimesOut
    <3>1. UNCHANGED <<cancelled, cancelling, signaled, outcome>>
      BY <2>1 DEF LoopExit, Dequeue, NothingToDequeue, Arm, WaitTimesOut
    <3>2. pc # "CancelEvent" /\ pc' # "CancelEvent"
      BY <2>1 DEF LoopExit, LoopGoesOn, Dequeue, NothingToDequeue, Arm, StillHeld,
         WaitTimesOut
    <3> QED
      BY <3>1, <3>2
  <2>2. CASE MarkFails
    <3>1. current # None /\ CompleteCurrent("CANCELLED", 0, "mark")
      BY <2>2 DEF MarkFails, StillHeld, IInv, HoldsARead
    <3>2. \E r \in Requests : EndsOtherwise(r)
      BY <3>1, EndsCurrentOtherwise, EndingStrings
    <3> QED
      BY <2>2, <3>2 DEF MarkFails, StillHeld
  <2>3. CASE ProcessRequest
    <3>1. pc = "process" /\ pc' \in {"wait", "arm"}
      BY <2>3 DEF ProcessRequest, RecvData, RecvZero, RecvWouldBlock, RecvError,
         AfterProcessing
    <3>2. /\ UNCHANGED cancelVars
          /\ signaled' = signaled \/ signaled' = signaled \cup {"ClientSocketEvent"}
      BY <2>3 DEF ProcessRequest, RecvData, RecvZero, RecvWouldBlock, RecvError,
         RecvReenables
    <3>3. outcome' = outcome \/ \E r \in Requests : EndsOtherwise(r)
      <4>1. CASE RecvZero \/ RecvError
        BY <4>1, EndsCurrentOtherwise, EndingStrings
           DEF RecvZero, RecvError, MustRecv
      <4>2. CASE RecvWouldBlock
        BY <4>2 DEF RecvWouldBlock
      <4>3. ASSUME NEW n \in 1 .. MaxLength, RecvData(n)
            PROVE  outcome' = outcome \/ \E r \in Requests : EndsOtherwise(r)
        <5>1. current # None /\ info'[current] \in 0 .. MaxLength
          <6>1. current # None
            BY <4>3 DEF RecvData, MustRecv
          <6>2. TypeOK'
            BY TypeStep
          <6> QED
            BY <6>1, <6>2, CurrentIsPending DEF TypeOK, RequestTypes
        <5>2. outcome' = outcome \/ CompleteCurrent("SUCCESS", info'[current], "recv")
          BY <4>3 DEF RecvData
        <5> QED
          BY <5>1, <5>2, CurrentIsPending, EndingStrings DEF EndsOtherwise, CompleteCurrent
      <4> QED
        BY <2>3, <4>1, <4>2, <4>3 DEF ProcessRequest
    <3> QED
      BY <3>1, <3>2, <3>3
  <2>4. CASE HandleEvent
    <3>1. CASE HandleWaitTimeout
      <4>1. current # None
        BY <3>1 DEF HandleWaitTimeout, Handle, IInv, HoldsARead
      <4>2. outcome' = outcome \/ CompleteCurrent("TIMEOUT", 0, "WAIT_TIMEOUT")
        BY <3>1 DEF HandleWaitTimeout, KeepOutcome
      <4>3. outcome' = outcome \/ \E r \in Requests : EndsOtherwise(r)
        BY <4>1, <4>2, EndsCurrentOtherwise, EndingStrings
      <4> QED
        BY <3>1, <4>3 DEF HandleWaitTimeout, Handle, KeepSocketEvent
    <3>2. CASE HandleSocketEvent \/ HandleReadQueueEvent
      BY <3>2 DEF HandleSocketEvent, HandleReadQueueEvent, Handle, KeepOutcome,
         KeepSocketEvent
    <3>3. CASE HandleThreadEvent
      <4>1. outcome' = outcome
              \/ (current # None /\ CompleteCurrent("CANCELLED", 0, "ThreadEvent"))
        BY <3>3 DEF HandleThreadEvent, KeepOutcome
      <4>2. outcome' = outcome \/ \E r \in Requests : EndsOtherwise(r)
        BY <4>1, EndsCurrentOtherwise, EndingStrings
      <4> QED
        BY <3>3, <4>2 DEF HandleThreadEvent
    <3>4. CASE HandleIntervalTimerEvent
      <4>1. outcome' = outcome \/ (current # None /\
                CompleteCurrent("CANCELLED", info[current], "IntervalTimerEvent"))
        BY <3>4 DEF HandleIntervalTimerEvent, KeepOutcome
      <4>2. outcome' = outcome \/ \E r \in Requests : EndsOtherwise(r)
        BY <4>1, EndsCurrentOtherwise, EndingStrings
      <4> QED
        BY <3>4, <4>2 DEF HandleIntervalTimerEvent, Handle, KeepSocketEvent
    <3>5. CASE HandleTotalTimerEvent
      <4>1. outcome' = outcome \/ (current # None /\
                CompleteCurrent("CANCELLED", info[current], "TotalTimerEvent"))
        BY <3>5 DEF HandleTotalTimerEvent, KeepOutcome
      <4>2. outcome' = outcome \/ \E r \in Requests : EndsOtherwise(r)
        BY <4>1, EndsCurrentOtherwise, EndingStrings
      <4> QED
        BY <3>5, <4>2 DEF HandleTotalTimerEvent, Handle, KeepSocketEvent
    <3> QED
      BY <2>4, <3>1, <3>2, <3>3, <3>4, <3>5 DEF HandleEvent
  <2> QED
    BY <1>4, <2>1, <2>2, <2>3, <2>4 DEF ClientThread
<1>5. CASE UNCHANGED vars
  BY <1>5 DEF vars
<1> QED
  BY <1>1, <1>2, <1>3, <1>4, <1>5 DEF Next

(* A read is queued only when it is issued, and stays issued.              *)
LEMMA QueuedWhenIssued ==
    ASSUME IInv, [Next]_vars, NEW q \in Requests
    PROVE  /\ Issued(q) => Issued(q)'
           /\ Queued(q)' => Queued(q) \/ ~Issued(q)
<1> USE DEF Issued, Queued
<1>0. readQueue \in Seq(Requests)
  BY DEF IInv, TypeOK, OwnerTypes
<1>1. CASE LeavesReads \/ EndsHeld
  BY <1>1 DEF LeavesReads, EndsHeld, Ends
<1>2. ASSUME NEW r \in Requests, NEW n \in 1 .. MaxLength,
             EvtIoRead(r, n) \/ EvtIoReadFails(r, n)
      PROVE  /\ Issued(q) => Issued(q)'
             /\ Queued(q)' => Queued(q) \/ ~Issued(q)
  <2>1. length \in [Requests -> 0 .. MaxLength] /\ length' = [length EXCEPT ![r] = n]
        /\ ~Issued(r)
    BY <1>2 DEF IInv, TypeOK, RequestTypes, EvtIoRead, EvtIoReadFails
  <2>2. readQueue' = readQueue \/ readQueue' = Append(readQueue, r)
    BY <1>2 DEF EvtIoRead, EvtIoReadFails
  <2>3. Queued(q)' => Queued(q) \/ q = r
    BY <1>0, <2>2, AppendProperties, LenProperties
  <2> QED
    BY <2>1, <2>3
<1>3. ASSUME NEW r \in Requests, CancelQueued(r)
      PROVE  /\ Issued(q) => Issued(q)'
             /\ Queued(q)' => Queued(q) \/ ~Issued(q)
  <2>1. PICK i \in DOMAIN readQueue :
            readQueue' = RemoveAt(readQueue, i) /\ UNCHANGED length
    BY <1>3 DEF CancelQueued
  <2>2. i \in 1 .. Len(readQueue) /\ DOMAIN readQueue = 1 .. Len(readQueue)
        /\ Len(readQueue) \in Nat
    BY <1>0, <2>1, LenProperties
  <2>3. /\ DOMAIN readQueue' = 1 .. Len(readQueue) - 1
        /\ \A j \in 1 .. Len(readQueue) - 1 :
               readQueue'[j] = IF j < i THEN readQueue[j] ELSE readQueue[j + 1]
    BY <1>0, <2>1, <2>2, RemoveAtProperties, LenProperties
  <2> QED
    BY <2>1, <2>2, <2>3
<1>4. CASE Dequeue
  <2>1. readQueue # << >> /\ readQueue' = Tail(readQueue) /\ UNCHANGED length
    BY <1>4 DEF Dequeue, requestVars
  <2>2. /\ DOMAIN readQueue' = 1 .. Len(readQueue) - 1
        /\ \A j \in 1 .. Len(readQueue) - 1 : readQueue'[j] = readQueue[j + 1]
        /\ DOMAIN readQueue = 1 .. Len(readQueue) /\ Len(readQueue) \in Nat
    BY <1>0, <2>1, HeadTailProperties, LenProperties
  <2> QED
    BY <2>1, <2>2
<1>5. CASE \E n \in 1 .. MaxLength : RecvData(n)
  BY <1>5 DEF RecvData
<1> QED
  BY <1>1, <1>2, <1>3, <1>4, <1>5, StepKinds

(* A read that is cancelled was held by the thread, or leaves the queue.   *)
LEMMA CancelHeldEffect ==
    ASSUME IInv, NEW r \in Requests, CancelHeld(r)
    PROVE  /\ r \notin cancelled /\ cancelled' = cancelled \cup {r}
           /\ cancelling' \in {cancelling, cancelling \cup {r}}
           /\ UNCHANGED <<signaled, pc, outcome, length, readQueue>>
           /\ r = current /\ current # None
BY DEF CancelHeld, requestVars, eventVars, threadVars

LEMMA CancelQueuedEffect ==
    ASSUME IInv, NEW r \in Requests, CancelQueued(r)
    PROVE  /\ Issued(r) /\ Queued(r) /\ outcome[r].status = Pending
           /\ cancelled' = cancelled \cup {r}
           /\ UNCHANGED <<cancelling, signaled, pc>>
           /\ outcome' = [outcome EXCEPT ![r] = Outcome("CANCELLED", 0, "queue")]
BY DEF CancelQueued, Complete, eventVars, threadVars, Queued, IInv, Placement,
       EachReadInOnePlace, IsPending

LEMMA IssuedStep == IInv /\ StrayInv /\ [Next]_vars => CancelledWasIssued'
<1> SUFFICES ASSUME IInv, StrayInv, [Next]_vars PROVE CancelledWasIssued'
    OBVIOUS
<1> USE DEF StrayInv
<1>0. cancelled \subseteq Requests
  BY DEF IInv, TypeOK, OwnerTypes
<1>1. ASSUME NEW q \in cancelled PROVE Issued(q)' /\ ~Queued(q)'
  BY <1>0, QueuedWhenIssued DEF CancelledWasIssued
<1>2. ASSUME NEW r \in Requests, CancelHeld(r)
      PROVE  CancelledWasIssued'
  <2>1. Issued(r)' /\ ~Queued(r)'
    BY <1>2, CancelHeldEffect, CurrentIsPending, QueuedWhenIssued
  <2> QED
    BY <1>1, <1>2, <2>1, CancelHeldEffect DEF CancelledWasIssued
<1>3. ASSUME NEW r \in Requests, CancelQueued(r)
      PROVE  CancelledWasIssued'
  <2>1. Issued(r)'
    BY <1>3, CancelQueuedEffect, QueuedWhenIssued
  <2>2. outcome'[r].status # Pending
    BY <1>3, CancelQueuedEffect DEF Outcome, Pending, IInv, TypeOK, RequestTypes
  <2>3. ~Queued(r)'
    BY <2>2, PlacementStep DEF Placement, EachReadInOnePlace, IsPending
  <2> QED
    BY <1>1, <1>3, <2>1, <2>3, CancelQueuedEffect DEF CancelledWasIssued
<1>4. ASSUME NEW r \in Requests, EvtReadRequestCancel(r)
      PROVE  CancelledWasIssued'
  BY <1>1, <1>4 DEF EvtReadRequestCancel, CancelCallback, CancelledWasIssued
<1>5. CASE Wake \/ HandleCancelEvent \/ KeepsAnnouncements
  <2>1. UNCHANGED <<cancelled, cancelling>>
    BY <1>5 DEF Wake, HandleCancelEvent, Handle, KeepsAnnouncements, cancelVars
  <2> QED
    BY <1>1, <2>1 DEF CancelledWasIssued
<1> QED
  BY <1>2, <1>3, <1>4, <1>5, AnnouncementKinds

(* HandleCancelEvent ends the held read, if there is one.                  *)
LEMMA HandleCancelEffect ==
    ASSUME IInv, HandleCancelEvent
    PROVE  /\ pc = "CancelEvent" /\ pc' = "loop"
           /\ UNCHANGED <<cancelled, cancelling, signaled>>
           /\ \/ current = None /\ UNCHANGED outcome
              \/ /\ current # None
                 /\ outcome' = [outcome EXCEPT ![current] =
                                    Outcome("CANCELLED", 0, "CancelEvent")]
BY DEF HandleCancelEvent, Handle, CompleteCurrent, Complete, KeepOutcome,
       KeepSocketEvent

LEMMA SitesStep == IInv /\ StrayInv /\ [Next]_vars => SitesTell'
<1> SUFFICES ASSUME IInv, StrayInv, [Next]_vars PROVE SitesTell'
    OBVIOUS
<1> USE DEF StrayInv, SitesTell
<1>0. outcome \in [Requests -> [status : Statuses, information : 0 .. MaxLength,
                                by : Sites]]
  BY DEF IInv, TypeOK, RequestTypes
<1>1. ASSUME NEW r \in Requests, NEW s, s # Pending, NEW n, NEW site, site # "none",
             outcome' = [outcome EXCEPT ![r] = Outcome(s, n, site)]
      PROVE  SitesTell'
  BY <1>0, <1>1 DEF Outcome
<1>2. CASE \E r \in Requests : CancelHeld(r) \/ EvtReadRequestCancel(r)
  BY <1>2 DEF CancelHeld, EvtReadRequestCancel, CancelCallback, requestVars
<1>3. ASSUME NEW r \in Requests, CancelQueued(r)
      PROVE  SitesTell'
  BY <1>1, <1>3, CancelQueuedEffect DEF Pending
<1>4. CASE HandleCancelEvent
  <2>1. CASE UNCHANGED outcome
    BY <2>1
  <2>2. CASE ~UNCHANGED outcome
    BY <1>1, <1>4, <2>2, HandleCancelEffect, CurrentIsPending DEF Pending
  <2> QED
    BY <2>1, <2>2
<1>5. CASE Wake
  BY <1>5 DEF Wake, requestVars
<1>6. CASE KeepsAnnouncements
  <2>1. CASE UNCHANGED outcome
    BY <2>1
  <2>2. ASSUME NEW r \in Requests, EndsOtherwise(r)
        PROVE  SitesTell'
    <3>1. PICK s \in Statuses \ {Pending}, n \in 0 .. MaxLength,
              site \in Sites \ {"none", "queue", "CancelEvent"} :
                  Complete(r, s, n, site)
      BY <2>2 DEF EndsOtherwise
    <3>2. s # Pending /\ site # "none"
      OBVIOUS
    <3> QED
      BY <1>1, <3>1, <3>2 DEF Complete
  <2> QED
    BY <1>6, <2>1, <2>2 DEF KeepsAnnouncements
<1> QED
  BY <1>2, <1>3, <1>4, <1>5, <1>6, AnnouncementKinds

----------------------------------------------------------------------------

LEMMA AccountsAreFinite ==
    ASSUME IInv, StrayInv
    PROVE  /\ IsFiniteSet(cancelling) /\ IsFiniteSet(CancelledHeld)
           /\ IsFiniteSet(CancelledAndEnded)
           /\ Cardinality(cancelling) \in Nat /\ Cardinality(EndedByCancel) \in Nat
           /\ Cardinality(CancelledHeld) \in Nat
           /\ Cardinality(CancelledAndEnded) \in Nat
<1>1. /\ cancelling \in SUBSET cancelled /\ CancelledHeld \in SUBSET cancelled
      /\ CancelledAndEnded \in SUBSET cancelled
  BY DEF StrayInv, CancelledWasIssued, CancelledHeld, CancelledAndEnded
<1> QED
  BY <1>1, FS_Subset, FS_CardinalityType DEF StrayInv, Accounts

(* A read that was cancelled and is not completed is the held one.         *)
LEMMA CancelledNotEnded ==
    ASSUME IInv, StrayInv
    PROVE  CancelledHeld \ CancelledAndEnded \subseteq {current}
<1>1. ASSUME NEW r \in CancelledHeld, r \notin CancelledAndEnded
      PROVE  r = current
  <2>1. r \in cancelled /\ r \in Requests /\ outcome[r].by = "none"
    BY <1>1 DEF CancelledHeld, CancelledAndEnded, IInv, TypeOK, OwnerTypes
  <2>2. IsPending(r) /\ ~Queued(r)
    BY <2>1 DEF StrayInv, SitesTell, CancelledWasIssued, IsPending
  <2> QED
    BY <2>1, <2>2 DEF IInv, Placement, EachReadInOnePlace
<1> QED
  BY <1>1

(* The accounts of a step that ends no read by CancelEvent and cancels     *)
(* none: what was announced may be forgotten, what was paid stays.         *)
LEMMA AccountsKept ==
    ASSUME IInv, StrayInv, UNCHANGED cancelled, UNCHANGED EndedByCancel,
           UNCHANGED CancelledHeld, CancelledAndEnded \subseteq CancelledAndEnded',
           Announced' <= Announced, Announced' \in Int, Announced \in Int
    PROVE  Accounts'
<1>1. IsFiniteSet(CancelledAndEnded') /\ CancelledAndEnded \in SUBSET CancelledAndEnded'
  <2>1. CancelledAndEnded' \in SUBSET cancelled
    BY DEF CancelledAndEnded
  <2> QED
    BY <2>1, FS_Subset DEF StrayInv, Accounts
<1>2. Cardinality(CancelledAndEnded) <= Cardinality(CancelledAndEnded')
      /\ Cardinality(CancelledAndEnded') \in Nat
  BY <1>1, FS_Subset, FS_CardinalityType
<1> QED
  BY <1>2, AccountsAreFinite DEF StrayInv, Accounts

LEMMA AnnouncedType ==
    ASSUME IInv, StrayInv
    PROVE  Announced \in Nat
BY AccountsAreFinite DEF Announced

LEMMA AccountsStep == IInv /\ StrayInv /\ [Next]_vars => Accounts'
<1> SUFFICES ASSUME IInv, StrayInv, [Next]_vars PROVE Accounts'
    OBVIOUS
<1> DEFINE OutcomeTypes == [status : Statuses, information : 0 .. MaxLength, by : Sites]
<1>0. /\ outcome \in [Requests -> OutcomeTypes] /\ cancelled \subseteq Requests
      /\ "CancelEvent" \in Events
  BY DEF IInv, TypeOK, RequestTypes, OwnerTypes, Events
<1>00. /\ Cardinality(cancelling) \in Nat /\ Cardinality(EndedByCancel) \in Nat
       /\ Cardinality(CancelledHeld) \in Nat /\ Announced \in Nat
       /\ Cardinality(CancelledAndEnded) \in Nat
       /\ IsFiniteSet(cancelling) /\ IsFiniteSet(CancelledHeld)
       /\ IsFiniteSet(CancelledAndEnded)
       /\ IsFiniteSet(cancelled) /\ IsFiniteSet(EndedByCancel)
       /\ Cardinality(EndedByCancel) + Announced <= Cardinality(CancelledHeld)
       /\ Cardinality(EndedByCancel) <= Cardinality(CancelledAndEnded)
  BY AccountsAreFinite, AnnouncedType DEF StrayInv, Accounts
<1> HIDE DEF OutcomeTypes
<1>1. ASSUME NEW r \in Requests, CancelHeld(r)
      PROVE  Accounts'
  <2>1. /\ r \notin cancelled /\ cancelled' = cancelled \cup {r}
        /\ cancelling' \in {cancelling, cancelling \cup {r}}
        /\ UNCHANGED <<signaled, pc, outcome>>
        /\ r = current /\ current # None
    BY <1>1, CancelHeldEffect
  <2>2. outcome[r].by = "none"
    BY <2>1, CurrentIsPending DEF StrayInv, SitesTell
  <2>3. /\ EndedByCancel' = EndedByCancel /\ CancelledHeld' = CancelledHeld \cup {r}
        /\ CancelledAndEnded' = CancelledAndEnded /\ r \notin CancelledHeld
    BY <2>1, <2>2 DEF EndedByCancel, CancelledHeld, CancelledAndEnded
  <2>4. /\ Cardinality(CancelledHeld') = Cardinality(CancelledHeld) + 1
        /\ IsFiniteSet(cancelled')
    BY <1>00, <2>1, <2>3, FS_AddElement
  <2>5. /\ Cardinality(cancelling') <= Cardinality(cancelling) + 1
        /\ Cardinality(cancelling') \in Nat
    <3>1. Cardinality(cancelling \cup {r}) \in {Cardinality(cancelling),
                                               Cardinality(cancelling) + 1}
      BY <1>00, FS_AddElement
    <3> QED
      BY <1>00, <2>1, <3>1
  <2>6. Announced' <= Announced + 1 /\ Announced' \in Nat
    BY <1>00, <2>1, <2>5 DEF Announced
  <2> QED
    BY <1>00, <2>3, <2>4, <2>6 DEF Accounts
<1>2. ASSUME NEW r \in Requests, CancelQueued(r)
      PROVE  Accounts'
  <2>1. /\ Queued(r) /\ outcome[r].status = Pending
        /\ cancelled' = cancelled \cup {r}
        /\ UNCHANGED <<cancelling, signaled, pc>>
        /\ outcome' = [outcome EXCEPT ![r] = Outcome("CANCELLED", 0, "queue")]
    BY <1>2, CancelQueuedEffect
  <2>2. outcome[r].by = "none" /\ r \notin cancelled
    BY <2>1 DEF StrayInv, SitesTell, CancelledWasIssued
  <2>3. /\ outcome'[r].by = "queue"
        /\ \A q \in Requests \ {r} : outcome'[q] = outcome[q]
    BY <1>0, <2>1 DEF Outcome
  <2>4. /\ EndedByCancel' = EndedByCancel /\ CancelledHeld' = CancelledHeld
        /\ CancelledAndEnded' = CancelledAndEnded
    BY <1>0, <2>1, <2>2, <2>3 DEF EndedByCancel, CancelledHeld, CancelledAndEnded
  <2>5. Announced' = Announced /\ IsFiniteSet(cancelled')
    BY <1>00, <2>1, FS_AddElement DEF Announced
  <2> QED
    BY <1>00, <2>4, <2>5 DEF Accounts
<1>3. ASSUME NEW r \in Requests, EvtReadRequestCancel(r)
      PROVE  Accounts'
  <2>1. /\ r \in cancelling /\ cancelling' = cancelling \ {r}
        /\ UNCHANGED <<cancelled, pc, outcome>>
    BY <1>3 DEF EvtReadRequestCancel, CancelCallback, threadVars, requestVars
  <2>2. Cardinality(cancelling') = Cardinality(cancelling) - 1
    BY <1>00, <2>1, FS_RemoveElement
  <2>3. Announced' <= Announced /\ Announced' \in Int
    BY <1>00, <2>1, <2>2 DEF Announced
  <2>4. UNCHANGED <<EndedByCancel, CancelledHeld, CancelledAndEnded>>
    BY <2>1 DEF EndedByCancel, CancelledHeld, CancelledAndEnded
  <2> QED
    BY <1>00, <2>1, <2>3, <2>4, AccountsKept
<1>4. CASE Wake
  <2>1. /\ UNCHANGED <<cancelled, cancelling, outcome>>
        /\ pc = "wait"
    BY <1>4 DEF Wake, requestVars, cancelVars
  <2>2. PICK i \in DOMAIN EventArray :
          /\ EventArray[i] \in signaled /\ pc' = EventArray[i]
          /\ signaled' = signaled \ ({EventArray[i]} \ ManualResetEvents)
    BY <1>4 DEF Wake
  <2>3. Announced' <= Announced /\ Announced' \in Int
    <3>1. CASE EventArray[i] = "CancelEvent"
      BY <1>00, <2>1, <2>2, <3>1 DEF Announced, ManualResetEvents
    <3>2. CASE EventArray[i] # "CancelEvent"
      BY <1>00, <2>1, <2>2, <3>2 DEF Announced
    <3> QED
      BY <3>1, <3>2
  <2>4. UNCHANGED <<EndedByCancel, CancelledHeld, CancelledAndEnded>>
    BY <2>1 DEF EndedByCancel, CancelledHeld, CancelledAndEnded
  <2> QED
    BY <1>00, <2>1, <2>3, <2>4, AccountsKept
<1>5. CASE HandleCancelEvent
  <2>1. /\ pc = "CancelEvent" /\ pc' = "loop"
        /\ UNCHANGED <<cancelled, cancelling, signaled>>
    BY <1>5, HandleCancelEffect
  <2>2. Announced' = Announced - 1 /\ Announced' \in Int
    BY <1>00, <2>1 DEF Announced
  <2>3. CASE UNCHANGED outcome
    <3>1. UNCHANGED <<EndedByCancel, CancelledHeld, CancelledAndEnded>>
      BY <2>1, <2>3 DEF EndedByCancel, CancelledHeld, CancelledAndEnded
    <3> QED
      BY <1>00, <2>1, <2>2, <3>1, AccountsKept
  <2>4. CASE ~UNCHANGED outcome
    <3>1. /\ current \in Requests /\ outcome[current].by = "none"
          /\ outcome' = [outcome EXCEPT ![current] =
                            Outcome("CANCELLED", 0, "CancelEvent")]
      BY <1>5, <2>4, HandleCancelEffect, CurrentIsPending DEF StrayInv, SitesTell
    <3>2. /\ outcome'[current].by = "CancelEvent"
          /\ \A q \in Requests \ {current} : outcome'[q] = outcome[q]
      BY <1>0, <3>1 DEF Outcome
    <3>3. /\ EndedByCancel' = EndedByCancel \cup {current}
          /\ CancelledHeld' = CancelledHeld
          /\ current \notin EndedByCancel
      BY <1>0, <2>1, <3>1, <3>2 DEF EndedByCancel, CancelledHeld
    <3>4. CancelledAndEnded' = CancelledHeld'
      <4>1. CancelledHeld \subseteq CancelledAndEnded \cup {current}
        BY CancelledNotEnded
      <4> QED
        BY <1>0, <2>1, <3>2, <3>3, <4>1 DEF CancelledHeld, CancelledAndEnded
    <3>5. /\ Cardinality(EndedByCancel') = Cardinality(EndedByCancel) + 1
          /\ IsFiniteSet(EndedByCancel')
      BY <1>00, <3>3, FS_AddElement
    <3>6. Announced' \in Nat
      BY <1>00, <2>1 DEF Announced
    <3> QED
      BY <1>00, <2>1, <2>2, <3>3, <3>4, <3>5, <3>6 DEF Accounts
  <2> QED
    BY <2>3, <2>4
<1>6. CASE KeepsAnnouncements
  <2>1. /\ UNCHANGED <<cancelled, cancelling>>
        /\ outcome' = outcome \/ \E r \in Requests : EndsOtherwise(r)
    BY <1>6 DEF KeepsAnnouncements
  <2>2. Announced' = Announced
    BY <1>6 DEF KeepsAnnouncements, Announced
  <2>3. CASE UNCHANGED outcome
    <3>1. UNCHANGED <<EndedByCancel, CancelledHeld, CancelledAndEnded>>
      BY <2>1, <2>3 DEF EndedByCancel, CancelledHeld, CancelledAndEnded
    <3> QED
      BY <1>00, <2>1, <2>2, <3>1, AccountsKept
  <2>4. ASSUME NEW r \in Requests, EndsOtherwise(r)
        PROVE  Accounts'
    <3>1. PICK s \in Statuses \ {Pending}, n \in 0 .. MaxLength,
              site \in Sites \ {"none", "queue", "CancelEvent"} :
                  outcome' = [outcome EXCEPT ![r] = Outcome(s, n, site)]
      BY <2>4 DEF EndsOtherwise, Complete
    <3>2. outcome[r].by = "none"
      BY <2>4 DEF EndsOtherwise, StrayInv, SitesTell
    <3>3. /\ outcome'[r].by = site
          /\ \A q \in Requests \ {r} : outcome'[q] = outcome[q]
      BY <1>0, <3>1 DEF Outcome
    <3>4. EndedByCancel' = EndedByCancel /\ CancelledHeld' = CancelledHeld
      BY <1>0, <2>1, <3>2, <3>3 DEF EndedByCancel, CancelledHeld
    <3>5. CancelledAndEnded \subseteq CancelledAndEnded'
      BY <1>0, <2>1, <3>2, <3>3 DEF CancelledAndEnded
    <3> QED
      BY <1>00, <2>1, <2>2, <3>4, <3>5, AccountsKept
  <2> QED
    BY <2>1, <2>3, <2>4
<1> QED
  BY <1>1, <1>2, <1>3, <1>4, <1>5, <1>6, AnnouncementKinds

LEMMA AccountsSuffice == IInv /\ StrayInv => StrayCancelsAreAccountedFor
<1> SUFFICES ASSUME IInv, StrayInv PROVE StrayCancelsAreAccountedFor
    OBVIOUS
<1> DEFINE stray     == EndedByCancel \ cancelled
           own       == EndedByCancel \cap cancelled
           otherwise == {r \in cancelled :
                           outcome[r].by \notin {"none", "queue", "CancelEvent"}}
<1>1. /\ IsFiniteSet(stray) /\ IsFiniteSet(own) /\ IsFiniteSet(otherwise)
  <2>1. stray \in SUBSET EndedByCancel /\ own \in SUBSET EndedByCancel
        /\ otherwise \in SUBSET cancelled
    OBVIOUS
  <2> QED
    BY <2>1, FS_Subset DEF StrayInv, Accounts
<1>2. /\ stray \cup own = EndedByCancel /\ stray \cap own = {}
      /\ otherwise \cap own = {}
  BY DEF EndedByCancel
<1>3. otherwise \cup own = CancelledAndEnded
  BY DEF EndedByCancel, CancelledAndEnded, IInv, TypeOK, OwnerTypes
<1>4. /\ Cardinality(stray) \in Nat /\ Cardinality(own) \in Nat
      /\ Cardinality(otherwise) \in Nat
  BY <1>1, FS_CardinalityType
<1>5. /\ Cardinality(EndedByCancel) = Cardinality(stray) + Cardinality(own)
      /\ Cardinality(CancelledAndEnded) = Cardinality(otherwise) + Cardinality(own)
  <2> HIDE DEF stray, own, otherwise
  <2>1. /\ Cardinality(stray \cup own) = Cardinality(stray) + Cardinality(own)
                                           - Cardinality(stray \cap own)
        /\ Cardinality(otherwise \cup own) = Cardinality(otherwise) + Cardinality(own)
                                               - Cardinality(otherwise \cap own)
    BY <1>1, FS_Union
  <2>2. Cardinality(stray \cap own) = 0 /\ Cardinality(otherwise \cap own) = 0
    BY <1>2, FS_EmptySet
  <2>3. /\ Cardinality(EndedByCancel) = Cardinality(stray \cup own)
        /\ Cardinality(CancelledAndEnded) = Cardinality(otherwise \cup own)
    BY <1>2, <1>3
  <2> QED
    BY <1>4, <2>1, <2>2, <2>3
<1>6. Cardinality(stray) <= Cardinality(otherwise)
  <2> HIDE DEF stray, own, otherwise
  <2> QED
    BY <1>4, <1>5 DEF StrayInv, Accounts
<1> QED
  BY <1>6 DEF StrayCancelsAreAccountedFor, EndedByCancel

(* CancelEvent ends a read that nobody cancelled at most as often as a     *)
(* cancelled read was completed on another path.                           *)
THEOREM StrayCancelsArePaidFor == Spec => []StrayCancelsAreAccountedFor
<1>1. IInv /\ StrayInv /\ [Next]_vars => StrayInv'
  BY SitesStep, IssuedStep, AccountsStep DEF StrayInv
<1> QED
  BY StrayInit, <1>1, AccountsSuffice, Inductive, PTL DEF Spec

============================================================================
