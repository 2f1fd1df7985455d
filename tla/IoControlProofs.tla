--------------------------- MODULE IoControlProofs ---------------------------
(***************************************************************************)
(* Of IoControl, for any number of WAIT_ON_MASKs and any settings: the     *)
(* types; that a WAIT_ON_MASK is in one place and completed once, and that *)
(* at most one waits; that they implement WaitSlot; and that               *)
(* GET_LINE_CONTROL returns what was accepted.                             *)
(***************************************************************************)
EXTENDS IoControl, TLAPS

WaitInv == /\ waitMaskQueue \subseteq issued /\ issued \subseteq Waits
           /\ purged \in BOOLEAN
           /\ answers \in [Waits -> Nat]
           /\ DOMAIN waitStatus = Waits
           /\ purged => waitMaskQueue = {}
           /\ OneWaiter /\ EachWaitInOnePlace

RegisterInv == /\ stored \in [Registers -> Values]
               /\ traceLevel \in 0 .. TraceLevelMax
               /\ timeouts \in Timeouts \ {AllMaxUlong}
               /\ lineControl \in LineRegisters
               /\ validDataMask \in {0, 31, 63, 127, 255}
               /\ accepted \in LineSettings \cup {None}
               /\ LineControlIsWhatWasSet

(* A request that the queue gave is one of those that waited, and the only *)
(* one.                                                                    *)
LEMMA RetrievedIsTheWaiter ==
    ASSUME OneWaiter, NEW ws \in SUBSET waitMaskQueue, Retrieved(ws)
    PROVE  ws = waitMaskQueue
<1>1. CASE waitMaskQueue = {}
  BY <1>1
<1>2. CASE \E w \in waitMaskQueue : ws = {w}
  <2>1. PICK w \in waitMaskQueue : ws = {w}
    BY <1>2
  <2>. QED
    BY <2>1 DEF OneWaiter
<1>. QED
  BY <1>1, <1>2 DEF Retrieved

(* Completing requests that wait, and the one being issued, once each.     *)
LEMMA CompletedAnswers ==
    ASSUME WaitInv, NEW ws \in SUBSET Waits, NEW status, Complete(ws, status)
    PROVE  /\ answers' \in [Waits -> Nat]
           /\ DOMAIN waitStatus' = Waits
           /\ \A w \in Waits : answers'[w] = IF w \in ws THEN answers[w] + 1 ELSE answers[w]
BY DEF WaitInv, Complete

LEMMA WaitOnMaskKeepsWaitInv ==
    ASSUME WaitInv, NEW w \in Waits, WaitOnMask(w)
    PROVE  WaitInv'
<1>1. PICK ws \in SUBSET waitMaskQueue :
         /\ Retrieved(ws)
         /\ waitMaskQueue' = (waitMaskQueue \ ws) \cup (IF purged THEN {} ELSE {w})
         /\ Complete(ws \cup (IF purged THEN {w} ELSE {}),
                     [v \in Waits |-> IF v = w THEN "busy" ELSE "unsuccessful"])
  BY DEF WaitOnMask
<1>2. ws = waitMaskQueue
  BY <1>1, RetrievedIsTheWaiter DEF WaitInv
<1>3. /\ w \notin issued /\ issued' = issued \cup {w} /\ purged' = purged
      /\ waitMaskQueue' = IF purged THEN {} ELSE {w}
  BY <1>1, <1>2 DEF WaitOnMask
<1> DEFINE done == ws \cup (IF purged THEN {w} ELSE {})
<1>4. done \subseteq Waits /\ done = (issued' \ waitMaskQueue') \ (issued \ waitMaskQueue)
  BY <1>2, <1>3 DEF WaitInv
<1>5. /\ answers' \in [Waits -> Nat]
      /\ DOMAIN waitStatus' = Waits
      /\ \A v \in Waits : answers'[v] = IF v \in done THEN answers[v] + 1 ELSE answers[v]
  BY <1>1, <1>4, CompletedAnswers
<1>6. EachWaitInOnePlace'
  BY <1>2, <1>3, <1>4, <1>5 DEF WaitInv, EachWaitInOnePlace, OneWaiter
<1>. QED
  BY <1>3, <1>5, <1>6 DEF WaitInv, OneWaiter

(* Requests leave the queue completed: by SET_WAIT_MASK and the framework. *)
LEMMA LeavingTheQueue ==
    ASSUME WaitInv, NEW ws \in SUBSET waitMaskQueue, NEW status, Complete(ws, status),
           waitMaskQueue' = waitMaskQueue \ ws, issued' = issued,
           purged' \in BOOLEAN, purged' => purged \/ ws = waitMaskQueue
    PROVE  WaitInv'
<1>1. ws \subseteq Waits
  BY DEF WaitInv
<1>2. /\ answers' \in [Waits -> Nat]
      /\ DOMAIN waitStatus' = Waits
      /\ \A v \in Waits : answers'[v] = IF v \in ws THEN answers[v] + 1 ELSE answers[v]
  BY <1>1, CompletedAnswers
<1>3. EachWaitInOnePlace'
  BY <1>1, <1>2 DEF WaitInv, EachWaitInOnePlace, OneWaiter
<1>. QED
  BY <1>2, <1>3 DEF WaitInv, OneWaiter

LEMMA WaitStep == WaitInv /\ [IoNext]_ioVars => WaitInv'
<1> SUFFICES ASSUME WaitInv, [IoNext]_ioVars PROVE WaitInv'
  OBVIOUS
<1>1. CASE UNCHANGED waitVars
  BY <1>1 DEF WaitInv, waitVars, OneWaiter, EachWaitInOnePlace
<1>2. ASSUME NEW w \in Waits, WaitOnMask(w) PROVE WaitInv'
  BY <1>2, WaitOnMaskKeepsWaitInv
<1>3. CASE SetWaitMask
  <2>1. PICK ws \in SUBSET waitMaskQueue :
           /\ waitMaskQueue' = waitMaskQueue \ ws
           /\ Complete(ws, [v \in Waits |-> Copied(v \notin SmallWaits)])
    BY <1>3 DEF SetWaitMask
  <2>2. issued' = issued /\ purged' = purged /\ purged \in BOOLEAN
    BY <1>3 DEF SetWaitMask, WaitInv
  <2>. QED
    BY <2>1, <2>2, LeavingTheQueue
<1>4. ASSUME NEW w \in Waits, CancelWait(w) PROVE WaitInv'
  <2>1. /\ {w} \in SUBSET waitMaskQueue /\ waitMaskQueue' = waitMaskQueue \ {w}
        /\ Complete({w}, [v \in Waits |-> "cancelled"])
        /\ issued' = issued /\ purged' = purged /\ purged \in BOOLEAN
    BY <1>4 DEF CancelWait, WaitInv
  <2>. QED
    BY <2>1, LeavingTheQueue
<1>5. CASE Purge
  <2>1. /\ waitMaskQueue' = waitMaskQueue \ waitMaskQueue
        /\ Complete(waitMaskQueue, [v \in Waits |-> "cancelled"])
        /\ issued' = issued /\ purged' \in BOOLEAN
    BY <1>5 DEF Purge
  <2>. QED
    BY <2>1, LeavingTheQueue
<1>. QED
  BY <1>1, <1>2, <1>3, <1>4, <1>5
  DEF IoNext, ioVars, Identify, Pretend, UnknownCode, GetCode, SetCode, LineCode,
      WaitCode, Framework, GetStored, GetLogLevel, Report, GetTimeouts, GetLineControl,
      Reports, SetStored, SetLogLevel, SetTimeouts, SetLineControl,
      SetLineControlTooSmall

(* Decoding undoes encoding, for every setting that is accepted: each      *)
(* parity has its own bits, and 1.5 and 2 stop bits, which share theirs,   *)
(* are told apart by the length of the word.                               *)
LEMMA DecodeAfterEncode ==
    ASSUME NEW s \in LineSettings, Accepts(s), NEW register,
           register = NewLineControl(s)
    PROVE  Decode(register) = s
<1>1. /\ s \in [wordLength : Nat, stopBits : STRING, parity : STRING]
      /\ s.wordLength \in 5 .. 8 /\ s.parity \in Parities
      /\ s.stopBits \in {"1", IF s.wordLength = 5 THEN "1.5" ELSE "2"}
  BY IoControlAssumption DEF Accepts, StopOK, WordOK
<1>2. /\ register.data = s.wordLength - 5
      /\ register.stop = IF s.stopBits # "1" THEN 1 ELSE 0
      /\ register.parity = ParityBits[s.parity]
  BY DEF NewLineControl, Accepts, StopOK
<1>3. \A p, q \in Parities : ParityBits[p] = ParityBits[q] => p = q
  BY DEF Parities, ParityBits
<1>4. Decode(register).parity = s.parity
  BY <1>1, <1>2, <1>3 DEF Decode
<1>5. Decode(register).wordLength = s.wordLength
  BY <1>1, <1>2 DEF Decode
<1>6. Decode(register).stopBits = s.stopBits
  BY <1>1, <1>2 DEF Decode
<1>. QED
  BY <1>1, <1>4, <1>5, <1>6 DEF Decode

LEMMA EncodeIsARegister ==
    ASSUME NEW s \in LineSettings, lineControl \in LineRegisters
    PROVE  NewLineControl(s) \in LineRegisters
<1>1. (IF WordOK(s) THEN s.wordLength - 5 ELSE 0) \in 0 .. 3
  BY DEF WordOK
<1>2. (IF Accepts(s) THEN ParityBits[s.parity] ELSE 0) \in 0 .. 7
  BY DEF Accepts, Parities, ParityBits
<1>3. lineControl.break \in 0 .. 1
  BY DEF LineRegisters
<1>. QED
  BY <1>1, <1>2, <1>3 DEF NewLineControl, LineRegisters

LEMMA RegisterStep == RegisterInv /\ [IoNext]_ioVars => RegisterInv'
<1> SUFFICES ASSUME RegisterInv, [IoNext]_ioVars PROVE RegisterInv'
  OBVIOUS
<1> USE IoControlAssumption
<1>1. CASE UNCHANGED registerVars
  BY <1>1 DEF RegisterInv, registerVars, LineControlIsWhatWasSet
<1>2. ASSUME NEW r \in Registers, NEW value \in Values, NEW fits \in BOOLEAN,
             SetStored(r, value, fits)
      PROVE  RegisterInv'
  BY <1>2 DEF SetStored, RegisterInv, LineControlIsWhatWasSet
<1>3. ASSUME NEW level \in Levels, NEW fits \in BOOLEAN, SetLogLevel(level, fits)
      PROVE  RegisterInv'
  BY <1>3 DEF SetLogLevel, RegisterInv, LineControlIsWhatWasSet, TraceLevelMax
<1>4. ASSUME NEW t \in TimeSettings, NEW fits \in BOOLEAN, SetTimeouts(t, fits)
      PROVE  RegisterInv'
  BY <1>4 DEF SetTimeouts, RegisterInv, LineControlIsWhatWasSet, Copied
<1>5. ASSUME NEW s \in LineSettings, SetLineControl(s) PROVE RegisterInv'
  <2>1. /\ lineControl' = NewLineControl(s) /\ lineControl' \in LineRegisters
        /\ stored' = stored /\ traceLevel' = traceLevel /\ timeouts' = timeouts
        /\ accepted' \in LineSettings \cup {None}
    BY <1>5, EncodeIsARegister DEF SetLineControl, RegisterInv
  <2>2. validDataMask' \in {0, 31, 63, 127, 255}
    BY <1>5 DEF SetLineControl, RegisterInv, WordOK, DataMask
  <2>3. LineControlIsWhatWasSet'
    <3>1. CASE Accepts(s)
      BY <1>5, <2>1, <3>1, DecodeAfterEncode
      DEF SetLineControl, LineControlIsWhatWasSet, Accepts, StopOK
    <3>2. CASE ~Accepts(s)
      BY <1>5, <3>2 DEF SetLineControl, LineControlIsWhatWasSet
    <3>. QED
      BY <3>1, <3>2
  <2>. QED
    BY <2>1, <2>2, <2>3 DEF RegisterInv
<1>6. CASE SetLineControlTooSmall
  <2>1. lineControl' \in LineRegisters
    <3>1. lineControl.break \in 0 .. 1
      BY DEF RegisterInv, LineRegisters
    <3>2. 0 \in 0 .. 3 /\ 0 \in 0 .. 1 /\ 0 \in 0 .. 7
      OBVIOUS
    <3>3. lineControl' = [data |-> 0, stop |-> 0, parity |-> 0, break |-> lineControl.break]
      BY <1>6 DEF SetLineControlTooSmall
    <3>. QED
      BY <3>1, <3>2, <3>3 DEF LineRegisters
  <2>2. LineControlIsWhatWasSet'
    BY <1>6 DEF SetLineControlTooSmall, LineControlIsWhatWasSet
  <2>. QED
    BY <1>6, <2>1, <2>2 DEF SetLineControlTooSmall, RegisterInv
<1>7. CASE WaitCode \/ Framework \/ UNCHANGED ioVars
  BY <1>1, <1>7 DEF WaitCode, Framework, SetWaitMask, WaitOnMask, CancelWait, Purge, ioVars
<1>8. CASE Identify \/ Pretend \/ UnknownCode \/ GetCode
  BY <1>1, <1>8
  DEF Identify, Pretend, UnknownCode, GetCode, GetStored, GetLogLevel, Report,
      GetTimeouts, GetLineControl, Reports
<1>9. CASE SetCode
  BY <1>2, <1>3, <1>4, <1>9 DEF SetCode
<1>10. CASE LineCode
  BY <1>5, <1>6, <1>10 DEF LineCode
<1>. QED
  BY <1>7, <1>8, <1>9, <1>10 DEF IoNext

LEMMA IoInitInv == IoInit => WaitInv /\ RegisterInv
<1> SUFFICES ASSUME IoInit PROVE WaitInv /\ RegisterInv
  OBVIOUS
<1>1. WaitInv
  BY DEF IoInit, WaitInv, OneWaiter, EachWaitInOnePlace
<1>2. NoTimeouts \in Timeouts \ {AllMaxUlong}
  BY IoControlAssumption DEF NoTimeouts, AllMaxUlong, Timeouts
<1>3. RegisterInv
  BY <1>2, IoControlAssumption
  DEF IoInit, RegisterInv, LineControlIsWhatWasSet, LineRegisters, TraceLevelError,
      TraceLevelInfo, TraceLevelMax
<1>. QED
  BY <1>1, <1>3

LEMMA IoInvariant == IoSpec => [](WaitInv /\ RegisterInv)
<1>1. IoInit => WaitInv /\ RegisterInv
  BY IoInitInv
<1>2. WaitInv /\ RegisterInv /\ [IoNext]_ioVars => (WaitInv /\ RegisterInv)'
  BY WaitStep, RegisterStep
<1>. QED
  BY <1>1, <1>2, PTL DEF IoSpec

(* The registers, the queue and the counts have their types.               *)
THEOREM IoTypeCorrect == IoSpec => []IoTypeOK
<1>1. WaitInv /\ RegisterInv => IoTypeOK
  BY DEF WaitInv, RegisterInv, IoTypeOK
<1>. QED
  BY <1>1, IoInvariant, PTL

(* At most one WAIT_ON_MASK waits.                                         *)
THEOREM AtMostOneWaits == IoSpec => []OneWaiter
<1>1. WaitInv => OneWaiter
  BY DEF WaitInv
<1>. QED
  BY <1>1, IoInvariant, PTL

(* A WAIT_ON_MASK waits, alone, or has been completed, and that once.      *)
THEOREM WaitsAreCompletedOnce == IoSpec => []EachWaitInOnePlace
<1>1. WaitInv => EachWaitInOnePlace
  BY DEF WaitInv
<1>. QED
  BY <1>1, IoInvariant, PTL

(* GET_LINE_CONTROL returns the setting that was accepted, and the data    *)
(* mask goes with it, until one is rejected.                               *)
THEOREM LineControlRoundTrip == IoSpec => []LineControlIsWhatWasSet
<1>1. RegisterInv => LineControlIsWhatWasSet
  BY DEF RegisterInv
<1>. QED
  BY <1>1, IoInvariant, PTL

(* A request that fails changes neither the registers nor the timeouts.    *)
THEOREM FailuresChangeNothing == IoSpec => FailuresChangeNothingElse
<1> DEFINE Harmless ==
      answer'.status \in {"too small", "invalid"} => UNCHANGED <<stored, timeouts>>
<1>1. [IoNext]_ioVars => [Harmless]_ioVars
  <2> SUFFICES ASSUME [IoNext]_ioVars PROVE UNCHANGED ioVars \/ Harmless
    OBVIOUS
  <2>1. CASE UNCHANGED <<stored, timeouts>>
    BY <2>1
  <2>2. ASSUME NEW r \in Registers, NEW value \in Values, NEW fits \in BOOLEAN,
               SetStored(r, value, fits)
        PROVE  Harmless
    BY <2>2 DEF SetStored, Answers, Copied
  <2>3. ASSUME NEW t \in TimeSettings, NEW fits \in BOOLEAN, SetTimeouts(t, fits)
        PROVE  Harmless
    BY <2>3 DEF SetTimeouts, Answers, Copied
  <2>4. CASE WaitCode \/ Framework \/ LineCode
    BY <2>1, <2>4
    DEF WaitCode, Framework, LineCode, SetWaitMask, WaitOnMask, CancelWait, Purge,
        SetLineControl, SetLineControlTooSmall, registerVars
  <2>5. CASE Identify \/ Pretend \/ UnknownCode \/ GetCode
    BY <2>1, <2>5
    DEF Identify, Pretend, UnknownCode, GetCode, GetStored, GetLogLevel, Report,
        GetTimeouts, GetLineControl, Reports, registerVars
  <2>6. CASE SetCode
    BY <2>1, <2>2, <2>3, <2>6 DEF SetCode, SetLogLevel
  <2>. QED
    BY <2>4, <2>5, <2>6 DEF IoNext
<1>. QED
  BY <1>1, PTL DEF IoSpec, FailuresChangeNothingElse

----------------------------------------------------------------------------
(* The queue and its handlers implement WaitSlot.                          *)

(* A request has an answer if and only if it has been issued and waits no  *)
(* more; so one that has not been issued is new to WaitSlot.               *)
SlotInv ==
    /\ waitStatus = [w \in Waits |-> waitStatus[w]]
    /\ \A w \in Waits : waitStatus[w] = "none" <=> w \notin issued \ waitMaskQueue

LEMMA QueueIsTheWaiter ==
    ASSUME WaitInv
    PROVE  \/ waitMaskQueue = {} /\ Waiter = None
           \/ waitMaskQueue = {Waiter} /\ Waiter \in Waits /\ Waiter # None
<1>1. CASE waitMaskQueue = {}
  BY <1>1 DEF Waiter
<1>2. CASE waitMaskQueue # {}
  <2>1. Waiter \in waitMaskQueue
    BY <1>2 DEF Waiter
  <2>2. Waiter \in Waits
    BY <2>1 DEF WaitInv
  <2>3. waitMaskQueue = {Waiter}
    BY <2>1 DEF WaitInv, OneWaiter
  <2>. QED
    BY <2>2, <2>3, IoControlAssumption
<1>. QED
  BY <1>1, <1>2

LEMMA NextWaiter ==
    /\ waitMaskQueue' = {} => Waiter' = None
    /\ \A w : waitMaskQueue' = {w} => Waiter' = w
<1>1. \A w : (CHOOSE v \in {w} : TRUE) = w
  OBVIOUS
<1>. QED
  BY <1>1 DEF Waiter

(* Completing what the queue gave is to answer who has the place.          *)
LEMMA WaiterIsAnswered ==
    ASSUME WaitInv, NEW result, NEW status,
           \A w \in waitMaskQueue : status[w] = result,
           Complete(waitMaskQueue, status)
    PROVE  waitStatus' = Slot!WaiterGets(result)
<1>1. \A w \in Waits : w \in waitMaskQueue <=> w = Waiter
  BY QueueIsTheWaiter, IoControlAssumption
<1>. QED
  BY <1>1 DEF Complete, Slot!WaiterGets

(* Of SlotInv a step has to say who is answered, and that with an answer.  *)
LEMMA AnsweredOnce ==
    ASSUME WaitInv, SlotInv, NEW ws \in SUBSET Waits, NEW status,
           Complete(ws, status), \A w \in ws : status[w] # "none",
           issued' \ waitMaskQueue' = (issued \ waitMaskQueue) \cup ws
    PROVE  SlotInv'
<1>1. waitStatus' = [w \in Waits |-> IF w \in ws THEN status[w] ELSE waitStatus[w]]
  BY DEF Complete
<1>. QED
  BY <1>1 DEF SlotInv

LEMMA WaitOnMaskTakesPlace ==
    ASSUME WaitInv, SlotInv, NEW w \in Waits, WaitOnMask(w)
    PROVE  (Slot!TakePlace(w) \/ Slot!Refuse(w)) /\ SlotInv'
<1> DEFINE status == [v \in Waits |-> IF v = w THEN "busy" ELSE "unsuccessful"]
           done   == waitMaskQueue \cup (IF purged THEN {w} ELSE {})
<1>1. /\ w \notin issued /\ issued' = issued \cup {w} /\ purged' = purged
      /\ waitMaskQueue' = IF purged THEN {} ELSE {w}
      /\ Complete(done, status)
  <2>1. PICK ws \in SUBSET waitMaskQueue :
           /\ Retrieved(ws)
           /\ waitMaskQueue' = (waitMaskQueue \ ws) \cup (IF purged THEN {} ELSE {w})
           /\ Complete(ws \cup (IF purged THEN {w} ELSE {}), status)
    BY DEF WaitOnMask
  <2>2. ws = waitMaskQueue
    BY <2>1, RetrievedIsTheWaiter DEF WaitInv
  <2>. QED
    BY <2>1, <2>2 DEF WaitOnMask
<1>2. waitMaskQueue \subseteq issued /\ issued \subseteq Waits /\ purged \in BOOLEAN
      /\ (purged => waitMaskQueue = {})
  BY DEF WaitInv
<1>3. \A v \in done : status[v] # "none"
  BY <1>2
<1>4. done \in SUBSET Waits
      /\ issued' \ waitMaskQueue' = (issued \ waitMaskQueue) \cup done
  BY <1>1, <1>2
<1>5. SlotInv'
  <2> HIDE DEF done, status
  <2>. QED
    BY <1>1, <1>3, <1>4, AnsweredOnce
<1>6. waitStatus[w] = "none" /\ w # Waiter
  BY <1>1, <1>2, QueueIsTheWaiter, IoControlAssumption DEF SlotInv
<1>7. CASE ~purged
  <2>1. Waiter' = w
    BY <1>1, <1>7, NextWaiter
  <2>2. Complete(waitMaskQueue, status)
    BY <1>1, <1>7
  <2>3. \A v \in waitMaskQueue : status[v] = "unsuccessful"
    BY <1>1, <1>2
  <2>4. waitStatus' = Slot!WaiterGets("unsuccessful")
    <3> HIDE DEF status
    <3>. QED
      BY <2>2, <2>3, WaiterIsAnswered
  <2>. QED
    BY <1>1, <1>5, <1>6, <1>7, <2>1, <2>4 DEF Slot!TakePlace, Slot!IsNew
<1>8. CASE purged
  <2>1. Waiter = None /\ Waiter' = None
    BY <1>1, <1>2, <1>8, NextWaiter DEF Waiter
  <2>2. waitStatus' = [v \in Waits |-> IF v = w THEN "busy" ELSE waitStatus[v]]
    BY <1>1, <1>2, <1>8 DEF Complete
  <2>3. waitStatus' = [waitStatus EXCEPT ![w] = "busy"]
    BY <2>2 DEF SlotInv
  <2>. QED
    BY <1>1, <1>5, <1>6, <1>8, <2>1, <2>3 DEF Slot!Refuse, Slot!IsNew
<1>. QED
  BY <1>2, <1>7, <1>8

(* Whoever waits leaves: the framework's two ways and SET_WAIT_MASK.       *)
LEMMA WaiterLeaves ==
    ASSUME WaitInv, SlotInv, NEW status, NEW result,
           \A w \in waitMaskQueue : status[w] = result, result # "none",
           Complete(waitMaskQueue, status), waitMaskQueue' = {}, issued' = issued
    PROVE  /\ Waiter' = None /\ waitStatus' = Slot!WaiterGets(result)
           /\ SlotInv'
<1>1. Waiter' = None
  BY NextWaiter
<1>2. waitStatus' = Slot!WaiterGets(result)
  BY WaiterIsAnswered
<1>3. waitMaskQueue \in SUBSET Waits
      /\ issued' \ waitMaskQueue' = (issued \ waitMaskQueue) \cup waitMaskQueue
  BY DEF WaitInv
<1>4. SlotInv'
  BY <1>3, AnsweredOnce
<1>. QED
  BY <1>1, <1>2, <1>4

LEMMA SlotUnchanged ==
    ASSUME SlotInv, UNCHANGED waitVars
    PROVE  UNCHANGED Slot!slotVars /\ SlotInv'
BY DEF SlotInv, waitVars, Slot!slotVars, Waiter

LEMMA SetWaitMaskAnswers ==
    ASSUME WaitInv, SlotInv, SetWaitMask
    PROVE  [Slot!Next]_(Slot!slotVars) /\ SlotInv'
<1> DEFINE status == [v \in Waits |-> Copied(v \notin SmallWaits)]
           result == IF Waiter \in SmallWaits THEN "too small" ELSE "success"
<1>1. /\ waitMaskQueue' = {} /\ issued' = issued /\ purged' = purged
      /\ Complete(waitMaskQueue, status)
  BY RetrievedIsTheWaiter DEF SetWaitMask, WaitInv
<1>2. \A w \in waitMaskQueue : status[w] = result
  BY QueueIsTheWaiter DEF Copied
<1>3. result # "none"
  OBVIOUS
<1>4. Waiter' = None /\ waitStatus' = Slot!WaiterGets(result) /\ SlotInv'
  <2> HIDE DEF status, result
  <2>. QED
    BY <1>1, <1>2, <1>3, WaiterLeaves
<1>5. CASE Waiter # None
  BY <1>1, <1>4, <1>5 DEF Slot!SetMask, Slot!Next
<1>6. CASE Waiter = None
  <2>1. waitMaskQueue = {}
    BY <1>6, QueueIsTheWaiter
  <2>2. waitStatus' = waitStatus
    BY <1>1, <2>1 DEF Complete, SlotInv
  <2>. QED
    BY <1>1, <1>4, <1>6, <2>2 DEF Slot!slotVars
<1>. QED
  BY <1>5, <1>6

LEMMA FrameworkAnswers ==
    ASSUME WaitInv, SlotInv, Framework
    PROVE  Slot!Next /\ SlotInv'
<1> DEFINE status == [v \in Waits |-> "cancelled"]
<1>1. \A w \in waitMaskQueue : status[w] = "cancelled"
  BY DEF WaitInv
<1>2. CASE Purge
  <2>1. /\ waitMaskQueue' = {} /\ issued' = issued /\ ~purged /\ purged' = TRUE
        /\ Complete(waitMaskQueue, status)
    BY <1>2 DEF Purge
  <2>2. Waiter' = None /\ waitStatus' = Slot!WaiterGets("cancelled") /\ SlotInv'
    <3> HIDE DEF status
    <3>. QED
      BY <1>1, <2>1, WaiterLeaves
  <2>. QED
    BY <2>1, <2>2 DEF Slot!Close, Slot!Next, WaitInv
<1>3. ASSUME NEW w \in Waits, CancelWait(w) PROVE Slot!Next /\ SlotInv'
  <2>1. waitMaskQueue = {w} /\ Waiter # None
    BY <1>3, QueueIsTheWaiter DEF CancelWait
  <2>2. /\ waitMaskQueue' = {} /\ issued' = issued /\ purged' = purged
        /\ Complete(waitMaskQueue, status)
    BY <1>3, <2>1 DEF CancelWait
  <2>3. Waiter' = None /\ waitStatus' = Slot!WaiterGets("cancelled") /\ SlotInv'
    <3> HIDE DEF status
    <3>. QED
      BY <1>1, <2>2, WaiterLeaves
  <2>. QED
    BY <2>1, <2>2, <2>3 DEF Slot!GiveUp, Slot!Next
<1>. QED
  BY <1>2, <1>3 DEF Framework

LEMMA SlotStep ==
    ASSUME WaitInv, SlotInv, [IoNext]_ioVars
    PROVE  [Slot!Next]_(Slot!slotVars) /\ SlotInv'
<1>1. CASE WaitCode
  BY <1>1, WaitOnMaskTakesPlace, SetWaitMaskAnswers DEF WaitCode, Slot!Next
<1>2. CASE Framework
  BY <1>2, FrameworkAnswers
<1>3. CASE UNCHANGED waitVars
  BY <1>3, SlotUnchanged
<1>4. CASE Identify \/ Pretend \/ UnknownCode \/ GetCode \/ SetCode \/ LineCode
           \/ UNCHANGED ioVars
  BY <1>3, <1>4
  DEF ioVars, Identify, Pretend, UnknownCode, GetCode, SetCode, LineCode, GetStored,
      GetLogLevel, Report, GetTimeouts, GetLineControl, Reports, SetStored, SetLogLevel,
      SetTimeouts, SetLineControl, SetLineControlTooSmall
<1>. QED
  BY <1>1, <1>2, <1>4 DEF IoNext

(* The handlers of WAIT_ON_MASK and SET_WAIT_MASK, cancellation and        *)
(* removal implement a place for one request, for any number of requests:  *)
(* the newer takes it, the older fails, and every answer is final.         *)
THEOREM WaitsShareOnePlace == IoSpec => ImplementsWaitSlot
<1>1. IoInit => Slot!Init /\ SlotInv
  BY DEF IoInit, Slot!Init, Waiter, SlotInv
<1>2. WaitInv /\ SlotInv /\ [IoNext]_ioVars
         => [Slot!Next]_(Slot!slotVars) /\ SlotInv'
  BY SlotStep
<1>. QED
  BY <1>1, <1>2, IoInvariant, PTL DEF IoSpec, ImplementsWaitSlot, Slot!Spec

============================================================================
