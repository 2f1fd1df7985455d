------------------------------ MODULE IoControl ------------------------------
(***************************************************************************)
(* EvtIoDeviceControl: the control codes that read and set the registers   *)
(* of one port and the driver's Globals, and WAIT_ON_MASK with the manual  *)
(* queue that holds the request until somebody ends it.  A handler runs    *)
(* under the device lock and neither waits nor calls out, so it is a step. *)
(* IOCTL_HTSVSP_CONFIGURE is in NetworkControl.                            *)
(*                                                                         *)
(* A buffer either holds the structure of its code ("fits") or is shorter, *)
(* in which case nothing is copied.                                        *)
(***************************************************************************)
EXTENDS Integers, FiniteSets

CONSTANTS
    Waits,         \* the WAIT_ON_MASK requests of an application
    SmallWaits,    \* those of them whose output buffer is too small
    Values,        \* of a register that the driver only stores
    Levels,        \* of tracing that may be asked for
    LineSettings,  \* SERIAL_LINE_CONTROLs that may be asked for
    TimeSettings,  \* SERIAL_TIMEOUTSs that may be asked for
    MaxUlong,      \* MAXULONG
    None           \* no data, no setting, no request

(* TRACE_LEVEL_ERROR, TRACE_LEVEL_INFO, TRACE_LEVEL_MAX; Globals.WaitUnits *)
(* after DriverEntry.                                                      *)
TraceLevelError  == 0
TraceLevelInfo   == 2
TraceLevelMax    == 3
DefaultWaitUnits == 3

(* The three that bear on reads.                                           *)
Timeouts == [interval : 0 .. MaxUlong, multiplier : 0 .. MaxUlong,
             constant : 0 .. MaxUlong]

ASSUME IoControlAssumption ==
    /\ SmallWaits \subseteq Waits
    /\ {0, DefaultWaitUnits} \subseteq Values
    /\ Levels \subseteq Nat
    /\ LineSettings \subseteq [wordLength : Nat, stopBits : STRING, parity : STRING]
    /\ MaxUlong \in Nat \ {0} /\ TimeSettings \subseteq Timeouts
    /\ None \notin LineSettings \cup Waits

(* Copied into place by their handlers, read by no other code but ReadPath *)
(* (WaitUnits).  There is no code to get FifoControl.                      *)
Registers == {"BaudRate", "ModemControl", "FifoControl", "WaitUnits"}
Readable  == Registers \ {"FifoControl"}

NoTimeouts  == [interval |-> 0, multiplier |-> 0, constant |-> 0]
AllMaxUlong == [interval |-> MaxUlong, multiplier |-> MaxUlong, constant |-> MaxUlong]

(* The bits of LineControlRegister, group by group: SERIAL_DATA_MASK,      *)
(* SERIAL_STOP_MASK, SERIAL_PARITY_MASK, SERIAL_LCR_BREAK.                 *)
LineRegisters == [data : 0 .. 3, stop : 0 .. 1, parity : 0 .. 7, break : 0 .. 1]

ParityBits == [NO |-> 0, ODD |-> 1, EVEN |-> 3, MARK |-> 5, SPACE |-> 7]
Parities   == {"NO", "ODD", "EVEN", "MARK", "SPACE"}

VARIABLES
    (* the device context and Globals *)
    stored,         \* Registers
    traceLevel,     \* Globals.TraceLevel
    timeouts,       \* Timeouts
    lineControl,    \* LineControlRegister
    validDataMask,  \* ValidDataMask
    accepted,       \* the last line setting unless it was rejected (history)
    (* requests *)
    waitMaskQueue,  \* those in WaitMaskQueue
    purged,         \* the queue takes no more: the device is being removed
    issued,         \* the WAIT_ON_MASKs that have been issued
    answers,        \* how often each of them was completed
    waitStatus,     \* ... and how, the last time
    answer          \* status and data of the last other request

registerVars == <<stored, traceLevel, timeouts, lineControl, validDataMask, accepted>>
waitVars     == <<waitMaskQueue, purged, issued, answers, waitStatus>>
ioVars       == <<registerVars, waitVars, answer>>

(* DriverEntry and DeviceCreate: the context is zeroed.                    *)
IoInit ==
    /\ stored = [r \in Registers |-> IF r = "WaitUnits" THEN DefaultWaitUnits ELSE 0]
    /\ traceLevel \in {TraceLevelError, TraceLevelInfo}
    /\ timeouts = NoTimeouts
    /\ lineControl = [data |-> 0, stop |-> 0, parity |-> 0, break |-> 0]
    /\ validDataMask = 0
    /\ accepted = None
    /\ waitMaskQueue = {} /\ purged = FALSE /\ issued = {}
    /\ answers = [w \in Waits |-> 0]
    /\ waitStatus = [w \in Waits |-> "none"]
    /\ answer = [status |-> "none", data |-> None]

----------------------------------------------------------------------------
(* How a handler answers: RequestCopyToBuffer, RequestCopyFromBuffer.      *)

Copied(fits) == IF fits THEN "success" ELSE "too small"

Answers(status, data) == answer' = [status |-> status, data |-> data]

Reports(data) ==
    /\ \E fits \in BOOLEAN : Answers(Copied(fits), IF fits THEN data ELSE None)
    /\ UNCHANGED <<registerVars, waitVars>>

----------------------------------------------------------------------------
(* Codes without data: IDENTIFY, those that applications expect to succeed *)
(* and all that the driver does not know.                                  *)

Identify   == Answers("success", None) /\ UNCHANGED <<registerVars, waitVars>>
Pretend    == Answers("success", None) /\ UNCHANGED <<registerVars, waitVars>>
UnknownCode == Answers("invalid", None) /\ UNCHANGED <<registerVars, waitVars>>

(* GET_BAUD_RATE, GET_MODEM_CONTROL, GET_WAIT_UNITS, GET_LOGLEVEL, REPORT. *)
(* GET_TIMEOUTS returns the zeros of its local variable.                   *)
GetStored(r)  == Reports(stored[r])
GetLogLevel   == Reports(traceLevel)
Report        == Reports(<<traceLevel, stored["WaitUnits"]>>)
GetTimeouts   == Reports(NoTimeouts)

SetStored(r, value, fits) ==
    /\ Answers(Copied(fits), None)
    /\ stored' = IF fits THEN [stored EXCEPT ![r] = value] ELSE stored
    /\ UNCHANGED <<traceLevel, timeouts, lineControl, validDataMask, accepted, waitVars>>

(* The level is looked at whether it was copied or not; one that is too    *)
(* high is ignored, with success.                                          *)
SetLogLevel(level, fits) ==
    LET asked == IF fits THEN level ELSE 0 IN
    /\ Answers(Copied(fits), None)
    /\ traceLevel' = IF asked <= TraceLevelMax THEN asked ELSE traceLevel
    /\ UNCHANGED <<stored, timeouts, lineControl, validDataMask, accepted, waitVars>>

(* mutant: the values are stored and then looked at.                       *)
StoreThenLook(t, fits) ==
    /\ Answers(IF fits /\ t = AllMaxUlong THEN "invalid" ELSE Copied(fits), None)
    /\ timeouts' = IF fits THEN t ELSE timeouts
    /\ UNCHANGED <<stored, traceLevel, lineControl, validDataMask, accepted, waitVars>>

SetTimeouts(t, fits) ==
    LET status == IF fits /\ t = AllMaxUlong THEN "invalid" ELSE Copied(fits) IN
    /\ Answers(status, None)
    /\ timeouts' = IF status = "success" THEN t ELSE timeouts
    /\ UNCHANGED <<stored, traceLevel, lineControl, validDataMask, accepted, waitVars>>

----------------------------------------------------------------------------
(* Line control.                                                           *)

WordOK(s) == s.wordLength \in 5 .. 8

(* mutant: two stop bits are taken with any length of word.                *)
StopOfAnyWord(s) == WordOK(s) /\ s.stopBits \in {"1", "1.5", "2"}

(* One and a half stop bits go with words of 5 bits only, two with all     *)
(* others only.                                                            *)
StopOK(s) ==
    /\ WordOK(s)
    /\ s.stopBits \in {"1", IF s.wordLength = 5 THEN "1.5" ELSE "2"}

Accepts(s) == StopOK(s) /\ s.parity \in Parities

(* QueueProcessSetLineControl fills in the groups in this order and gives  *)
(* up at the first that is wrong: that one and the next stay 0.            *)
NewLineControl(s) ==
    [data   |-> IF WordOK(s) THEN s.wordLength - 5 ELSE 0,
     stop   |-> IF StopOK(s) /\ s.stopBits # "1" THEN 1 ELSE 0,
     parity |-> IF Accepts(s) THEN ParityBits[s.parity] ELSE 0,
     break  |-> lineControl.break]

(* QueueProcessGetLineControl.                                             *)
Decode(register) ==
    [wordLength |-> register.data + 5,
     stopBits   |-> IF register.stop = 0 THEN "1" ELSE IF register.data = 0 THEN "1.5" ELSE "2",
     parity     |-> IF \E p \in Parities : ParityBits[p] = register.parity
                    THEN CHOOSE p \in Parities : ParityBits[p] = register.parity
                    ELSE "NO"]

DataMask(wordLength) == CASE wordLength = 5 -> 31  [] wordLength = 6 -> 63
                          [] wordLength = 7 -> 127 [] wordLength = 8 -> 255

GetLineControl == Reports(Decode(lineControl))

(* The register is updated whatever came of the request: one that was      *)
(* rejected has changed it, and the data mask if its word was good.  The   *)
(* loop around the compare-and-swap ends at once, as all writers hold the  *)
(* device lock.                                                            *)
SetLineControl(s) ==
    /\ Answers(IF Accepts(s) THEN "success" ELSE "invalid", None)
    /\ validDataMask' = IF WordOK(s) THEN DataMask(s.wordLength) ELSE validDataMask
    /\ lineControl' = NewLineControl(s)
    /\ accepted' = IF Accepts(s) THEN s ELSE None
    /\ UNCHANGED <<stored, traceLevel, timeouts, waitVars>>

SetLineControlTooSmall ==
    /\ Answers("too small", None)
    /\ lineControl' = [data |-> 0, stop |-> 0, parity |-> 0, break |-> lineControl.break]
    /\ accepted' = None
    /\ UNCHANGED <<stored, traceLevel, timeouts, validDataMask, waitVars>>

----------------------------------------------------------------------------
(* WAIT_ON_MASK and SET_WAIT_MASK.                                         *)

(* WdfRequestComplete of the requests in ws.                               *)
Complete(ws, status) ==
    /\ answers' = [w \in Waits |-> IF w \in ws THEN answers[w] + 1 ELSE answers[w]]
    /\ waitStatus' = [w \in Waits |-> IF w \in ws THEN status[w] ELSE waitStatus[w]]

(* WdfIoQueueRetrieveNextRequest: one request, if there is any.            *)
Retrieved(ws) ==
    \/ waitMaskQueue = {} /\ ws = {}
    \/ \E w \in waitMaskQueue : ws = {w}

(* mutants: the request ends like the others, with the status of the       *)
(* forwarding; the new request is completed in place of the one that was   *)
(* retrieved, which goes back.                                             *)
BreakAfterForward(w) ==
    /\ w \in Waits \ issued
    /\ issued' = issued \cup {w}
    /\ \E ws \in SUBSET waitMaskQueue :
          /\ Retrieved(ws)
          /\ waitMaskQueue' = IF purged THEN waitMaskQueue \ ws
                              ELSE (waitMaskQueue \ ws) \cup {w}
          /\ Complete(ws \cup {w}, [v \in Waits |-> "unsuccessful"])
    /\ UNCHANGED <<registerVars, purged, answer>>

EndTheNewOne(w) ==
    /\ w \in Waits \ issued
    /\ issued' = issued \cup {w}
    /\ waitMaskQueue' = IF purged \/ waitMaskQueue # {} THEN waitMaskQueue ELSE {w}
    /\ Complete({w} \ waitMaskQueue',
                [v \in Waits |-> IF purged THEN "busy" ELSE "unsuccessful"])
    /\ UNCHANGED <<registerVars, purged, answer>>

(* The request that waited is completed, then the new one is forwarded to  *)
(* the queue; when that fails, it is completed at once.                    *)
WaitOnMask(w) ==
    /\ w \in Waits \ issued
    /\ issued' = issued \cup {w}
    /\ \E ws \in SUBSET waitMaskQueue :
          /\ Retrieved(ws)
          /\ waitMaskQueue' = (waitMaskQueue \ ws) \cup (IF purged THEN {} ELSE {w})
          /\ Complete(ws \cup (IF purged THEN {w} ELSE {}),
                      [v \in Waits |-> IF v = w THEN "busy" ELSE "unsuccessful"])
    /\ UNCHANGED <<registerVars, purged, answer>>

(* The request that waited gets an event mask of 0, if it has room for it. *)
SetWaitMask ==
    /\ \E ws \in SUBSET waitMaskQueue :
          /\ Retrieved(ws)
          /\ waitMaskQueue' = waitMaskQueue \ ws
          /\ Complete(ws, [v \in Waits |-> Copied(v \notin SmallWaits)])
    /\ Answers("success", None)
    /\ UNCHANGED <<registerVars, purged, issued>>

(* The framework: an application that exits takes its requests back, and a *)
(* removal purges the queue.                                               *)
CancelWait(w) ==
    /\ w \in waitMaskQueue
    /\ waitMaskQueue' = waitMaskQueue \ {w}
    /\ Complete({w}, [v \in Waits |-> "cancelled"])
    /\ UNCHANGED <<registerVars, purged, issued, answer>>

Purge ==
    /\ ~purged
    /\ purged' = TRUE
    /\ waitMaskQueue' = {}
    /\ Complete(waitMaskQueue, [v \in Waits |-> "cancelled"])
    /\ UNCHANGED <<registerVars, issued, answer>>

----------------------------------------------------------------------------

GetCode == \/ \E r \in Readable : GetStored(r)
           \/ GetLogLevel
           \/ Report
           \/ GetTimeouts
           \/ GetLineControl

SetCode == \E fits \in BOOLEAN :
              \/ \E r \in Registers, value \in Values : SetStored(r, value, fits)
              \/ \E level \in Levels : SetLogLevel(level, fits)
              \/ \E t \in TimeSettings : SetTimeouts(t, fits)

LineCode == SetLineControlTooSmall \/ \E s \in LineSettings : SetLineControl(s)

WaitCode == SetWaitMask \/ \E w \in Waits : WaitOnMask(w)

Framework == Purge \/ \E w \in Waits : CancelWait(w)

IoNext == \/ Identify \/ Pretend \/ UnknownCode
          \/ GetCode \/ SetCode \/ LineCode \/ WaitCode
          \/ Framework

IoSpec == IoInit /\ [][IoNext]_ioVars

----------------------------------------------------------------------------

IoTypeOK ==
    /\ stored \in [Registers -> Values]
    /\ traceLevel \in 0 .. TraceLevelMax
    /\ timeouts \in Timeouts \ {AllMaxUlong}
    /\ lineControl \in LineRegisters /\ validDataMask \in {0, 31, 63, 127, 255}
    /\ accepted \in LineSettings \cup {None}
    /\ waitMaskQueue \subseteq issued /\ issued \subseteq Waits
    /\ purged \in BOOLEAN
    /\ answers \in [Waits -> Nat]
    /\ DOMAIN waitStatus = Waits

(* At most one WAIT_ON_MASK waits: the codes retrieve a single request     *)
(* from WaitMaskQueue, so a second one in it would outlive the mask that   *)
(* was to end it.                                                          *)
OneWaiter == \A v, w \in waitMaskQueue : v = w

(* A WAIT_ON_MASK that was issued either waits, alone, or has been         *)
(* completed, and is completed once: by the next WAIT_ON_MASK, by          *)
(* SET_WAIT_MASK, by the framework, or by its own handler when it cannot   *)
(* be forwarded.                                                           *)
EachWaitInOnePlace ==
    /\ OneWaiter
    /\ \A w \in Waits : answers[w] = IF w \in issued \ waitMaskQueue THEN 1 ELSE 0

(* The request in the queue, of which there is one at most.                *)
Waiter == IF waitMaskQueue = {} THEN None ELSE CHOOSE w \in waitMaskQueue : TRUE

Slot == INSTANCE WaitSlot WITH waiter <- Waiter, outcome <- waitStatus, closed <- purged

(* The handlers of WAIT_ON_MASK and SET_WAIT_MASK, the cancellation of the *)
(* framework and the removal together keep a WaitSlot: it is the older     *)
(* request that makes room and the newer that waits, each is told why it   *)
(* ended, once, and none waits on a device that is being removed.          *)
ImplementsWaitSlot == Slot!Spec

(* After a setting that was accepted, and until another is rejected, what  *)
(* GET_LINE_CONTROL decodes from the register is that setting, and the     *)
(* mask of valid data bits is that of its word length.                     *)
LineControlIsWhatWasSet ==
    accepted # None => /\ Decode(lineControl) = accepted
                       /\ validDataMask = DataMask(accepted.wordLength)

(* A request that fails leaves registers and timeouts as they were.  Not   *)
(* so the log level and the line control, which a request that fails sets  *)
(* to 0, whole or in part.                                                 *)
FailuresChangeNothingElse ==
    [][answer'.status \in {"too small", "invalid"} => UNCHANGED <<stored, timeouts>>]_ioVars

============================================================================
