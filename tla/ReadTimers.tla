---------------------------- MODULE ReadTimers ----------------------------
(***************************************************************************)
(* The read timeouts of the serial port: the three fields of               *)
(* SERIAL_TIMEOUTS that a read looks at, what IOCTL_SERIAL_SET_TIMEOUTS    *)
(* accepts, and calculateReadTimers (network.cpp), which turns them into   *)
(* the flags and the due times that ClientThread uses for one read.        *)
(*                                                                         *)
(* Times are in ticks; MaxUlong is MAXULONG, the all-ones ULONG that has a *)
(* meaning of its own in every field.  crunchDownToOne is left out: the    *)
(* code assigns it and never reads it.                                     *)
(***************************************************************************)
EXTENDS Naturals

CONSTANT MaxUlong

ASSUME MaxUlongAssumption == MaxUlong \in Nat \ {0}

ULong == 0 .. MaxUlong

SerialTimeouts ==
    [ReadIntervalTimeout        : ULong,
     ReadTotalTimeoutMultiplier : ULong,
     ReadTotalTimeoutConstant   : ULong]

(* IOCTL_SERIAL_SET_TIMEOUTS rejects the value with every field MAXULONG.  *)
AcceptedTimeouts ==
    {t \in SerialTimeouts : \E f \in DOMAIN t : t[f] # MaxUlong}

(* A device context starts zeroed: no timeouts at all.                     *)
NoTimeouts == [f \in {"ReadIntervalTimeout", "ReadTotalTimeoutMultiplier",
                      "ReadTotalTimeoutConstant"} |-> 0]

(* What a thread that copies the structure may read while SetTimeouts is   *)
(* overwriting `old' with `new' field by field and without a lock.         *)
TornRead(old, new) ==
    LET Either(f) == {old[f], new[f]}
    IN  [ReadIntervalTimeout        : Either("ReadIntervalTimeout"),
         ReadTotalTimeoutMultiplier : Either("ReadTotalTimeoutMultiplier"),
         ReadTotalTimeoutConstant   : Either("ReadTotalTimeoutConstant")]

----------------------------------------------------------------------------

(* ReadIntervalTimeout = MAXULONG asks for the "special return quickly".   *)
ReturnQuickly(t) == t.ReadIntervalTimeout = MaxUlong

NoTotal(t) ==
    t.ReadTotalTimeoutMultiplier = 0 /\ t.ReadTotalTimeoutConstant = 0

ReturnWithWhatsPresent(t) == ReturnQuickly(t) /\ NoTotal(t)

(* Cases 2 and 3 of the comment in calculateReadTimers.                    *)
Os2ssReturn(t) ==
    /\ ReturnQuickly(t)
    /\ ~NoTotal(t)
    /\ t.ReadTotalTimeoutConstant # MaxUlong

UsesIntervalTimer(t) == ~ReturnQuickly(t) /\ t.ReadIntervalTimeout # 0

UsesTotalTimer(t) == Os2ssReturn(t) \/ (~ReturnQuickly(t) /\ ~NoTotal(t))

TotalTime(t, needed) ==
    LET multiplier == IF Os2ssReturn(t) /\ t.ReadTotalTimeoutMultiplier = MaxUlong
                      THEN 0 ELSE t.ReadTotalTimeoutMultiplier
    IN  needed * multiplier + t.ReadTotalTimeoutConstant

ReadTimersOf == [returnWithWhatsPresent : BOOLEAN, os2ssreturn : BOOLEAN,
                 UseIntervalTimer : BOOLEAN, UseTotalTimer : BOOLEAN,
                 IntervalTime : Nat, TotalTime : Nat]

CalculateReadTimers(t, needed) ==
    [returnWithWhatsPresent |-> ReturnWithWhatsPresent(t),
     os2ssreturn            |-> Os2ssReturn(t),
     UseIntervalTimer       |-> UsesIntervalTimer(t),
     UseTotalTimer          |-> UsesTotalTimer(t),
     IntervalTime           |-> t.ReadIntervalTimeout,
     TotalTime              |-> TotalTime(t, needed)]

============================================================================
