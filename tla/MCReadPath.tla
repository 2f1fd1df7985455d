---------------------------- MODULE MCReadPath ----------------------------
(***************************************************************************)
(* Instances of ReadPath for TLC.  MaxUlong is 3; timeouts by name.        *)
(***************************************************************************)
EXTENDS ReadPathProperties

Times(interval, multiplier, constant) ==
    [ReadIntervalTimeout        |-> interval,
     ReadTotalTimeoutMultiplier |-> multiplier,
     ReadTotalTimeoutConstant   |-> constant]

Immediate    == Times(MaxUlong, 0, 0)
FirstByte    == Times(MaxUlong, MaxUlong, 1)
IntervalOnly == Times(1, 0, 0)
TotalOnly    == Times(0, 0, 1)

JustImmediate  == {Immediate}
JustInterval   == {IntervalOnly}
JustTotal      == {TotalOnly}
UntimedOrFirst == {NoTimeouts, FirstByte}

(* Requests are interchangeable: the code orders them by arrival only.     *)
Symmetry == Permutations(Requests)

============================================================================
