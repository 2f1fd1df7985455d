---------------------------- MODULE MCIoControl ----------------------------
(***************************************************************************)
(* Settings for TLC.  Of the line: words at both ends of the range with    *)
(* the longest stop they take, and a setting that is wrong in each group   *)
(* of bits.                                                                *)
(***************************************************************************)
EXTENDS IoControl

Setting(word, stop, parity) ==
    [wordLength |-> word, stopBits |-> stop, parity |-> parity]

MCLineSettings ==
    {Setting(5, "1.5", "ODD"), Setting(5, "2", "NO"), Setting(8, "2", "MARK"),
     Setting(8, "1.5", "SPACE"), Setting(7, "1", "?"), Setting(9, "1", "NO")}

MCTimeSettings ==
    {AllMaxUlong, [interval |-> MaxUlong, multiplier |-> 0, constant |-> 0]}

=============================================================================
