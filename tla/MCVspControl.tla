---------------------------- MODULE MCVspControl ----------------------------
(***************************************************************************)
(* VspControl on a machine with a port of the driver, one whose hardware   *)
(* id is in other letters, and one of another driver; one device more can  *)
(* be created.                                                             *)
(***************************************************************************)
EXTENDS VspControl, TLC

CONSTANTS own, new, alt, other, p1, p2

MCPrograms  == {p1, p2}
MCDevices   == {own, new, alt, other}
MCForeign   == {other}
MCOtherCase == {alt}
MCPorts     == 1..4

(* Which number a device has does not matter.                              *)
MCInit ==
    /\ VspInit
    /\ unused = {new}
    /\ portName = own :> 1 @@ alt :> 2 @@ other :> 3 @@ new :> None

(* One program runs any command, the other one that changes what there is. *)
Changing == {"add", "remove", "uninstall", "deleteport"}

MCNext ==
    \E p \in Programs :
       \/ \E c \in IF p = p1 THEN Commands ELSE Changing : Start(p, c)
       \/ Runs(p)

MCSpec == MCInit /\ [][MCNext]_vspVars /\ \A p \in Programs : WF_vspVars(Runs(p))

=============================================================================
