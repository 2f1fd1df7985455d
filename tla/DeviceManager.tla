---------------------------- MODULE DeviceManager ----------------------------
(***************************************************************************)
(* DeviceManager, SoftwareDeviceManager and PortDeviceManager: what the    *)
(* programs that run vspControl do to the devices of the class "Ports" and *)
(* to the driver package, system call by system call.  Any call may fail,  *)
(* and programs run side by side, so that what one has read may be out of  *)
(* date when it acts on it.                                                *)
(*                                                                         *)
(* A device is "bare" from its registration until it has a driver; only    *)
(* then it has a port name.  Handles are released by destructors and are   *)
(* left out, as is the text that is printed.                               *)
(***************************************************************************)
EXTENDS Integers, FiniteSets

CONSTANTS
    Programs,   \* those that call the device manager, each once
    Devices,    \* device instances
    Foreign,    \* those whose hardware id is another
    OtherCase,  \* those whose hardware id is UMDF\HtsVsp in other letters
    Ports,      \* COM numbers
    None

ASSUME DeviceManagerAssumption ==
    /\ Foreign \cup OtherCase \subseteq Devices /\ Foreign \cap OtherCase = {}
    /\ Ports \subseteq Nat
    /\ None \notin Devices \cup Ports

(* What the comparison with hwid takes for the driver's: uninstallDriver   *)
(* ignores the case of letters, enumClassDevices does not.                 *)
AnyCase == Devices \ Foreign
Exact   == AnyCase \ OtherCase

Operations == {"install", "uninstall", "add", "list", "remove", "enable", "disable"}
ByName     == {"remove", "enable", "disable"}

VARIABLES
    (* the system *)
    tree,      \* of each device: "absent", "bare" or "installed"
    enabled,   \* the devices that are not disabled
    portName,  \* their PortName
    unused,    \* instance ids that have not been generated
    store,     \* the driver package is in the driver store
    comDb,     \* COM numbers that the port database has given away
    (* each program: its call and the locals of that *)
    op, at,    \* which call, and its next system call
    target,    \* targetName of the context
    infoSet,   \* devices of hDevInfo that are not enumerated yet
    device,    \* devInfoData
    found,     \* found of the context
    oemFiles,  \* oemfiles: packages ("oem"), or "" of one that was not read
    result,    \* what the call has returned, if it has
    (* history *)
    changed,   \* devices that the call has changed, before an install not counted
    seen,      \* ... that an uninstall had before it
    missed     \* ... and those of them that its enumeration did not get to know

systemVars  == <<tree, enabled, portName, unused, store, comDb>>
localVars   == <<infoSet, device, found, oemFiles>>
historyVars == <<changed, seen, missed>>
dmVars      == <<systemVars, op, at, target, localVars, result, historyVars>>

Present == {d \in Devices : tree[d] # "absent"}

(* Devices of earlier days: one may have been left bare.                   *)
DmInit ==
    /\ unused \in {u \in SUBSET Exact : u # {}}
    /\ tree \in [Devices -> {"absent", "bare", "installed"}]
    /\ \A d \in Devices : /\ d \in unused <=> tree[d] = "absent"
                          /\ d \notin Exact => tree[d] = "installed"
    /\ enabled = {d \in Devices : tree[d] = "installed"}
    /\ portName \in [Devices -> Ports \cup {None}]
    /\ \A d, e \in Devices : /\ portName[d] = None <=> tree[d] # "installed"
                             /\ portName[d] = portName[e] => d = e \/ portName[d] = None
    /\ comDb = {portName[d] : d \in enabled}
    /\ store = TRUE
    /\ op = [p \in Programs |-> "none"] /\ at = [p \in Programs |-> "none"]
    /\ target = [p \in Programs |-> None]
    /\ infoSet = [p \in Programs |-> {}] /\ device = [p \in Programs |-> None]
    /\ found = [p \in Programs |-> FALSE] /\ oemFiles = [p \in Programs |-> {}]
    /\ result = [p \in Programs |-> FALSE]
    /\ changed = [p \in Programs |-> {}] /\ seen = [p \in Programs |-> {}]
    /\ missed = [p \in Programs |-> {}]

----------------------------------------------------------------------------

GoTo(p, step) == at' = [at EXCEPT ![p] = step]

Step(p, from, to) ==
    /\ at[p] = from
    /\ GoTo(p, to)
    /\ UNCHANGED <<op, target, result>>

(* The locals of a function are gone when it returns.                      *)
LeaveScope(p) ==
    /\ infoSet' = [infoSet EXCEPT ![p] = {}]
    /\ found' = [found EXCEPT ![p] = FALSE]
    /\ oemFiles' = [oemFiles EXCEPT ![p] = {}]

(* The end of the call.                                                    *)
Return(p, value) ==
    /\ GoTo(p, "returned")
    /\ result' = [result EXCEPT ![p] = value]
    /\ LeaveScope(p)
    /\ UNCHANGED <<op, target>>

(* The end of uninstallDriver, of which installDriver ignores the result.  *)
ReturnFromUninstall(p, value) ==
    /\ device' = [device EXCEPT ![p] = None]
    /\ IF op[p] = "install"
       THEN GoTo(p, "list") /\ LeaveScope(p) /\ UNCHANGED <<op, target, result>>
       ELSE Return(p, value)

Call(p, o, t) ==
    /\ op[p] = "none"
    /\ op' = [op EXCEPT ![p] = o]
    /\ target' = [target EXCEPT ![p] = IF o \in ByName THEN t ELSE None]
    /\ GoTo(p, IF o = "add" THEN "list" ELSE "open")
    /\ UNCHANGED <<systemVars, localVars, result, historyVars>>

----------------------------------------------------------------------------
(* Enumeration: uninstallDriver and enumClassDevices.                      *)

(* The end of enumeration and change, by a failure or not.                 *)
ReturnFrom(p, value) ==
    IF op[p] \in {"install", "uninstall"} THEN ReturnFromUninstall(p, value)
    ELSE Return(p, value) /\ UNCHANGED device

(* getDevInfoSet.                                                          *)
OpenSet(p) ==
    /\ Step(p, "open", "enum")
    /\ infoSet' = [infoSet EXCEPT ![p] = Present]
    /\ seen' = [seen EXCEPT ![p] = IF op[p] = "uninstall" THEN Present ELSE @]
    /\ UNCHANGED <<systemVars, device, found, oemFiles, changed, missed>>

OpenSetFails(p) ==
    /\ at[p] = "open"
    /\ ReturnFrom(p, FALSE)
    /\ UNCHANGED <<systemVars, historyVars>>

(* mutant: both comparisons heed the case.                                 *)
MatchesCase(p, d) == d \in Exact

Matches(p, d) == d \in IF op[p] \in {"install", "uninstall"} THEN AnyCase ELSE Exact

(* An uninstall does not get to know devices of the driver.                *)
Misses(p, ds) ==
    missed' = [missed EXCEPT ![p] = IF op[p] = "uninstall" THEN @ \cup (ds \ Foreign) ELSE @]

(* The next device and its hardware ids; of one that is gone, or whose ids *)
(* cannot be read, there are none, and it is passed over.                  *)
NextDevice(p) ==
    /\ at[p] = "enum"
    /\ \E d \in infoSet[p] :
          /\ infoSet' = [infoSet EXCEPT ![p] = @ \ {d}]
          /\ device' = [device EXCEPT ![p] = d]
          /\ \/ /\ d \in Present /\ Matches(p, d)
                /\ GoTo(p, IF op[p] \in {"install", "uninstall"} THEN "inf" ELSE "callback")
                /\ UNCHANGED missed
             \/ /\ d \notin Present \/ ~Matches(p, d)
                /\ UNCHANGED <<at, missed>>
             \/ /\ Misses(p, {d})
                /\ UNCHANGED at
    /\ UNCHANGED <<systemVars, op, target, found, oemFiles, result, changed, seen>>

(* The loop ends: uninstallDriver goes on to the packages, the others      *)
(* return found.                                                           *)
EndsEnumeration(p) ==
    /\ at[p] = "enum"
    /\ IF op[p] \in {"install", "uninstall"}
       THEN /\ GoTo(p, "packages")
            /\ infoSet' = [infoSet EXCEPT ![p] = {}]
            /\ UNCHANGED <<op, target, result, found, oemFiles>>
       ELSE Return(p, found[p])
    /\ UNCHANGED <<systemVars, device, changed, seen>>

(* No device left.                                                         *)
EndOfSet(p) ==
    /\ infoSet[p] = {}
    /\ EndsEnumeration(p)
    /\ UNCHANGED missed

(* SetupDiEnumDeviceInfo fails: nobody asks whether that was the end.      *)
EnumerationFails(p) ==
    /\ infoSet[p] # {}
    /\ EndsEnumeration(p)
    /\ Misses(p, infoSet[p])

(* listPortCallback.                                                       *)
ListPortCallback(p) ==
    /\ op[p] = "list" /\ Step(p, "callback", "enum")
    /\ found' = [found EXCEPT ![p] = TRUE]
    /\ UNCHANGED <<systemVars, infoSet, device, oemFiles, historyVars>>

(* mutant: the enumeration goes on after the port is found, and leaves the *)
(* last device of the class in the context.                                *)
FoundAndOn(p) ==
    /\ op[p] \in ByName /\ at[p] = "callback"
    /\ portName[device[p]] = target[p]
    /\ found' = [found EXCEPT ![p] = TRUE]
    /\ GoTo(p, "change")
    /\ device' = [device EXCEPT ![p] =
          IF infoSet[p] = {} THEN @ ELSE CHOOSE d \in infoSet[p] : TRUE]
    /\ UNCHANGED <<systemVars, op, target, infoSet, oemFiles, result, historyVars>>

(* devicePortCallback.  A name that cannot be read is "", so that even the *)
(* port it looks for may be passed over.                                   *)
DevicePortCallbackFinds(p) ==
    /\ op[p] \in ByName /\ Step(p, "callback", "change")
    /\ portName[device[p]] = target[p]
    /\ found' = [found EXCEPT ![p] = TRUE]
    /\ UNCHANGED <<systemVars, infoSet, device, oemFiles, historyVars>>

DevicePortCallbackPasses(p) ==
    /\ op[p] \in ByName /\ Step(p, "callback", "enum")
    /\ UNCHANGED <<systemVars, localVars, historyVars>>

(* InfPath of the device's driver: read, or found and not read, in which   *)
(* case "" is noted, or not found, and the package will stay.              *)
ReadInfPath(p) ==
    /\ Step(p, "inf", "change")
    /\ \E files \in {{}, {""}, {"oem"}} :
          /\ files # {} => tree[device[p]] = "installed"
          /\ oemFiles' = [oemFiles EXCEPT ![p] = @ \cup files]
    /\ UNCHANGED <<systemVars, infoSet, device, found, historyVars>>

----------------------------------------------------------------------------
(* The change of the device: setClassDeviceState, and the same calls in    *)
(* uninstallDriver.                                                        *)

(* DIF_REMOVE or DIF_PROPERTYCHANGE, once the parameters are set.          *)
CallInstaller(p) ==
    /\ at[p] = "change"
    /\ device[p] \in Present
    /\ tree' = IF op[p] \in {"enable", "disable"} THEN tree
               ELSE [tree EXCEPT ![device[p]] = "absent"]
    /\ enabled' = IF op[p] = "enable" THEN enabled \cup {device[p]}
                  ELSE enabled \ {device[p]}
    /\ changed' = [changed EXCEPT ![p] = IF op[p] = "install" THEN @ ELSE @ \cup {device[p]}]
    /\ IF op[p] \in ByName THEN Return(p, TRUE)
       ELSE GoTo(p, "enum") /\ UNCHANGED <<op, target, result, infoSet, found, oemFiles>>
    /\ UNCHANGED <<portName, unused, store, comDb, device, seen, missed>>

(* mutant: the result of the class installer is not looked at.             *)
FailsUnseen(p) ==
    /\ at[p] = "change"
    /\ ReturnFrom(p, TRUE)
    /\ UNCHANGED <<systemVars, historyVars>>

CallInstallerFails(p) ==
    /\ at[p] = "change"
    /\ ReturnFrom(p, FALSE)
    /\ UNCHANGED <<systemVars, historyVars>>

(* SetupUninstallOEMInf of the files in their order, "" first, up to one   *)
(* that fails: "" does, and a package that is not there.                   *)
RemovePackage(p) ==
    /\ Step(p, "packages", "packages")
    /\ oemFiles[p] = {"oem"} /\ store
    /\ store' = FALSE
    /\ oemFiles' = [oemFiles EXCEPT ![p] = {}]
    /\ UNCHANGED <<tree, enabled, portName, unused, comDb, infoSet, device, found,
                   historyVars>>

RemovePackageFails(p) ==
    /\ at[p] = "packages"
    /\ oemFiles[p] # {}
    /\ ReturnFromUninstall(p, FALSE)
    /\ UNCHANGED <<systemVars, historyVars>>

PackagesRemoved(p) ==
    /\ at[p] = "packages"
    /\ oemFiles[p] = {}
    /\ ReturnFromUninstall(p, TRUE)
    /\ UNCHANGED <<systemVars, historyVars>>

----------------------------------------------------------------------------
(* Adding a device: createNewDeviceInfoSet, addNewDevice, addDevice and    *)
(* the rest of installDriver.                                              *)

CreateDeviceInfo(p) ==
    /\ Step(p, "list", "register")
    /\ \E d \in unused : /\ device' = [device EXCEPT ![p] = d]
                         /\ unused' = unused \ {d}
    /\ UNCHANGED <<tree, enabled, portName, store, comDb, infoSet, found, oemFiles,
                   historyVars>>

(* addNewDevice.                                                           *)
RegisterDevice(p) ==
    /\ Step(p, "register", IF op[p] = "install" THEN "update" ELSE "driver")
    /\ tree' = [tree EXCEPT ![device[p]] = "bare"]
    /\ UNCHANGED <<enabled, portName, unused, store, comDb, localVars, historyVars>>

(* The driver for the devices ds: each that has none becomes a port, with  *)
(* a number that is free.                                                  *)
DriverFor(ds) ==
    /\ tree' = [d \in Devices |-> IF d \in ds THEN "installed" ELSE tree[d]]
    /\ enabled' = enabled \cup {d \in ds : tree[d] = "bare"}
    /\ portName' \in [Devices -> Ports \cup {None}]
    /\ \A d \in Devices :
          IF d \in ds /\ portName[d] = None
          THEN portName'[d] \in Ports \ comDb
          ELSE portName'[d] = portName[d]
    /\ \A d, e \in {f \in ds : portName[f] = None} : portName'[d] = portName'[e] => d = e
    /\ comDb' = comDb \cup {portName'[d] : d \in ds}

(* DiInstallDevice takes a driver from the store.                          *)
InstallDevice(p) ==
    /\ at[p] = "driver"
    /\ store /\ device[p] \in Present
    /\ DriverFor({device[p]})
    /\ changed' = [changed EXCEPT ![p] = @ \cup {device[p]}]
    /\ Return(p, TRUE)
    /\ UNCHANGED <<unused, store, device, seen, missed>>

(* UpdateDriverForPlugAndPlayDevices puts the package into the store and   *)
(* gives the driver to all devices of that hardware id: if there is one it *)
(* succeeds, whether the device of this call is still among them or not.   *)
(* The keys that are opened afterwards are only listed.                    *)
UpdateDriver(p) ==
    /\ at[p] = "update"
    /\ Present \cap AnyCase # {}
    /\ store' = TRUE
    /\ DriverFor(Present \cap AnyCase)
    /\ changed' = [changed EXCEPT ![p] = @ \cup (Present \cap AnyCase)]
    /\ Return(p, TRUE)
    /\ UNCHANGED <<unused, device, seen, missed>>

(* mutant: nobody looks whether the device could be created.               *)
UnlookedFailure(p) ==
    /\ at[p] = "list"
    /\ GoTo(p, "register")
    /\ UNCHANGED <<systemVars, op, target, localVars, result, historyVars>>

(* A failure at any of these leaves what has been done: a registered       *)
(* device stays, without a driver.                                         *)
AddingFails(p) ==
    /\ at[p] \in {"list", "register", "driver", "update"}
    /\ Return(p, FALSE)
    /\ UNCHANGED <<systemVars, device, historyVars>>

----------------------------------------------------------------------------

Works(p) ==
    \/ OpenSet(p) \/ OpenSetFails(p) \/ NextDevice(p) \/ EndOfSet(p) \/ EnumerationFails(p)
    \/ ListPortCallback(p) \/ DevicePortCallbackFinds(p) \/ DevicePortCallbackPasses(p)
    \/ ReadInfPath(p)
    \/ CallInstaller(p) \/ CallInstallerFails(p)
    \/ RemovePackage(p) \/ RemovePackageFails(p) \/ PackagesRemoved(p)
    \/ CreateDeviceInfo(p) \/ RegisterDevice(p)
    \/ InstallDevice(p) \/ UpdateDriver(p) \/ AddingFails(p)

Calls(p) ==
    \E o \in Operations, t \in Ports \cup {None} :
       (o \in ByName => t # None) /\ Call(p, o, t)

(* Whoever releases a number in the port database: it may be in use.       *)
ReleasePort(n) ==
    /\ comDb' = comDb \ {n}
    /\ UNCHANGED <<tree, enabled, portName, unused, store, op, at, target, localVars,
                   result, historyVars>>

DmNext ==
    \/ \E p \in Programs : Calls(p) \/ Works(p)
    \/ \E n \in Ports : ReleasePort(n)

DmSpec == DmInit /\ [][DmNext]_dmVars

----------------------------------------------------------------------------

Places == {"none", "open", "enum", "callback", "inf", "change", "packages", "list",
           "register", "driver", "update", "returned"}

DmTypeOK ==
    /\ tree \in [Devices -> {"absent", "bare", "installed"}]
    /\ enabled \subseteq Devices /\ unused \subseteq Devices
    /\ portName \in [Devices -> Ports \cup {None}]
    /\ store \in BOOLEAN /\ comDb \subseteq Ports
    /\ op \in [Programs -> Operations \cup {"none"}]
    /\ at \in [Programs -> Places]
    /\ target \in [Programs -> Ports \cup {None}]
    /\ infoSet \in [Programs -> SUBSET Devices] /\ seen \in [Programs -> SUBSET Devices]
    /\ missed \in [Programs -> SUBSET Devices]
    /\ device \in [Programs -> Devices \cup {None}]
    /\ found \in [Programs -> BOOLEAN]
    /\ oemFiles \in [Programs -> SUBSET {"", "oem"}]
    /\ result \in [Programs -> BOOLEAN]
    /\ changed \in [Programs -> SUBSET Devices]
    /\ \A p \in Programs :
          at[p] \in {"callback", "inf", "change", "register", "driver", "update"} =>
             device[p] # None

(* Whom a call may change: remove, enable and disable the port they were   *)
(* told, uninstall the devices of the driver, add the device it creates,   *)
(* install all of these.                                                   *)
MayChange(p, d) ==
    \/ op[p] \in ByName /\ d \in Exact /\ portName[d] = target[p]
    \/ op[p] \in {"install", "uninstall"} /\ d \in AnyCase
    \/ op[p] = "add" /\ d = device[p]

(* Nobody touches a device that it was not told to, least of all one of    *)
(* another driver: although the calls only carry along the data of the     *)
(* device last enumerated, and devices come and go meanwhile.              *)
ChangesOnlyItsTarget ==
    [][\A d \in Devices :
          tree'[d] # tree[d] \/ (d \in enabled' <=> d \notin enabled) =>
             \E p \in Programs : at[p] # at'[p] /\ MayChange(p, d)]_dmVars

(* "@return bool true on success, false on failure": of the calls that     *)
(* change one device TRUE says that it has been changed, and FALSE that    *)
(* nothing has; an install returns TRUE if some device, though maybe not   *)
(* its own any more, has been given the driver, and FALSE if none has.     *)
ResultTellsWhatHappened ==
    \A p \in Programs :
       at[p] = "returned" /\ op[p] \notin {"uninstall", "list"} =>
          /\ result[p] <=> changed[p] # {}
          /\ op[p] # "install" => changed[p] \subseteq {device[p]}

(* An uninstall that succeeds has removed every device of the driver that  *)
(* was there when it began, in whatever letters its id is written, and     *)
(* whatever other programs did meanwhile, except those whose ids could not *)
(* be read or that an enumeration which failed had not come to: of these   *)
(* TRUE says nothing, for the code takes both for a device of another      *)
(* driver and for the end of the set.                                      *)
UninstallRemovesAll ==
    \A p \in Programs :
       at[p] = "returned" /\ op[p] = "uninstall" /\ result[p] =>
          \A d \in seen[p] \ (Foreign \cup missed[p]) : tree[d] = "absent"

============================================================================
