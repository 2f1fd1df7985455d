------------------------ MODULE DeviceManagerProofs ------------------------
(***************************************************************************)
(* Of DeviceManager, for any number of programs and devices: the types;    *)
(* that a call changes no device but its target; that the result tells     *)
(* what happened; and that an uninstall that succeeds has removed all that *)
(* it got to know.                                                         *)
(***************************************************************************)
EXTENDS DeviceManager, TLAPS

Uninstalling == {"install", "uninstall"}

(* Where a call can be, and what it then knows of the device it holds.     *)
InCall(p) ==
    /\ op[p] = "none" <=> at[p] = "none"
    /\ op[p] \in ByName => target[p] \in Ports
    /\ at[p] \in {"open", "enum"} => op[p] # "add"
    /\ at[p] = "callback" => op[p] \in ByName \cup {"list"} /\ device[p] \in Exact
    /\ at[p] \in {"inf", "packages"} => op[p] \in Uninstalling
    /\ at[p] = "inf" => device[p] \in AnyCase
    /\ at[p] = "change" =>
          \/ op[p] \in ByName /\ device[p] \in Exact /\ portName[device[p]] = target[p]
          \/ op[p] \in Uninstalling /\ device[p] \in AnyCase
    /\ at[p] \in {"list", "register"} => op[p] \in {"install", "add"}
    /\ at[p] = "driver" => op[p] = "add"
    /\ at[p] = "update" => op[p] = "install"
    /\ at[p] \in {"register", "driver", "update"} => device[p] \in Exact

CallInv == \A p \in Programs : InCall(p)

(* A device that is created is known to nobody: no enumeration has had it, *)
(* and no call has changed it.                                             *)
Unknown(d) == \A q \in Programs : d \notin seen[q] \cup changed[q]

FreshInv ==
    /\ unused \subseteq Exact
    /\ \A d \in unused : tree[d] = "absent" /\ Unknown(d)
    /\ \A p \in Programs :
          /\ at[p] \in {"register", "driver", "update"} =>
                device[p] \notin unused \cup changed[p]
          /\ at[p] = "register" => tree[device[p]] = "absent" /\ Unknown(device[p])
    /\ \A p, q \in Programs :
          at[p] = "register" /\ at[q] = "register" /\ p # q => device[p] # device[q]

(* Until its end a call has changed nothing, but for an uninstall.         *)
InResult(p) ==
    /\ at[p] # "returned" /\ op[p] # "uninstall" => changed[p] = {}
    /\ op[p] \in ByName \cup {"none"} /\ at[p] \in {"none", "open", "enum", "callback"} =>
          ~found[p]
    /\ at[p] \in {"none", "list"} => device[p] = None

ResultInv == (\A p \in Programs : InResult(p)) /\ ResultTellsWhatHappened

(* What an uninstall has still to remove of what it has seen.              *)
Left(p) == infoSet[p] \cup (IF at[p] \in {"inf", "change"} THEN {device[p]} ELSE {})

InUninstall(p) ==
    /\ op[p] = "uninstall" /\ at[p] # "returned" =>
          \A d \in seen[p] \ (Foreign \cup missed[p] \cup Left(p)) : tree[d] = "absent"
    /\ op[p] = "uninstall" /\ at[p] = "packages" => infoSet[p] = {}
    /\ at[p] \in {"none", "open"} => seen[p] = {}

UninstallInv == (\A p \in Programs : InUninstall(p)) /\ UninstallRemovesAll

DmInv == DmTypeOK /\ CallInv /\ FreshInv /\ ResultInv /\ UninstallInv

----------------------------------------------------------------------------

SystemTypes ==
    /\ tree \in [Devices -> {"absent", "bare", "installed"}]
    /\ enabled \subseteq Devices /\ unused \subseteq Devices
    /\ portName \in [Devices -> Ports \cup {None}]
    /\ store \in BOOLEAN /\ comDb \subseteq Ports

PlaceTypes ==
    /\ op \in [Programs -> Operations \cup {"none"}]
    /\ at \in [Programs -> Places]
    /\ target \in [Programs -> Ports \cup {None}]
    /\ result \in [Programs -> BOOLEAN]

LocalTypes ==
    /\ infoSet \in [Programs -> SUBSET Devices]
    /\ device \in [Programs -> Devices \cup {None}]
    /\ found \in [Programs -> BOOLEAN]
    /\ oemFiles \in [Programs -> SUBSET {"", "oem"}]

HistoryTypes ==
    /\ seen \in [Programs -> SUBSET Devices]
    /\ changed \in [Programs -> SUBSET Devices]
    /\ missed \in [Programs -> SUBSET Devices]

HoldsADevice ==
    \A p \in Programs :
       at[p] \in {"callback", "inf", "change", "register", "driver", "update"} =>
          device[p] # None

Types == SystemTypes /\ PlaceTypes /\ LocalTypes /\ HistoryTypes

(* What a step of p leaves alone of another program.                       *)
Others(p) ==
    \A q \in Programs \ {p} :
       /\ op'[q] = op[q] /\ at'[q] = at[q] /\ target'[q] = target[q]
       /\ result'[q] = result[q]
       /\ infoSet'[q] = infoSet[q] /\ device'[q] = device[q] /\ found'[q] = found[q]
       /\ changed'[q] = changed[q] /\ seen'[q] = seen[q] /\ missed'[q] = missed[q]

LEMMA TypeParts == DmTypeOK <=> Types /\ HoldsADevice
BY DEF DmTypeOK, Types, SystemTypes, PlaceTypes, LocalTypes, HistoryTypes, HoldsADevice

(* The end of a call is about the one who calls.                           *)
LEMMA ReturnOthers ==
    ASSUME Types, NEW p \in Programs, NEW v \in BOOLEAN,
           ReturnFrom(p, v) \/ ReturnFromUninstall(p, v) \/ (Return(p, v) /\ UNCHANGED device)
    PROVE  \A q \in Programs \ {p} :
              /\ op'[q] = op[q] /\ at'[q] = at[q] /\ target'[q] = target[q]
              /\ result'[q] = result[q]
              /\ infoSet'[q] = infoSet[q] /\ device'[q] = device[q] /\ found'[q] = found[q]
<1>1. /\ GoTo(p, "returned") => \A q \in Programs \ {p} : at'[q] = at[q]
      /\ GoTo(p, "list") => \A q \in Programs \ {p} : at'[q] = at[q]
  BY DEF GoTo, Types, PlaceTypes
<1>2. ASSUME LeaveScope(p)
      PROVE  \A q \in Programs \ {p} : infoSet'[q] = infoSet[q] /\ found'[q] = found[q]
  BY <1>2 DEF LeaveScope, Types, LocalTypes
<1>3. ASSUME Return(p, v)
      PROVE  \A q \in Programs \ {p} :
                /\ op'[q] = op[q] /\ at'[q] = at[q] /\ target'[q] = target[q]
                /\ result'[q] = result[q]
                /\ infoSet'[q] = infoSet[q] /\ found'[q] = found[q]
  BY <1>1, <1>2, <1>3 DEF Return, Types, PlaceTypes
<1>4. ASSUME ReturnFromUninstall(p, v)
      PROVE  \A q \in Programs \ {p} : device'[q] = device[q]
  BY <1>4 DEF ReturnFromUninstall, Types, LocalTypes
<1>5. CASE Return(p, v) /\ UNCHANGED device
  BY <1>3, <1>5
<1>6. CASE ReturnFromUninstall(p, v)
  BY <1>1, <1>2, <1>3, <1>4, <1>6 DEF ReturnFromUninstall
<1>. QED
  BY <1>5, <1>6 DEF ReturnFrom

(* A step of p is about p.                                                 *)
LEMMA OthersUntouched ==
    ASSUME Types, NEW p \in Programs, Works(p)
    PROVE  Others(p)
<1>1. CASE OpenSet(p)
  BY <1>1 DEF OpenSet, Step, GoTo, Present, systemVars, localVars, historyVars,
       Others, Types, PlaceTypes, LocalTypes, HistoryTypes
<1>2. CASE OpenSetFails(p)
  BY <1>2, ReturnOthers DEF OpenSetFails, historyVars, Others
<1>3. CASE NextDevice(p)
  BY <1>3 DEF NextDevice, GoTo, Misses, Matches, Present, systemVars, localVars,
       historyVars, Others, Types, PlaceTypes, LocalTypes, HistoryTypes
<1>4. CASE EndOfSet(p) \/ EnumerationFails(p)
  <2>1. EndsEnumeration(p) /\ (missed' = missed \/ Misses(p, infoSet[p]))
    BY <1>4 DEF EndOfSet, EnumerationFails
  <2>2. \A q \in Programs \ {p} : missed'[q] = missed[q]
    BY <2>1 DEF Misses, Types, HistoryTypes
  <2>. QED
    BY <2>1, <2>2 DEF EndsEnumeration, Return, LeaveScope, GoTo, Others, Types, PlaceTypes,
         LocalTypes
<1>5. CASE ListPortCallback(p)
  BY <1>5 DEF ListPortCallback, Step, GoTo, systemVars, localVars, historyVars,
       Others, Types, PlaceTypes, LocalTypes, HistoryTypes
<1>6. CASE DevicePortCallbackFinds(p)
  BY <1>6 DEF DevicePortCallbackFinds, Step, GoTo, systemVars, localVars, historyVars,
       Others, Types, PlaceTypes, LocalTypes, HistoryTypes
<1>7. CASE DevicePortCallbackPasses(p)
  BY <1>7 DEF DevicePortCallbackPasses, Step, GoTo, systemVars, localVars,
       historyVars, Others, Types, PlaceTypes, LocalTypes, HistoryTypes
<1>8. CASE ReadInfPath(p)
  BY <1>8 DEF ReadInfPath, Step, GoTo, systemVars, localVars, historyVars,
       Others, Types, PlaceTypes, LocalTypes, HistoryTypes
<1>9. CASE CallInstaller(p)
  <2>1. \A q \in Programs \ {p} : changed'[q] = changed[q]
    BY <1>9 DEF CallInstaller, Types, HistoryTypes
  <2>2. device' = device /\ seen' = seen /\ missed' = missed
    BY <1>9 DEF CallInstaller
  <2>3. CASE op[p] \in ByName
    BY <1>9, <2>1, <2>2, <2>3, ReturnOthers DEF CallInstaller, Others
  <2>4. CASE op[p] \notin ByName
    BY <1>9, <2>1, <2>2, <2>4 DEF CallInstaller, GoTo, Others, Types, PlaceTypes
  <2>. QED
    BY <2>3, <2>4
<1>10. CASE CallInstallerFails(p)
  BY <1>10, ReturnOthers DEF CallInstallerFails, historyVars, Others
<1>11. CASE RemovePackage(p)
  BY <1>11 DEF RemovePackage, Step, GoTo, systemVars, localVars, historyVars, Others,
       Types, PlaceTypes, LocalTypes, HistoryTypes
<1>12. CASE RemovePackageFails(p)
  BY <1>12, ReturnOthers DEF RemovePackageFails, historyVars, Others
<1>13. CASE PackagesRemoved(p)
  BY <1>13, ReturnOthers DEF PackagesRemoved, historyVars, Others
<1>14. CASE CreateDeviceInfo(p)
  BY <1>14 DEF CreateDeviceInfo, Step, GoTo, systemVars, localVars, historyVars,
       Others, Types, PlaceTypes, LocalTypes, HistoryTypes
<1>15. CASE RegisterDevice(p)
  BY <1>15 DEF RegisterDevice, Step, GoTo, systemVars, localVars, historyVars, Others,
       Types, PlaceTypes, LocalTypes, HistoryTypes
<1>16. CASE InstallDevice(p)
  BY <1>16 DEF InstallDevice, Return, LeaveScope, GoTo, DriverFor, Present,
       systemVars, localVars, historyVars, Others, Types, PlaceTypes, LocalTypes,
       HistoryTypes
<1>17. CASE UpdateDriver(p)
  BY <1>17 DEF UpdateDriver, Return, LeaveScope, GoTo, DriverFor, Present, systemVars,
       localVars, historyVars, Others, Types, PlaceTypes, LocalTypes, HistoryTypes
<1>18. CASE AddingFails(p)
  BY <1>18 DEF AddingFails, Return, LeaveScope, GoTo, systemVars, localVars,
       historyVars, Others, Types, PlaceTypes, LocalTypes, HistoryTypes
<1>. QED
  BY <1>1, <1>2, <1>3, <1>4, <1>5, <1>6, <1>7, <1>8, <1>9, <1>10, <1>11,
       <1>12, <1>13, <1>14, <1>15, <1>16, <1>17, <1>18 DEF Works

(* The ends of a call.                                                     *)
LEMMA ReturnTypes ==
    ASSUME Types, NEW p \in Programs, NEW v \in BOOLEAN,
           ReturnFrom(p, v) \/ ReturnFromUninstall(p, v) \/ (Return(p, v) /\ UNCHANGED device)
    PROVE  PlaceTypes' /\ LocalTypes'
<1>1. ASSUME LeaveScope(p), device' \in [Programs -> Devices \cup {None}]
      PROVE  LocalTypes'
  BY <1>1 DEF LeaveScope, Types, LocalTypes
<1>2. CASE Return(p, v) /\ UNCHANGED device
  BY <1>1, <1>2 DEF Return, GoTo, Types, PlaceTypes, LocalTypes, Places
<1>3. CASE ReturnFromUninstall(p, v)
  <2>1. LeaveScope(p) /\ device' \in [Programs -> Devices \cup {None}]
    BY <1>3 DEF ReturnFromUninstall, Return, Types, LocalTypes
  <2>2. PlaceTypes'
    BY <1>3 DEF ReturnFromUninstall, Return, GoTo, Types, PlaceTypes, Places
  <2>. QED
    BY <1>1, <2>1, <2>2
<1>. QED
  BY <1>2, <1>3 DEF ReturnFrom

(* A driver for the devices ds: names stay, and so does what is absent.    *)
LEMMA DriverForKeeps ==
    ASSUME SystemTypes, NEW ds \in SUBSET Present, DriverFor(ds)
    PROVE  /\ tree' \in [Devices -> {"absent", "bare", "installed"}]
           /\ enabled' \subseteq Devices /\ comDb' \subseteq Ports
           /\ portName' \in [Devices -> Ports \cup {None}]
           /\ \A d \in Devices : tree[d] = "absent" => tree'[d] = "absent"
           /\ \A d \in Devices : portName[d] # None => portName'[d] = portName[d]
<1>1. portName' \in [Devices -> Ports \cup {None}]
  BY DEF DriverFor
<1>2. \A d \in ds : portName'[d] \in Ports
  BY DEF DriverFor, SystemTypes, Present
<1>. QED
  BY <1>1, <1>2 DEF DriverFor, SystemTypes, Present

(* Types.                                                                  *)
LEMMA TypeStep ==
    ASSUME Types, NEW p \in Programs, Works(p)
    PROVE  Types'
<1>1. CASE OpenSet(p)
  BY <1>1 DEF OpenSet, Step, GoTo, Present, systemVars, localVars, historyVars, Types,
       SystemTypes, LocalTypes, PlaceTypes, Places, HistoryTypes
<1>2. CASE OpenSetFails(p)
  BY <1>2, ReturnTypes DEF OpenSetFails, systemVars, localVars, historyVars, Types,
       SystemTypes, HistoryTypes
<1>3. CASE NextDevice(p)
  <2>1. SystemTypes'
    BY <1>3 DEF NextDevice, GoTo, Misses, Matches, Present, systemVars, localVars,
       historyVars, Types, SystemTypes, LocalTypes
  <2>2. PlaceTypes'
    BY <1>3 DEF NextDevice, GoTo, Misses, Matches, Present, systemVars, localVars,
       historyVars, Types, PlaceTypes, Places, LocalTypes
  <2>3. LocalTypes'
    <3>1. PICK d \in infoSet[p] : /\ infoSet' = [infoSet EXCEPT ![p] = @ \ {d}]
                                  /\ device' = [device EXCEPT ![p] = d]
      BY <1>3 DEF NextDevice
    <3>. QED
      BY <1>3, <3>1 DEF NextDevice, Types, LocalTypes
  <2>4. HistoryTypes'
    <3>1. PICK d \in infoSet[p] : missed' = missed \/ Misses(p, {d})
      BY <1>3 DEF NextDevice
    <3>2. d \in Devices
      BY DEF Types, LocalTypes
    <3>3. missed' \in [Programs -> SUBSET Devices]
      BY <3>1, <3>2 DEF Misses, Types, HistoryTypes
    <3>. QED
      BY <1>3, <3>3 DEF NextDevice, Types, HistoryTypes
  <2>. QED
    BY <2>1, <2>2, <2>3, <2>4 DEF Types
<1>4. CASE EndOfSet(p) \/ EnumerationFails(p)
  <2>1. EndsEnumeration(p) /\ (missed' = missed \/ Misses(p, infoSet[p]))
    BY <1>4 DEF EndOfSet, EnumerationFails
  <2>2. PlaceTypes' /\ LocalTypes'
    <3>1. CASE op[p] \in {"install", "uninstall"}
      BY <2>1, <3>1 DEF EndsEnumeration, GoTo, Types, PlaceTypes, LocalTypes, Places
    <3>2. CASE op[p] \notin {"install", "uninstall"}
      <4>1. found[p] \in BOOLEAN
        BY DEF Types, LocalTypes
      <4>. QED
        BY <2>1, <3>2, <4>1, ReturnTypes DEF EndsEnumeration
    <3>. QED
      BY <3>1, <3>2
  <2>3. SystemTypes'
    BY <2>1 DEF EndsEnumeration, systemVars, Types, SystemTypes
  <2>4. HistoryTypes'
    BY <2>1 DEF EndsEnumeration, Misses, Types, HistoryTypes, LocalTypes
  <2>. QED
    BY <2>2, <2>3, <2>4 DEF Types
<1>5. CASE ListPortCallback(p)
  BY <1>5 DEF ListPortCallback, Step, GoTo, systemVars, localVars, historyVars, Types,
       SystemTypes, LocalTypes, PlaceTypes, Places, HistoryTypes
<1>6. CASE DevicePortCallbackFinds(p)
  BY <1>6 DEF DevicePortCallbackFinds, Step, GoTo, systemVars, localVars, historyVars,
       Types, SystemTypes, LocalTypes, PlaceTypes, Places, HistoryTypes
<1>7. CASE DevicePortCallbackPasses(p)
  BY <1>7 DEF DevicePortCallbackPasses, Step, GoTo, systemVars, localVars,
       historyVars, Types, SystemTypes, LocalTypes, PlaceTypes, Places, HistoryTypes
<1>8. CASE ReadInfPath(p)
  <2>1. SystemTypes'
    BY <1>8 DEF ReadInfPath, Step, GoTo, systemVars, localVars, historyVars,
       Types, SystemTypes, LocalTypes
  <2>2. PlaceTypes'
    BY <1>8 DEF ReadInfPath, Step, GoTo, systemVars, localVars, historyVars,
       Types, PlaceTypes, Places, LocalTypes
  <2>3. LocalTypes'
    <3>1. PICK files \in {{}, {""}, {"oem"}} :
             oemFiles' = [oemFiles EXCEPT ![p] = @ \cup files]
      BY <1>8 DEF ReadInfPath
    <3>2. oemFiles' \in [Programs -> SUBSET {"", "oem"}]
      BY <3>1 DEF Types, LocalTypes
    <3>. QED
      BY <1>8, <3>2 DEF ReadInfPath, Types, LocalTypes
  <2>4. HistoryTypes'
    BY <1>8 DEF ReadInfPath, Step, GoTo, systemVars, localVars, historyVars,
       Types, HistoryTypes, LocalTypes
  <2>. QED
    BY <2>1, <2>2, <2>3, <2>4 DEF Types
<1>9. CASE CallInstaller(p)
  <2>1. SystemTypes'
    BY <1>9, DeviceManagerAssumption DEF CallInstaller, Return, LeaveScope, GoTo,
       Present, systemVars, localVars, historyVars, Types, SystemTypes, LocalTypes
  <2>2. PlaceTypes'
    BY <1>9, DeviceManagerAssumption DEF CallInstaller, Return, LeaveScope, GoTo,
       Present, systemVars, localVars, historyVars, Types, PlaceTypes, Places,
       LocalTypes
  <2>3. LocalTypes'
    BY <1>9, DeviceManagerAssumption DEF CallInstaller, Return, LeaveScope, GoTo,
       Present, systemVars, localVars, historyVars, Types, LocalTypes, SystemTypes
  <2>4. HistoryTypes'
    BY <1>9, DeviceManagerAssumption DEF CallInstaller, Return, LeaveScope, GoTo,
       Present, systemVars, localVars, historyVars, Types, HistoryTypes, LocalTypes
  <2>. QED
    BY <2>1, <2>2, <2>3, <2>4 DEF Types
<1>10. CASE CallInstallerFails(p)
  BY <1>10, ReturnTypes DEF CallInstallerFails, systemVars, localVars, historyVars,
       Types, SystemTypes, HistoryTypes
<1>11. CASE RemovePackage(p)
  BY <1>11 DEF RemovePackage, Step, GoTo, systemVars, localVars, historyVars, Types,
       SystemTypes, LocalTypes, PlaceTypes, Places, HistoryTypes
<1>12. CASE RemovePackageFails(p)
  BY <1>12, ReturnTypes DEF RemovePackageFails, systemVars, localVars, historyVars,
       Types, SystemTypes, HistoryTypes
<1>13. CASE PackagesRemoved(p)
  BY <1>13, ReturnTypes DEF PackagesRemoved, systemVars, localVars, historyVars,
       Types, SystemTypes, HistoryTypes
<1>14. CASE CreateDeviceInfo(p)
  <2>1. SystemTypes'
    BY <1>14 DEF CreateDeviceInfo, Step, GoTo, systemVars, localVars, historyVars,
       Types, SystemTypes, LocalTypes
  <2>2. PlaceTypes'
    BY <1>14 DEF CreateDeviceInfo, Step, GoTo, systemVars, localVars, historyVars,
       Types, PlaceTypes, Places, LocalTypes
  <2>3. LocalTypes'
    BY <1>14 DEF CreateDeviceInfo, Step, GoTo, systemVars, localVars, historyVars,
       Types, LocalTypes, SystemTypes
  <2>4. HistoryTypes'
    BY <1>14 DEF CreateDeviceInfo, Step, GoTo, systemVars, localVars, historyVars,
       Types, HistoryTypes, LocalTypes
  <2>. QED
    BY <2>1, <2>2, <2>3, <2>4 DEF Types
<1>15. CASE RegisterDevice(p)
  BY <1>15 DEF RegisterDevice, Step, GoTo, systemVars, localVars, historyVars, Types,
       SystemTypes, LocalTypes, PlaceTypes, Places, HistoryTypes
<1>16. CASE InstallDevice(p)
  <2>1. {device[p]} \in SUBSET Present /\ DriverFor({device[p]})
    BY <1>16 DEF InstallDevice, AnyCase
  <2>2. SystemTypes'
    BY <1>16, <2>1, DriverForKeeps DEF InstallDevice, Types, SystemTypes
  <2>3. HistoryTypes'
    BY <1>16, <2>1 DEF InstallDevice, Types, HistoryTypes, Present
  <2>. QED
    BY <1>16, <2>2, <2>3, ReturnTypes DEF InstallDevice, Types
<1>17. CASE UpdateDriver(p)
  <2>1. Present \cap AnyCase \in SUBSET Present /\ DriverFor(Present \cap AnyCase)
    BY <1>17 DEF UpdateDriver, AnyCase
  <2>2. SystemTypes'
    BY <1>17, <2>1, DriverForKeeps DEF UpdateDriver, Types, SystemTypes
  <2>3. HistoryTypes'
    BY <1>17, <2>1 DEF UpdateDriver, Types, HistoryTypes, Present
  <2>. QED
    BY <1>17, <2>2, <2>3, ReturnTypes DEF UpdateDriver, Types
<1>18. CASE AddingFails(p)
  BY <1>18, ReturnTypes DEF AddingFails, systemVars, localVars, historyVars, Types,
       SystemTypes, HistoryTypes
<1>. QED
  BY <1>1, <1>2, <1>3, <1>4, <1>5, <1>6, <1>7, <1>8, <1>9, <1>10, <1>11,
       <1>12, <1>13, <1>14, <1>15, <1>16, <1>17, <1>18 DEF Works

(* What a step does to the devices: names stay, and an absent device       *)
(* appears only by being registered.                                       *)
LEMMA DevicesStep ==
    ASSUME Types, NEW p \in Programs, Works(p)
    PROVE  /\ unused' \subseteq unused
           /\ \A d \in Devices : portName[d] # None => portName'[d] = portName[d]
           /\ \A d \in Devices : tree[d] = "absent" /\ tree'[d] # "absent" =>
                 at[p] = "register" /\ d = device[p]
<1>1. CASE OpenSet(p)
  BY <1>1 DEF OpenSet, systemVars
<1>2. CASE OpenSetFails(p)
  BY <1>2 DEF OpenSetFails, systemVars
<1>3. CASE NextDevice(p)
  BY <1>3 DEF NextDevice, systemVars
<1>4. CASE EndOfSet(p) \/ EnumerationFails(p)
  BY <1>4 DEF EndOfSet, EnumerationFails, EndsEnumeration, systemVars
<1>5. CASE ListPortCallback(p)
  BY <1>5 DEF ListPortCallback, systemVars
<1>6. CASE DevicePortCallbackFinds(p)
  BY <1>6 DEF DevicePortCallbackFinds, systemVars
<1>7. CASE DevicePortCallbackPasses(p)
  BY <1>7 DEF DevicePortCallbackPasses, systemVars
<1>8. CASE ReadInfPath(p)
  BY <1>8 DEF ReadInfPath, systemVars
<1>9. CASE CallInstaller(p)
  BY <1>9 DEF CallInstaller, Return, LeaveScope, GoTo, Present, systemVars, localVars,
       historyVars, Types, SystemTypes
<1>10. CASE CallInstallerFails(p)
  BY <1>10 DEF CallInstallerFails, systemVars
<1>11. CASE RemovePackage(p)
  BY <1>11 DEF RemovePackage
<1>12. CASE RemovePackageFails(p)
  BY <1>12 DEF RemovePackageFails, systemVars
<1>13. CASE PackagesRemoved(p)
  BY <1>13 DEF PackagesRemoved, systemVars
<1>14. CASE CreateDeviceInfo(p)
  BY <1>14 DEF CreateDeviceInfo, Step, GoTo, systemVars, localVars, historyVars,
       Types, SystemTypes
<1>15. CASE RegisterDevice(p)
  BY <1>15 DEF RegisterDevice, Step, Types, SystemTypes
<1>16. CASE InstallDevice(p)
  <2>1. {device[p]} \in SUBSET Present /\ DriverFor({device[p]})
    BY <1>16 DEF InstallDevice, AnyCase
  <2>. QED
    BY <1>16, <2>1, DriverForKeeps DEF InstallDevice, Types
<1>17. CASE UpdateDriver(p)
  <2>1. Present \cap AnyCase \in SUBSET Present /\ DriverFor(Present \cap AnyCase)
    BY <1>17 DEF UpdateDriver, AnyCase
  <2>. QED
    BY <1>17, <2>1, DriverForKeeps DEF UpdateDriver, Types
<1>18. CASE AddingFails(p)
  BY <1>18 DEF AddingFails, systemVars
<1>. QED
  BY <1>1, <1>2, <1>3, <1>4, <1>5, <1>6, <1>7, <1>8, <1>9, <1>10, <1>11,
       <1>12, <1>13, <1>14, <1>15, <1>16, <1>17, <1>18 DEF Works

(* How a call can end, or an uninstall that installDriver has called.      *)
LEMMA ReturnOutcome ==
    ASSUME Types, NEW p \in Programs, NEW v \in BOOLEAN,
           ReturnFrom(p, v) \/ ReturnFromUninstall(p, v) \/ (Return(p, v) /\ UNCHANGED device)
    PROVE  /\ op' = op /\ target' = target /\ ~found'[p] /\ infoSet'[p] = {}
           /\ op[p] = "install" /\ ~Return(p, v) => at'[p] = "list"
           /\ device'[p] \in {device[p], None}
           /\ \/ at'[p] = "returned" /\ result'[p] = v
              \/ at'[p] = "list" /\ op[p] = "install" /\ device'[p] = None
BY DEF ReturnFrom, ReturnFromUninstall, Return, LeaveScope, GoTo, Types, PlaceTypes,
       LocalTypes

(* The place in the call, and the device it holds.                         *)
LEMMA CallStep ==
    ASSUME Types, CallInv, FreshInv, NEW p \in Programs, Works(p)
    PROVE  InCall(p)'
<1>1. CASE OpenSet(p)
  BY <1>1, DeviceManagerAssumption DEF OpenSet, Step, GoTo, Present, InCall, Types,
       PlaceTypes, LocalTypes, SystemTypes, Operations, ByName, Uninstalling, CallInv,
       FreshInv, AnyCase, Exact, systemVars, localVars, historyVars
<1>2. CASE OpenSetFails(p)
  BY <1>2, ReturnOutcome DEF OpenSetFails, CallInv, InCall, ByName, Operations
<1>3. CASE NextDevice(p)
  <2>1. PICK d \in infoSet[p] :
          /\ device' = [device EXCEPT ![p] = d]
          /\ \/ /\ d \in Present /\ Matches(p, d)
                /\ GoTo(p, IF op[p] \in {"install", "uninstall"} THEN "inf" ELSE "callback")
             \/ UNCHANGED at
    BY <1>3 DEF NextDevice
  <2>2. /\ at[p] = "enum" /\ op' = op /\ target' = target /\ device'[p] = d
        /\ op[p] \in Operations \ {"add"}
    BY <1>3, <2>1 DEF NextDevice, CallInv, InCall, Types, PlaceTypes, LocalTypes
  <2>3. CASE Matches(p, d) /\ at'[p] = IF op[p] \in Uninstalling THEN "inf" ELSE "callback"
    BY <2>2, <2>3 DEF InCall, Matches, Uninstalling, ByName, Operations, AnyCase, Exact,
         CallInv
  <2>4. CASE at'[p] = at[p]
    BY <2>2, <2>4 DEF CallInv, InCall
  <2>. QED
    BY <2>1, <2>3, <2>4 DEF GoTo, Uninstalling, Types, PlaceTypes
<1>4. CASE EndOfSet(p) \/ EnumerationFails(p)
  <2>1. EndsEnumeration(p)
    BY <1>4 DEF EndOfSet, EnumerationFails
  <2>2. CASE op[p] \in Uninstalling
    BY <2>1, <2>2 DEF EndsEnumeration, GoTo, CallInv, InCall, Uninstalling, ByName, Types,
         PlaceTypes
  <2>3. CASE op[p] \notin Uninstalling
    <3>1. found[p] \in BOOLEAN
      BY DEF Types, LocalTypes
    <3>. QED
      BY <2>1, <2>3, <3>1, ReturnOutcome DEF EndsEnumeration, CallInv, InCall, Uninstalling
  <2>. QED
    BY <2>2, <2>3
<1>5. CASE ListPortCallback(p)
  BY <1>5, DeviceManagerAssumption DEF ListPortCallback, Step, GoTo, InCall, Types,
       PlaceTypes, LocalTypes, SystemTypes, Operations, ByName, Uninstalling, CallInv,
       FreshInv, AnyCase, Exact, systemVars, localVars, historyVars
<1>6. CASE DevicePortCallbackFinds(p)
  BY <1>6, DeviceManagerAssumption DEF DevicePortCallbackFinds, Step, GoTo, InCall,
       Types, PlaceTypes, LocalTypes, SystemTypes, Operations, ByName, Uninstalling,
       CallInv, FreshInv, AnyCase, Exact, systemVars, localVars, historyVars
<1>7. CASE DevicePortCallbackPasses(p)
  BY <1>7, DeviceManagerAssumption DEF DevicePortCallbackPasses, Step, GoTo, InCall,
       Types, PlaceTypes, LocalTypes, SystemTypes, Operations, ByName, Uninstalling,
       CallInv, FreshInv, AnyCase, Exact, systemVars, localVars, historyVars
<1>8. CASE ReadInfPath(p)
  BY <1>8, DeviceManagerAssumption DEF ReadInfPath, Step, GoTo, InCall, Types,
       PlaceTypes, LocalTypes, SystemTypes, Operations, ByName, Uninstalling, CallInv,
       FreshInv, AnyCase, Exact, systemVars, localVars, historyVars
<1>9. CASE CallInstaller(p)
  <2>1. CASE op[p] \in ByName
    BY <1>9, <2>1, ReturnOutcome DEF CallInstaller, CallInv, InCall, ByName
  <2>2. CASE op[p] \notin ByName
    BY <1>9, <2>2 DEF CallInstaller, GoTo, CallInv, InCall, ByName, Uninstalling, Types,
         PlaceTypes
  <2>. QED
    BY <2>1, <2>2
<1>10. CASE CallInstallerFails(p)
  BY <1>10, ReturnOutcome DEF CallInstallerFails, CallInv, InCall, ByName, Operations
<1>11. CASE RemovePackage(p)
  BY <1>11, DeviceManagerAssumption DEF RemovePackage, Step, GoTo, InCall, Types,
       PlaceTypes, LocalTypes, SystemTypes, Operations, ByName, Uninstalling, CallInv,
       FreshInv, AnyCase, Exact, systemVars, localVars, historyVars
<1>12. CASE RemovePackageFails(p)
  BY <1>12, ReturnOutcome DEF RemovePackageFails, CallInv, InCall, ByName, Operations
<1>13. CASE PackagesRemoved(p)
  BY <1>13, ReturnOutcome DEF PackagesRemoved, CallInv, InCall, ByName, Operations
<1>14. CASE CreateDeviceInfo(p)
  <2>1. PICK d \in unused : device' = [device EXCEPT ![p] = d]
    BY <1>14 DEF CreateDeviceInfo
  <2>. QED
    BY <1>14, <2>1 DEF CreateDeviceInfo, Step, GoTo, CallInv, InCall, FreshInv, Types, PlaceTypes,
         LocalTypes
<1>15. CASE RegisterDevice(p)
  BY <1>15, DeviceManagerAssumption DEF RegisterDevice, Step, GoTo, InCall, Types,
       PlaceTypes, LocalTypes, SystemTypes, Operations, ByName, Uninstalling, CallInv,
       FreshInv, AnyCase, Exact, systemVars, localVars, historyVars
<1>16. CASE InstallDevice(p)
  BY <1>16, DeviceManagerAssumption DEF InstallDevice, Return, LeaveScope, GoTo,
       DriverFor, Present, InCall, Types, PlaceTypes, LocalTypes, SystemTypes,
       Operations, ByName, Uninstalling, CallInv, FreshInv, AnyCase, Exact,
       systemVars, localVars, historyVars
<1>17. CASE UpdateDriver(p)
  BY <1>17, DeviceManagerAssumption DEF UpdateDriver, Return, LeaveScope, GoTo,
       DriverFor, Present, InCall, Types, PlaceTypes, LocalTypes, SystemTypes,
       Operations, ByName, Uninstalling, CallInv, FreshInv, AnyCase, Exact,
       systemVars, localVars, historyVars
<1>18. CASE AddingFails(p)
  BY <1>18, ReturnOutcome DEF AddingFails, CallInv, InCall, ByName, Operations
<1>. QED
  BY <1>1, <1>2, <1>3, <1>4, <1>5, <1>6, <1>7, <1>8, <1>9, <1>10, <1>11,
       <1>12, <1>13, <1>14, <1>15, <1>16, <1>17, <1>18 DEF Works

LEMMA CallInvStep ==
    ASSUME Types, CallInv, FreshInv, NEW p \in Programs, Works(p)
    PROVE  CallInv'
<1>1. ASSUME NEW q \in Programs \ {p}
      PROVE  InCall(q)'
  <2>1. /\ op'[q] = op[q] /\ at'[q] = at[q] /\ target'[q] = target[q]
        /\ device'[q] = device[q] /\ InCall(q)
    BY OthersUntouched DEF Others, CallInv
  <2>2. at[q] = "change" /\ op[q] \in ByName /\ portName[device[q]] = target[q] =>
           (device[q] \in Exact => portName'[device[q]] = target[q])
    BY <2>1, DevicesStep, DeviceManagerAssumption DEF InCall, Exact, AnyCase
  <2>. QED
    BY <2>1, <2>2 DEF InCall, ByName, Uninstalling
<1>2. InCall(p)'
  BY CallStep
<1>. QED
  BY <1>1, <1>2 DEF CallInv

(* Only devices that are present are seen or changed; one that is created  *)
(* is taken from those that are not used.                                  *)
LEMMA HistoryStep ==
    ASSUME Types, NEW p \in Programs, Works(p)
    PROVE  /\ \A d \in changed'[p] : d \in changed[p] \/ tree[d] # "absent"
           /\ \A d \in seen'[p] : d \in seen[p] \/ tree[d] # "absent"
           /\ at'[p] = "register" => device'[p] \in unused \ unused' /\ at[p] = "list"
           /\ at'[p] \in {"driver", "update"} =>
                 at[p] = "register" /\ device'[p] = device[p] /\ changed'[p] = changed[p]
<1>1. CASE OpenSet(p)
  BY <1>1 DEF OpenSet, Step, GoTo, Present, Types, PlaceTypes, HistoryTypes
<1>2. CASE OpenSetFails(p)
  BY <1>2, ReturnOutcome DEF OpenSetFails, historyVars
<1>3. CASE NextDevice(p)
  BY <1>3 DEF NextDevice, GoTo, Types, PlaceTypes
<1>4. CASE EndOfSet(p) \/ EnumerationFails(p)
  BY <1>4 DEF EndOfSet, EnumerationFails, EndsEnumeration, Return, GoTo, Types, PlaceTypes
<1>5. CASE ListPortCallback(p)
  BY <1>5 DEF ListPortCallback, Step, GoTo, historyVars, localVars, Types, PlaceTypes
<1>6. CASE DevicePortCallbackFinds(p)
  BY <1>6 DEF DevicePortCallbackFinds, Step, GoTo, historyVars, localVars, Types,
       PlaceTypes
<1>7. CASE DevicePortCallbackPasses(p)
  BY <1>7 DEF DevicePortCallbackPasses, Step, GoTo, historyVars, localVars, Types,
       PlaceTypes
<1>8. CASE ReadInfPath(p)
  BY <1>8 DEF ReadInfPath, Step, GoTo, historyVars, localVars, Types,
       PlaceTypes
<1>9. CASE CallInstaller(p)
  BY <1>9 DEF CallInstaller, Return, GoTo, Present, Types, PlaceTypes, HistoryTypes
<1>10. CASE CallInstallerFails(p)
  BY <1>10, ReturnOutcome DEF CallInstallerFails, historyVars
<1>11. CASE RemovePackage(p)
  BY <1>11 DEF RemovePackage, Step, GoTo, historyVars, localVars, Types, PlaceTypes
<1>12. CASE RemovePackageFails(p)
  BY <1>12, ReturnOutcome DEF RemovePackageFails, historyVars
<1>13. CASE PackagesRemoved(p)
  BY <1>13, ReturnOutcome DEF PackagesRemoved, historyVars
<1>14. CASE CreateDeviceInfo(p)
  BY <1>14 DEF CreateDeviceInfo, Step, GoTo, historyVars, Types, PlaceTypes, LocalTypes
<1>15. CASE RegisterDevice(p)
  BY <1>15 DEF RegisterDevice, Step, GoTo, historyVars, localVars, Types, PlaceTypes
<1>16. CASE InstallDevice(p)
  BY <1>16 DEF InstallDevice, Return, GoTo, Present, Types, PlaceTypes, HistoryTypes
<1>17. CASE UpdateDriver(p)
  BY <1>17 DEF UpdateDriver, Return, GoTo, Present, Types, PlaceTypes, HistoryTypes
<1>18. CASE AddingFails(p)
  BY <1>18, ReturnOutcome DEF AddingFails, historyVars
<1>. QED
  BY <1>1, <1>2, <1>3, <1>4, <1>5, <1>6, <1>7, <1>8, <1>9, <1>10, <1>11,
       <1>12, <1>13, <1>14, <1>15, <1>16, <1>17, <1>18 DEF Works

LEMMA FreshStep ==
    ASSUME Types, CallInv, FreshInv, NEW p \in Programs, Works(p)
    PROVE  FreshInv'
<1>1. \A q \in Programs \ {p} :
         /\ at'[q] = at[q] /\ device'[q] = device[q]
         /\ changed'[q] = changed[q] /\ seen'[q] = seen[q]
  BY OthersUntouched DEF Others
<1>2. ASSUME NEW d \in Devices, tree[d] = "absent", Unknown(d)
      PROVE  Unknown(d)'
  BY <1>1, <1>2, HistoryStep DEF Unknown
<1>3. ASSUME NEW d \in Devices, tree[d] = "absent", tree'[d] # "absent"
      PROVE  at[p] = "register" /\ d = device[p]
  BY <1>3, DevicesStep
<1>4. unused' \subseteq unused /\ unused \subseteq Devices
  BY DevicesStep DEF Types, SystemTypes
<1>5. \A d \in unused' : tree'[d] = "absent" /\ Unknown(d)'
  BY <1>2, <1>3, <1>4 DEF FreshInv
<1>6. ASSUME NEW q \in Programs, at'[q] \in {"register", "driver", "update"}
      PROVE  device'[q] \notin unused' \cup changed'[q]
  <2>1. CASE q # p
    BY <1>1, <1>4, <1>6, <2>1 DEF FreshInv
  <2>2. CASE q = p
    BY <1>5, <1>4, <1>6, <2>2, HistoryStep DEF FreshInv, Unknown
  <2>. QED
    BY <2>1, <2>2
<1>7. ASSUME NEW q \in Programs, at'[q] = "register"
      PROVE  tree'[device'[q]] = "absent" /\ Unknown(device[q])'
  <2>1. CASE q # p
    <3>1. at[q] = "register" /\ device'[q] = device[q] /\ device[q] \in Devices
      BY <1>1, <1>7, <2>1 DEF CallInv, InCall, Exact, AnyCase
    <3>. QED
      BY <1>2, <1>3, <2>1, <3>1 DEF FreshInv
  <2>2. CASE q = p
    BY <1>2, <1>3, <1>4, <1>7, <2>2, HistoryStep DEF FreshInv
  <2>. QED
    BY <2>1, <2>2
<1>8. ASSUME NEW q \in Programs, NEW r \in Programs, q # r,
             at'[q] = "register", at'[r] = "register"
      PROVE  device'[q] # device'[r]
  BY <1>1, <1>8, HistoryStep DEF FreshInv
<1>. QED
  BY <1>4, <1>5, <1>6, <1>7, <1>8 DEF FreshInv

(* The result of p: ResultTellsWhatHappened for one program.               *)
Tells(p) ==
    at[p] = "returned" /\ op[p] \notin {"uninstall", "list"} =>
       /\ result[p] <=> changed[p] # {}
       /\ op[p] # "install" => changed[p] \subseteq {device[p]}

LEMMA ResultStep ==
    ASSUME Types, CallInv, FreshInv, ResultInv, NEW p \in Programs, Works(p)
    PROVE  InResult(p)' /\ Tells(p)'
<1>1. CASE OpenSet(p)
  BY <1>1 DEF OpenSet, Step, GoTo, Present, systemVars, localVars, historyVars,
       InResult, Tells, ResultInv, ResultTellsWhatHappened, CallInv, InCall,
       Uninstalling, ByName, Types, PlaceTypes, LocalTypes, HistoryTypes
<1>2. CASE OpenSetFails(p)
  <2>1. op[p] = "install" => ~Return(p, FALSE)
    BY <1>2 DEF OpenSetFails, ReturnFrom, ReturnFromUninstall, Return, GoTo, Types, PlaceTypes
  <2>. QED
    BY <1>2, <2>1, ReturnOutcome DEF OpenSetFails, historyVars, InResult, Tells, ResultInv,
         CallInv, InCall, Uninstalling, ByName, Types, HistoryTypes
<1>3. CASE NextDevice(p)
  <2>1. /\ op' = op /\ found' = found /\ changed' = changed
        /\ at[p] = "enum" /\ at'[p] \in {"enum", "inf", "callback"}
    BY <1>3 DEF NextDevice, GoTo, Types, PlaceTypes
  <2>. QED
    BY <2>1 DEF InResult, Tells, ResultInv, Uninstalling, ByName
<1>4. CASE EndOfSet(p) \/ EnumerationFails(p)
  <2>0. EndsEnumeration(p)
    BY <1>4 DEF EndOfSet, EnumerationFails
  <2>1. CASE op[p] \in Uninstalling
    BY <2>0, <2>1 DEF EndsEnumeration, GoTo, InResult, Tells, ResultInv,
         Uninstalling, ByName, Types, PlaceTypes
  <2>2. CASE op[p] \notin Uninstalling
    <3>1. /\ found[p] \in BOOLEAN /\ op[p] \in ByName => ~found[p]
          /\ op[p] \in ByName \cup {"list"} /\ changed'[p] = {}
      BY <2>0, <2>2 DEF EndsEnumeration, Types, LocalTypes, PlaceTypes, Operations, ByName,
           Uninstalling, ResultInv, InResult, CallInv, InCall
    <3>2. Return(p, found[p]) /\ UNCHANGED device
      BY <2>0, <2>2 DEF EndsEnumeration, Uninstalling
    <3>3. op' = op /\ at'[p] = "returned" /\ result'[p] = found[p]
      BY <3>2 DEF Return, GoTo, Types, PlaceTypes
    <3>. QED
      BY <2>2, <3>1, <3>3 DEF InResult, Tells, Uninstalling, ByName
  <2>. QED
    BY <2>1, <2>2
<1>5. CASE ListPortCallback(p)
  BY <1>5 DEF ListPortCallback, Step, GoTo, systemVars, localVars, historyVars,
       InResult, Tells, ResultInv, ResultTellsWhatHappened, CallInv, InCall,
       Uninstalling, ByName, Types, PlaceTypes, LocalTypes, HistoryTypes
<1>6. CASE DevicePortCallbackFinds(p)
  BY <1>6 DEF DevicePortCallbackFinds, Step, GoTo, systemVars, localVars, historyVars,
       InResult, Tells, ResultInv, ResultTellsWhatHappened, CallInv, InCall,
       Uninstalling, ByName, Types, PlaceTypes, LocalTypes, HistoryTypes
<1>7. CASE DevicePortCallbackPasses(p)
  BY <1>7 DEF DevicePortCallbackPasses, Step, GoTo, systemVars, localVars,
       historyVars, InResult, Tells, ResultInv, ResultTellsWhatHappened, CallInv,
       InCall, Uninstalling, ByName, Types, PlaceTypes, LocalTypes, HistoryTypes
<1>8. CASE ReadInfPath(p)
  <2>1. /\ op' = op /\ at[p] = "inf" /\ at'[p] = "change" /\ op[p] \in Uninstalling
        /\ changed' = changed
    BY <1>8 DEF ReadInfPath, Step, GoTo, historyVars, CallInv, InCall, Types, PlaceTypes
  <2>. QED
    BY <2>1 DEF InResult, Tells, ResultInv, Uninstalling, ByName
<1>9. CASE CallInstaller(p)
  <2>1. CASE op[p] \in ByName
    <3>1. changed[p] = {} /\ device' = device
      BY <1>9, <2>1 DEF CallInstaller, ResultInv, InResult, ByName
    <3>2. changed'[p] = {device[p]}
      BY <1>9, <2>1, <3>1 DEF CallInstaller, ByName, Types, HistoryTypes
    <3>. QED
      BY <1>9, <2>1, <3>1, <3>2, ReturnOutcome DEF CallInstaller, InResult, Tells, ByName
  <2>2. CASE op[p] \notin ByName
    <3>1. op' = op /\ at' = [at EXCEPT ![p] = "enum"] /\ op[p] \in Uninstalling
      BY <1>9, <2>2 DEF CallInstaller, GoTo, CallInv, InCall
    <3>2. at'[p] = "enum"
      BY <3>1 DEF Types, PlaceTypes
    <3>3. op[p] = "install" => changed'[p] = {}
      BY <1>9 DEF CallInstaller, ResultInv, InResult, Types, HistoryTypes
    <3>. QED
      BY <2>2, <3>1, <3>2, <3>3 DEF InResult, Tells, Uninstalling
  <2>. QED
    BY <2>1, <2>2
<1>10. CASE CallInstallerFails(p)
  <2>1. op[p] = "install" => ~Return(p, FALSE)
    BY <1>10 DEF CallInstallerFails, ReturnFrom, ReturnFromUninstall, Return, GoTo, Types, PlaceTypes
  <2>. QED
    BY <1>10, <2>1, ReturnOutcome DEF CallInstallerFails, historyVars, InResult, Tells, ResultInv,
         CallInv, InCall, Uninstalling, ByName, Types, HistoryTypes
<1>11. CASE RemovePackage(p)
  BY <1>11 DEF RemovePackage, Step, GoTo, systemVars, localVars, historyVars,
       InResult, Tells, ResultInv, ResultTellsWhatHappened, CallInv, InCall,
       Uninstalling, ByName, Types, PlaceTypes, LocalTypes, HistoryTypes
<1>12. CASE RemovePackageFails(p)
  <2>1. op[p] = "install" => ~Return(p, FALSE)
    BY <1>12 DEF RemovePackageFails, ReturnFromUninstall, Return, GoTo, Types, PlaceTypes
  <2>. QED
    BY <1>12, <2>1, ReturnOutcome DEF RemovePackageFails, historyVars, InResult, Tells, ResultInv,
         CallInv, InCall, Uninstalling, ByName, Types, HistoryTypes
<1>13. CASE PackagesRemoved(p)
  <2>1. op[p] = "install" => ~Return(p, TRUE)
    BY <1>13 DEF PackagesRemoved, ReturnFromUninstall, Return, GoTo, Types, PlaceTypes
  <2>. QED
    BY <1>13, <2>1, ReturnOutcome DEF PackagesRemoved, historyVars, InResult, Tells, ResultInv,
         CallInv, InCall, Uninstalling, ByName, Types, HistoryTypes
<1>14. CASE CreateDeviceInfo(p)
  BY <1>14 DEF CreateDeviceInfo, Step, GoTo, systemVars, localVars, historyVars,
       InResult, Tells, ResultInv, ResultTellsWhatHappened, CallInv, InCall,
       Uninstalling, ByName, Types, PlaceTypes, LocalTypes, HistoryTypes
<1>15. CASE RegisterDevice(p)
  BY <1>15 DEF RegisterDevice, Step, GoTo, systemVars, localVars, historyVars,
       InResult, Tells, ResultInv, ResultTellsWhatHappened, CallInv, InCall,
       Uninstalling, ByName, Types, PlaceTypes, LocalTypes, HistoryTypes
<1>16. CASE InstallDevice(p)
  <2>1. op[p] = "add" /\ changed[p] = {} /\ device' = device
    BY <1>16 DEF InstallDevice, CallInv, InCall, ResultInv, InResult
  <2>2. changed'[p] = {device[p]}
    BY <1>16, <2>1 DEF InstallDevice, Types, HistoryTypes
  <2>. QED
    BY <1>16, <2>1, <2>2, ReturnOutcome DEF InstallDevice, InResult, Tells, ByName
<1>17. CASE UpdateDriver(p)
  <2>1. op[p] = "install" /\ changed'[p] # {}
    BY <1>17 DEF UpdateDriver, CallInv, InCall, Types, HistoryTypes
  <2>2. op' = op /\ at'[p] = "returned" /\ result'[p] = TRUE
    BY <1>17 DEF UpdateDriver, Return, GoTo, Types, PlaceTypes
  <2>. QED
    BY <2>1, <2>2 DEF InResult, Tells, Uninstalling, ByName
<1>18. CASE AddingFails(p)
  BY <1>18, ReturnOutcome DEF AddingFails, historyVars, FreshInv, HistoryTypes, Types,
       InResult, Tells, ResultInv, ResultTellsWhatHappened, CallInv, InCall,
       Uninstalling, ByName
<1>. QED
  BY <1>1, <1>2, <1>3, <1>4, <1>5, <1>6, <1>7, <1>8, <1>9, <1>10, <1>11,
       <1>12, <1>13, <1>14, <1>15, <1>16, <1>17, <1>18 DEF Works

(* UninstallRemovesAll for one program.                                    *)
RemovesAll(p) ==
    at[p] = "returned" /\ op[p] = "uninstall" /\ result[p] =>
       \A d \in seen[p] \ (Foreign \cup missed[p]) : tree[d] = "absent"

(* What an enumeration has seen does not come back.                        *)
LEMMA SeenStaysAbsent ==
    ASSUME Types, FreshInv, NEW p \in Programs, Works(p),
           NEW q \in Programs, NEW d \in seen[q], tree[d] = "absent"
    PROVE  tree'[d] = "absent"
<1>1. d \in Devices
  BY DEF Types, HistoryTypes
<1>2. at[p] = "register" => d # device[p]
  BY DEF FreshInv, Unknown
<1>. QED
  BY <1>1, <1>2, DevicesStep

(* An uninstall takes its devices out of what is left.                     *)
LEMMA UninstallStep ==
    ASSUME Types, CallInv, FreshInv, UninstallInv, NEW p \in Programs, Works(p)
    PROVE  InUninstall(p)' /\ RemovesAll(p)'
<1>1. CASE OpenSet(p)
  <2>1. op' = op /\ at'[p] = "enum" /\ (op[p] = "uninstall" => seen'[p] = infoSet'[p])
    BY <1>1 DEF OpenSet, Step, GoTo, Types, PlaceTypes, LocalTypes, HistoryTypes
  <2>. QED
    BY <2>1 DEF InUninstall, RemovesAll, Left
<1>2. CASE OpenSetFails(p)
  BY <1>2, ReturnOutcome DEF OpenSetFails, historyVars, InUninstall, RemovesAll
<1>3. CASE NextDevice(p)
  <2>1. PICK d \in infoSet[p] :
          /\ infoSet'[p] = infoSet[p] \ {d} /\ device'[p] = d
          /\ \/ at'[p] \in {"inf", "callback"} /\ (op[p] = "uninstall" => at'[p] = "inf")
             \/ at'[p] = "enum" /\ (d \notin Present \/ ~Matches(p, d)) /\ UNCHANGED missed
             \/ at'[p] = "enum" /\ Misses(p, {d})
    BY <1>3 DEF NextDevice, GoTo, Types, PlaceTypes, LocalTypes
  <2>2. d \in Devices /\ at[p] = "enum" /\ op' = op /\ tree' = tree /\ seen' = seen
    BY <1>3, <2>1 DEF NextDevice, systemVars, Types, LocalTypes
  <2>3. missed[p] \subseteq missed'[p]
    BY <1>3 DEF NextDevice, Misses, Types, HistoryTypes
  <2>4. op[p] = "uninstall" /\ at'[p] = "enum" =>
           d \in Foreign \cup missed'[p] \/ tree[d] = "absent"
    BY <2>1, <2>2 DEF Matches, Misses, Present, AnyCase, Types, HistoryTypes
  <2>. QED
    BY <2>1, <2>2, <2>3, <2>4 DEF InUninstall, RemovesAll, Left, UninstallInv
<1>4. CASE EndOfSet(p) \/ EnumerationFails(p)
  <2>1. EndsEnumeration(p)
    BY <1>4 DEF EndOfSet, EnumerationFails
  <2>2. /\ op' = op /\ tree' = tree /\ seen' = seen
        /\ at[p] = "enum" /\ at'[p] \in {"packages", "returned"}
    BY <2>1 DEF EndsEnumeration, Return, GoTo, systemVars, Types, PlaceTypes
  <2>3. op[p] = "uninstall" => at'[p] = "packages" /\ infoSet'[p] = {}
    BY <2>1 DEF EndsEnumeration, GoTo, Types, PlaceTypes, LocalTypes
  <2>4. op[p] = "uninstall" => infoSet[p] \ Foreign \subseteq missed'[p] /\ missed[p] \subseteq missed'[p]
    BY <1>4 DEF EndOfSet, EnumerationFails, Misses, Types, HistoryTypes
  <2>. QED
    BY <2>2, <2>3, <2>4 DEF InUninstall, RemovesAll, Left, UninstallInv
<1>5. CASE ListPortCallback(p)
  BY <1>5 DEF ListPortCallback, Step, GoTo, historyVars, InUninstall, RemovesAll,
       CallInv, InCall, ByName, Types, PlaceTypes
<1>6. CASE DevicePortCallbackFinds(p)
  BY <1>6 DEF DevicePortCallbackFinds, Step, GoTo, historyVars, InUninstall, RemovesAll,
       CallInv, InCall, ByName, Types, PlaceTypes
<1>7. CASE DevicePortCallbackPasses(p)
  BY <1>7 DEF DevicePortCallbackPasses, Step, GoTo, historyVars, InUninstall, RemovesAll,
       CallInv, InCall, ByName, Types, PlaceTypes
<1>8. CASE ReadInfPath(p)
  <2>1. /\ op' = op /\ tree' = tree /\ seen' = seen /\ infoSet' = infoSet /\ device' = device
        /\ missed' = missed /\ at[p] = "inf" /\ at'[p] = "change"
    BY <1>8 DEF ReadInfPath, Step, GoTo, systemVars, historyVars, Types, PlaceTypes
  <2>. QED
    BY <2>1 DEF InUninstall, RemovesAll, Left, UninstallInv
<1>9. CASE CallInstaller(p)
  <2>1. /\ op' = op /\ seen' = seen /\ missed' = missed /\ at[p] = "change"
        /\ at'[p] \in {"enum", "returned"}
    BY <1>9 DEF CallInstaller, Return, GoTo, Types, PlaceTypes
  <2>2. op[p] = "uninstall" => at'[p] = "enum" /\ infoSet' = infoSet
    BY <1>9 DEF CallInstaller, GoTo, Types, PlaceTypes, ByName
  <2>3. op[p] = "uninstall" => tree'[device[p]] = "absent"
    BY <1>9 DEF CallInstaller, Present, Types, SystemTypes
  <2>. QED
    BY <2>1, <2>2, <2>3, SeenStaysAbsent DEF InUninstall, RemovesAll, Left, UninstallInv
<1>10. CASE CallInstallerFails(p)
  BY <1>10, ReturnOutcome DEF CallInstallerFails, historyVars, InUninstall, RemovesAll
<1>11. CASE RemovePackage(p)
  <2>1. /\ op' = op /\ tree' = tree /\ seen' = seen /\ missed' = missed
        /\ infoSet' = infoSet /\ at[p] = "packages" /\ at'[p] = "packages"
    BY <1>11 DEF RemovePackage, Step, GoTo, historyVars, Types, PlaceTypes
  <2>. QED
    BY <2>1 DEF InUninstall, RemovesAll, Left, UninstallInv
<1>12. CASE RemovePackageFails(p)
  BY <1>12, ReturnOutcome DEF RemovePackageFails, historyVars, InUninstall, RemovesAll
<1>13. CASE PackagesRemoved(p)
  <2>1. op' = op /\ tree' = tree /\ seen' = seen /\ missed' = missed /\ at[p] = "packages"
    BY <1>13, ReturnOutcome DEF PackagesRemoved, systemVars, historyVars
  <2>. QED
    BY <1>13, <2>1, ReturnOutcome DEF PackagesRemoved, InUninstall, RemovesAll, Left, UninstallInv
<1>14. CASE CreateDeviceInfo(p)
  BY <1>14 DEF CreateDeviceInfo, Step, GoTo, historyVars, InUninstall, RemovesAll,
       CallInv, InCall, ByName, Types, PlaceTypes
<1>15. CASE RegisterDevice(p)
  BY <1>15 DEF RegisterDevice, Step, GoTo, historyVars, InUninstall, RemovesAll, CallInv,
       InCall, ByName, Types, PlaceTypes
<1>16. CASE InstallDevice(p)
  BY <1>16, ReturnOutcome DEF InstallDevice, InUninstall, RemovesAll, CallInv, InCall
<1>17. CASE UpdateDriver(p)
  BY <1>17, ReturnOutcome DEF UpdateDriver, InUninstall, RemovesAll, CallInv, InCall
<1>18. CASE AddingFails(p)
  BY <1>18, ReturnOutcome DEF AddingFails, InUninstall, RemovesAll, CallInv, InCall
<1>. QED
  BY <1>1, <1>2, <1>3, <1>4, <1>5, <1>6, <1>7, <1>8, <1>9, <1>10, <1>11,
       <1>12, <1>13, <1>14, <1>15, <1>16, <1>17, <1>18 DEF Works

(* All parts of the invariant.                                             *)
LEMMA InvStep ==
    ASSUME DmInv, NEW p \in Programs, Works(p)
    PROVE  DmInv'
<1>1. Types /\ Types' /\ CallInv' /\ FreshInv'
  BY TypeParts, TypeStep, CallInvStep, FreshStep DEF DmInv
<1>2. HoldsADevice'
  BY <1>1, DeviceManagerAssumption DEF CallInv, InCall, HoldsADevice, Exact, AnyCase
<1>3. \A q \in Programs \ {p} :
         /\ op'[q] = op[q] /\ at'[q] = at[q] /\ target'[q] = target[q]
         /\ result'[q] = result[q] /\ infoSet'[q] = infoSet[q] /\ device'[q] = device[q]
         /\ found'[q] = found[q] /\ changed'[q] = changed[q] /\ seen'[q] = seen[q]
         /\ missed'[q] = missed[q]
  BY <1>1, OthersUntouched DEF Others
<1>4. ResultInv'
  <2>1. \A q \in Programs \ {p} : InResult(q)' /\ Tells(q)'
    BY <1>3 DEF DmInv, ResultInv, ResultTellsWhatHappened, InResult, Tells
  <2>2. InResult(p)' /\ Tells(p)'
    BY <1>1, ResultStep DEF DmInv
  <2>. QED
    BY <2>1, <2>2 DEF ResultInv, ResultTellsWhatHappened, Tells
<1>5. UninstallInv'
  <2>1. ASSUME NEW q \in Programs \ {p}
        PROVE  InUninstall(q)' /\ RemovesAll(q)'
    <3>1. \A d \in seen[q] : tree[d] = "absent" => tree'[d] = "absent"
      BY <1>1, SeenStaysAbsent DEF DmInv
    <3>2. InUninstall(q) /\ RemovesAll(q)
      BY DEF DmInv, UninstallInv, UninstallRemovesAll, RemovesAll
    <3>. QED
      BY <1>3, <3>1, <3>2 DEF InUninstall, RemovesAll, Left
  <2>2. InUninstall(p)' /\ RemovesAll(p)'
    BY <1>1, UninstallStep DEF DmInv
  <2>. QED
    BY <2>1, <2>2 DEF UninstallInv, UninstallRemovesAll, RemovesAll
<1>6. DmTypeOK'
  BY <1>1, <1>2 DEF DmTypeOK, Types, SystemTypes, PlaceTypes, LocalTypes, HistoryTypes,
       HoldsADevice
<1>. QED
  BY <1>1, <1>4, <1>5, <1>6 DEF DmInv

(* A program calls.                                                        *)
LEMMA CallBegins ==
    ASSUME DmInv, NEW p \in Programs, Calls(p)
    PROVE  DmInv'
<1>1. PICK o \in Operations, t \in Ports \cup {None} : (o \in ByName => t # None) /\ Call(p, o, t)
  BY DEF Calls
<1>2. /\ op[p] = "none" /\ at[p] = "none"
      /\ op' = [op EXCEPT ![p] = o]
      /\ target' = [target EXCEPT ![p] = IF o \in ByName THEN t ELSE None]
      /\ at' = [at EXCEPT ![p] = IF o = "add" THEN "list" ELSE "open"]
      /\ UNCHANGED <<systemVars, localVars, result, historyVars>>
  BY <1>1 DEF Call, GoTo, DmInv, CallInv, InCall
<1>3. Types
  BY TypeParts DEF DmInv
<1>4. \A q \in Programs :
         \/ op'[q] = op[q] /\ at'[q] = at[q] /\ target'[q] = target[q]
         \/ /\ q = p /\ op'[q] = o /\ at'[q] = IF o = "add" THEN "list" ELSE "open"
            /\ target'[q] = IF o \in ByName THEN t ELSE None
  BY <1>2, <1>3 DEF Types, PlaceTypes
<1>5. DmTypeOK'
  <2>1. op' \in [Programs -> Operations \cup {"none"}] /\ at' \in [Programs -> Places]
    BY <1>2, <1>3 DEF Types, PlaceTypes, Places
  <2>2. target' \in [Programs -> Ports \cup {None}]
    BY <1>2, <1>3 DEF Types, PlaceTypes
  <2>3. \A q \in Programs :
           at'[q] \in {"callback", "inf", "change", "register", "driver", "update"} =>
              device'[q] # None
    BY <1>2, <1>4 DEF DmInv, DmTypeOK, localVars
  <2>. QED
    BY <1>2, <2>1, <2>2, <2>3 DEF DmInv, DmTypeOK, systemVars, localVars, historyVars
<1>6. CallInv'
  <2>1. ASSUME NEW q \in Programs, op'[q] = op[q], at'[q] = at[q], target'[q] = target[q]
        PROVE  InCall(q)'
    BY <1>2, <2>1 DEF DmInv, CallInv, InCall, systemVars, localVars
  <2>2. InCall(p)' \/ (op'[p] = op[p] /\ at'[p] = at[p] /\ target'[p] = target[p])
    BY <1>1, <1>2, <1>4 DEF InCall, Operations, Uninstalling, ByName
  <2>. QED
    BY <1>4, <2>1, <2>2 DEF CallInv
<1>7. FreshInv'
  BY <1>2, <1>4 DEF DmInv, FreshInv, Unknown, systemVars, localVars, historyVars
<1>8. ResultInv'
  BY <1>2, <1>4 DEF DmInv, ResultInv, ResultTellsWhatHappened, InResult, Uninstalling, ByName,
       localVars, historyVars
<1>9. UninstallInv'
  <2>1. \A q \in Programs : InUninstall(q)'
    BY <1>2, <1>4 DEF DmInv, UninstallInv, InUninstall, Left, systemVars, localVars,
         historyVars
  <2>2. UninstallRemovesAll'
    BY <1>2, <1>4 DEF DmInv, UninstallInv, UninstallRemovesAll, systemVars, historyVars
  <2>. QED
    BY <2>1, <2>2 DEF UninstallInv
<1>. QED
  BY <1>5, <1>6, <1>7, <1>8, <1>9 DEF DmInv

LEMMA InvInit == DmInit => DmInv
<1>. SUFFICES ASSUME DmInit
              PROVE  DmInv
  OBVIOUS
<1>1. DmTypeOK
  BY DEF DmInit, DmTypeOK, Places, Exact, AnyCase
<1>2. CallInv
  BY DEF DmInit, CallInv, InCall, Uninstalling, ByName
<1>3. FreshInv
  BY DEF DmInit, FreshInv, Unknown, Exact, AnyCase
<1>4. ResultInv
  BY DEF DmInit, ResultInv, InResult, ResultTellsWhatHappened
<1>5. UninstallInv
  BY DEF DmInit, UninstallInv, InUninstall, UninstallRemovesAll
<1>. QED
  BY <1>1, <1>2, <1>3, <1>4, <1>5 DEF DmInv

(* Only the port database, or nothing, changes.                            *)
LEMMA OthersStep ==
    ASSUME DmInv, comDb' \subseteq Ports,
           UNCHANGED <<tree, enabled, portName, unused, store, op, at, target, localVars,
                       result, historyVars>>
    PROVE  DmInv'
<1>1. DmTypeOK'
  BY DEF DmInv, DmTypeOK, localVars, historyVars
<1>2. CallInv' /\ FreshInv'
  BY DEF DmInv, CallInv, InCall, FreshInv, Unknown, localVars, historyVars
<1>3. ResultInv'
  BY DEF DmInv, ResultInv, InResult, ResultTellsWhatHappened, localVars, historyVars
<1>4. UninstallInv'
  BY DEF DmInv, UninstallInv, InUninstall, Left, UninstallRemovesAll, localVars, historyVars
<1>. QED
  BY <1>1, <1>2, <1>3, <1>4 DEF DmInv

LEMMA InvNext == DmInv /\ [DmNext]_dmVars => DmInv'
<1>. SUFFICES ASSUME DmInv, [DmNext]_dmVars
              PROVE  DmInv'
  OBVIOUS
<1>1. ASSUME NEW n \in Ports, ReleasePort(n)
      PROVE  DmInv'
  <2>1. comDb' \subseteq Ports
    BY <1>1 DEF ReleasePort, DmInv, DmTypeOK
  <2>. QED
    BY <1>1, <2>1, OthersStep DEF ReleasePort
<1>2. CASE UNCHANGED dmVars
  <2>1. comDb' \subseteq Ports
    BY <1>2 DEF dmVars, systemVars, DmInv, DmTypeOK
  <2>. QED
    BY <1>2, <2>1, OthersStep DEF dmVars, systemVars
<1>. QED
  BY <1>1, <1>2, InvStep, CallBegins DEF DmNext

(* Between programs that run side by side, with any call failing, the      *)
(* locals and the devices keep their types, and a call that is about to    *)
(* act on a device has one.                                                *)
THEOREM DmTypeCorrect == DmSpec => []DmTypeOK
<1>1. DmInv => DmTypeOK
  BY DEF DmInv
<1>. QED
  BY <1>1, InvInit, InvNext, PTL DEF DmSpec

(* setClassDeviceState and addDevice return TRUE exactly if this very call *)
(* has changed the device it holds, installDriver exactly if it has given  *)
(* some device the driver, whatever other programs do to its own.          *)
THEOREM ResultsAreTrue == DmSpec => []ResultTellsWhatHappened
<1>1. DmInv => ResultTellsWhatHappened
  BY DEF DmInv, ResultInv
<1>. QED
  BY <1>1, InvInit, InvNext, PTL DEF DmSpec

(* An uninstallDriver that returns TRUE leaves no device of the driver that *)
(* it saw, although others come meanwhile, but those that failing queries   *)
(* or a failing enumeration have kept from it.                              *)
THEOREM UninstallsAreComplete == DmSpec => []UninstallRemovesAll
<1>1. DmInv => UninstallRemovesAll
  BY DEF DmInv, UninstallInv
<1>. QED
  BY <1>1, InvInit, InvNext, PTL DEF DmSpec

(* What a step changes of a device, a call changes that may.               *)
OnlyItsTarget ==
    \A d \in Devices :
       tree'[d] # tree[d] \/ (d \in enabled' <=> d \notin enabled) =>
          \E p \in Programs : at[p] # at'[p] /\ MayChange(p, d)

LEMMA TargetStep ==
    ASSUME DmInv, NEW p \in Programs, Works(p)
    PROVE  OnlyItsTarget
<1>1. Types /\ InCall(p)
  BY TypeParts DEF DmInv, CallInv
<1>2. CASE tree' = tree /\ enabled' = enabled
  BY <1>2 DEF OnlyItsTarget
<1>3. CASE CallInstaller(p)
  <2>1. \A d \in Devices \ {device[p]} : tree'[d] = tree[d] /\ (d \in enabled' <=> d \in enabled)
    BY <1>1, <1>3 DEF CallInstaller, Types, SystemTypes
  <2>2. at[p] = "change" /\ at'[p] \in {"returned", "enum"}
    BY <1>1, <1>3 DEF CallInstaller, Return, GoTo, Types, PlaceTypes
  <2>3. MayChange(p, device[p])
    BY <1>1, <2>2 DEF InCall, MayChange, Uninstalling
  <2>. QED
    BY <2>1, <2>2, <2>3 DEF OnlyItsTarget
<1>4. CASE RegisterDevice(p)
  <2>1. \A d \in Devices \ {device[p]} : tree'[d] = tree[d] /\ (d \in enabled' <=> d \in enabled)
    BY <1>1, <1>4 DEF RegisterDevice, Types, SystemTypes
  <2>2. at[p] = "register" /\ at'[p] \in {"update", "driver"}
    BY <1>1, <1>4 DEF RegisterDevice, Step, GoTo, Types, PlaceTypes
  <2>3. MayChange(p, device[p])
    BY <1>1, <2>2 DEF InCall, MayChange, Exact
  <2>. QED
    BY <2>1, <2>2, <2>3 DEF OnlyItsTarget
<1>5. CASE InstallDevice(p)
  <2>1. \A d \in Devices \ {device[p]} : tree'[d] = tree[d] /\ (d \in enabled' <=> d \in enabled)
    BY <1>1, <1>5 DEF InstallDevice, DriverFor, Types, SystemTypes
  <2>2. at[p] = "driver" /\ at'[p] = "returned"
    BY <1>1, <1>5 DEF InstallDevice, Return, GoTo, Types, PlaceTypes
  <2>3. MayChange(p, device[p])
    BY <1>1, <2>2 DEF InCall, MayChange
  <2>. QED
    BY <2>1, <2>2, <2>3 DEF OnlyItsTarget
<1>6. CASE UpdateDriver(p)
  <2>1. \A d \in Devices \ AnyCase : tree'[d] = tree[d] /\ (d \in enabled' <=> d \in enabled)
    BY <1>1, <1>6 DEF UpdateDriver, DriverFor, Types, SystemTypes
  <2>2. at[p] = "update" /\ at'[p] = "returned"
    BY <1>1, <1>6 DEF UpdateDriver, Return, GoTo, Types, PlaceTypes
  <2>3. \A d \in AnyCase : MayChange(p, d)
    BY <1>1, <2>2 DEF InCall, MayChange
  <2>. QED
    BY <2>1, <2>2, <2>3 DEF OnlyItsTarget
<1>7. ~(CallInstaller(p) \/ RegisterDevice(p) \/ InstallDevice(p) \/ UpdateDriver(p)) =>
         tree' = tree /\ enabled' = enabled
  BY DEF Works, OpenSet, OpenSetFails, NextDevice, EndOfSet, EnumerationFails, EndsEnumeration,
       ListPortCallback, DevicePortCallbackFinds, DevicePortCallbackPasses, ReadInfPath, CallInstallerFails,
       RemovePackage, RemovePackageFails, PackagesRemoved, CreateDeviceInfo, AddingFails,
       systemVars
<1>. QED
  BY <1>2, <1>3, <1>4, <1>5, <1>6, <1>7

(* Whatever programs do side by side, a device is only changed by a call   *)
(* that was told to: the one of that port, or of the driver's id.          *)
THEOREM OnlyTargetsChange == DmSpec => ChangesOnlyItsTarget
<1>1. ASSUME DmInv, [DmNext]_dmVars
      PROVE  [OnlyItsTarget]_dmVars
  <2>1. ASSUME NEW p \in Programs, Calls(p)
        PROVE  OnlyItsTarget
    BY <2>1 DEF Calls, Call, systemVars, OnlyItsTarget
  <2>2. ASSUME NEW n \in Ports, ReleasePort(n)
        PROVE  OnlyItsTarget
    BY <2>2 DEF ReleasePort, OnlyItsTarget
  <2>. QED
    BY <1>1, <2>1, <2>2, TargetStep DEF DmNext
<1>. QED
  BY <1>1, InvInit, InvNext, PTL DEF DmSpec, ChangesOnlyItsTarget, OnlyItsTarget

============================================================================
