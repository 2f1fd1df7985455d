-------------------------- MODULE VspControlProofs --------------------------
(***************************************************************************)
(* Of VspControl, for any number of programs, devices and ports: what main *)
(* does to devices is what the device manager allows, so that its theorems *)
(* hold of the programs; a port command acts on the port that was printed; *)
(* and the exit codes that main computes tell what was done.               *)
(*                                                                         *)
(* The invariant says where main can be with which command and which port  *)
(* (Selects), what has been done to devices when it ends (Done), and that  *)
(* a port keeps its name once it has one (NamedInv, NamesStay), which is   *)
(* what both properties rest on: whoever else adds and removes devices, a  *)
(* number that was compared stays the number of that device.               *)
(***************************************************************************)
EXTENDS VspControl, DeviceManagerProofs

Lines == {"none", "device", "find", "get", "test", "act", "send", "accept", "echo",
          "print", "deleteport", "ended"}

MainTypes ==
    /\ command \in [Programs -> Commands \cup {"none"}]
    /\ line \in [Programs -> Lines]
    /\ htsvspPortNumber \in [Programs -> Ports \cup {None}]
    /\ reported \in [Programs -> Ports \cup {None}]
    /\ set \in [Programs -> SUBSET Devices]
    /\ exit \in [Programs -> {None, 0, 1}]

(* A port that can be opened has a number.                                 *)
NamedInv == \A d \in enabled : portName[d] \in Ports

(* The line of main fits the command.                                      *)
InMain(p) ==
    /\ line[p] = "none" <=> command[p] = "none"
    /\ line[p] = "device" => command[p] \in Operations
    /\ line[p] \in {"find", "get", "test", "act", "send", "accept", "echo"} =>
          command[p] \in PortCommands
    /\ line[p] = "send" => command[p] \in Settings
    /\ line[p] \in {"accept", "echo"} => command[p] = "echoservice"
    /\ line[p] \in {"print", "deleteport"} => command[p] = line[p]
    /\ exit[p] # None <=> line[p] = "ended"

(* A port that has been reported is the one that is selected, and from then *)
(* on no port is searched for.                                             *)
Selects(p) ==
    /\ reported[p] # None =>
          command[p] \in PortCommands /\ htsvspPortNumber[p] = reported[p]
    /\ line[p] \in {"get", "test"} => htsvspPortNumber[p] = None
    /\ line[p] = "find" /\ reported[p] # None => command[p] \in Settings
    /\ line[p] \in {"act", "send"} => reported[p] # None

(* What the device manager did of a command on devices.                    *)
Manages(p) ==
    /\ op[p] = IF command[p] \in Operations THEN command[p] ELSE "none"
    /\ command[p] \in {"install", "remove"} /\ exit[p] # None =>
          at[p] = "returned" /\ (exit[p] = 0 <=> result[p])

(* What has been sent: nothing before the end, and then to a device behind *)
(* the reported port.                                                      *)
Sends(p) ==
    /\ line[p] # "ended" => set[p] = {}
    /\ command[p] \in Operations => set[p] = {}
    /\ command[p] = "configure" /\ exit[p] = 0 => set[p] # {}

SetInv(p) ==
    \A d \in set[p] : d \in AnyCase /\ portName[d] = reported[p] /\ reported[p] # None

(* What a call has changed.                                                *)
DoneInv(p) ==
    /\ op[p] \in ByName => \A d \in changed[p] :
          d = device[p] /\ d \in Exact /\ portName[d] = target[p]
    /\ op[p] = "install" => changed[p] \subseteq AnyCase

Main(p) == InMain(p) /\ Selects(p) /\ Manages(p) /\ Sends(p)

VspInv ==
    /\ DmInv /\ MainTypes /\ NamedInv
    /\ \A p \in Programs : Main(p) /\ SetInv(p) /\ DoneInv(p)

----------------------------------------------------------------------------
(* The device manager.                                                     *)

(* A step of main is a call of the device manager, a step of that, a       *)
(* number released, or nothing to it.                                      *)
LEMMA DmOrNothing == [VspNext]_vspVars => [DmNext]_dmVars
<1>1. ASSUME NEW p \in Programs, NEW c \in Commands, Start(p, c)
      PROVE  [DmNext]_dmVars
  BY <1>1 DEF Start, DmNext, Calls
<1>2. ASSUME NEW p \in Programs, Runs(p)
      PROVE  [DmNext]_dmVars
  BY <1>2 DEF Runs, DmNext, DeviceCommandEnds, JustPrints, DeleteComPort, TestSelected, Search,
       MoreData, GetCommPorts, NoCommPorts, TestNext, NoneAnswers, ReadSetting, Send,
       Incomplete, EchoService
<1>. QED
  BY <1>1, <1>2 DEF VspNext, vspVars

(* Programs that run main are programs that use the device manager as      *)
(* DeviceManager says, side by side and with any call failing.             *)
THEOREM ProgramsUseTheManager == VspSpec => DmSpec
<1>1. VspInit => DmInit
  BY DEF VspInit
<1>. QED
  BY <1>1, DmOrNothing, PTL DEF VspSpec, DmSpec

(* The locals have their types whatever the programs do side by side.      *)
THEOREM VspDmTypeCorrect == VspSpec => []DmTypeOK
BY ProgramsUseTheManager, DmTypeCorrect, PTL

(* The results that main turns into exit codes are true.                   *)
THEOREM VspResultsAreTrue == VspSpec => []ResultTellsWhatHappened
BY ProgramsUseTheManager, ResultsAreTrue, PTL

(* --uninstall that succeeds leaves no device of the driver that its       *)
(* enumeration got to know.                                                *)
THEOREM VspUninstallsAreComplete == VspSpec => []UninstallRemovesAll
BY ProgramsUseTheManager, UninstallsAreComplete, PTL

(* No command changes a device that it was not told to.                    *)
THEOREM VspOnlyTargetsChange == VspSpec => ChangesOnlyItsTarget
BY ProgramsUseTheManager, OnlyTargetsChange, PTL

----------------------------------------------------------------------------
(* Steps of the device manager.                                            *)

(* A step of a call is one of a call that has begun and not returned.      *)
LEMMA WorksInCall ==
    ASSUME NEW p \in Programs, Works(p)
    PROVE  op' = op /\ at[p] # "returned"
<1>1. ASSUME NEW v \in BOOLEAN, Return(p, v) \/ ReturnFromUninstall(p, v) \/ ReturnFrom(p, v)
      PROVE  op' = op
  BY <1>1 DEF Return, ReturnFrom, ReturnFromUninstall
<1>2. op' = op
  BY <1>1 DEF Works, OpenSet, OpenSetFails, NextDevice, EndOfSet, EnumerationFails,
       EndsEnumeration, ListPortCallback, DevicePortCallbackFinds, DevicePortCallbackPasses, ReadInfPath, CallInstaller,
       CallInstallerFails, RemovePackage, RemovePackageFails, PackagesRemoved,
       CreateDeviceInfo, RegisterDevice, InstallDevice, UpdateDriver, AddingFails, Step,
       Return
<1>3. at[p] # "returned"
  BY DEF Works, OpenSet, OpenSetFails, NextDevice, EndOfSet, EnumerationFails,
       EndsEnumeration, ListPortCallback, DevicePortCallbackFinds, DevicePortCallbackPasses, ReadInfPath, CallInstaller,
       CallInstallerFails, RemovePackage, RemovePackageFails, PackagesRemoved,
       CreateDeviceInfo, RegisterDevice, InstallDevice, UpdateDriver, AddingFails, Step
<1>. QED
  BY <1>2, <1>3

(* What a step does to the system: nothing, or it is one of these.         *)
LEMMA SystemStep ==
    ASSUME NEW p \in Programs, Works(p),
           ~(CallInstaller(p) \/ InstallDevice(p) \/ UpdateDriver(p))
    PROVE  portName' = portName /\ enabled' = enabled /\ changed' = changed
BY DEF Works, OpenSet, OpenSetFails, NextDevice, EndOfSet, EnumerationFails,
     EndsEnumeration, ListPortCallback, DevicePortCallbackFinds, DevicePortCallbackPasses, ReadInfPath, CallInstallerFails,
     RemovePackage, RemovePackageFails, PackagesRemoved, CreateDeviceInfo, RegisterDevice,
     AddingFails, systemVars, historyVars

(* A device that has a name keeps it.                                      *)
LEMMA NamesStay ==
    ASSUME DmInv, NEW p \in Programs, Works(p)
    PROVE  \A d \in Devices : portName[d] # None => portName'[d] = portName[d]
<1>1. SystemTypes
  BY TypeParts DEF DmInv, Types
<1>2. CASE InstallDevice(p)
  <2>1. DriverFor({device[p]}) /\ {device[p]} \subseteq Present
    BY <1>2 DEF InstallDevice
  <2>. QED
    BY <1>1, <2>1, DriverForKeeps
<1>3. CASE UpdateDriver(p)
  <2>1. DriverFor(Present \cap AnyCase)
    BY <1>3 DEF UpdateDriver
  <2>. QED
    BY <1>1, <2>1, DriverForKeeps
<1>4. CASE CallInstaller(p)
  BY <1>4 DEF CallInstaller
<1>. QED
  BY <1>2, <1>3, <1>4, SystemStep

(* A device is enabled by the driver, which gives it a name, or by name.   *)
LEMMA NamedStep ==
    ASSUME DmInv, NamedInv, NEW p \in Programs, Works(p)
    PROVE  NamedInv'
<1>1. Types /\ InCall(p) /\ SystemTypes
  BY TypeParts DEF DmInv, CallInv, Types
<1>2. ASSUME NEW ds \in SUBSET Present, DriverFor(ds)
      PROVE  NamedInv'
  <2>1. ASSUME NEW d \in enabled
        PROVE  portName'[d] \in Ports
    <3>1. d \in Devices /\ portName[d] \in Ports /\ portName[d] # None
      BY <1>1, <2>1, DeviceManagerAssumption DEF SystemTypes, NamedInv
    <3>. QED
      BY <1>1, <1>2, <3>1, DriverForKeeps
  <2>2. ASSUME NEW d \in ds
        PROVE  portName'[d] \in Ports
    BY <1>1, <1>2, <2>2 DEF DriverFor, SystemTypes, Present
  <2>. QED
    BY <1>2, <2>1, <2>2 DEF DriverFor, NamedInv
<1>3. CASE InstallDevice(p)
  <2>1. DriverFor({device[p]}) /\ {device[p]} \subseteq Present
    BY <1>3 DEF InstallDevice
  <2>. QED
    BY <1>2, <2>1
<1>4. CASE UpdateDriver(p)
  <2>1. DriverFor(Present \cap AnyCase)
    BY <1>4 DEF UpdateDriver
  <2>. QED
    BY <1>2, <2>1
<1>5. CASE CallInstaller(p)
  <2>1. portName' = portName /\ at[p] = "change"
    BY <1>5 DEF CallInstaller
  <2>2. op[p] = "enable" => portName[device[p]] \in Ports
    BY <1>1, <2>1 DEF InCall, ByName, Uninstalling
  <2>3. enabled' \subseteq enabled \cup (IF op[p] = "enable" THEN {device[p]} ELSE {})
    BY <1>5 DEF CallInstaller
  <2>. QED
    BY <2>1, <2>2, <2>3 DEF NamedInv
<1>. QED
  BY <1>3, <1>4, <1>5, SystemStep DEF NamedInv

(* What a call has changed when it returns is what it was told.            *)
LEMMA DoneStep ==
    ASSUME DmInv, NEW p \in Programs, Works(p), DoneInv(p)
    PROVE  DoneInv(p)'
<1>1. Types /\ InCall(p) /\ InResult(p) /\ op' = op /\ at[p] # "returned"
  BY TypeParts, WorksInCall DEF DmInv, CallInv, ResultInv
<1>2. Types' /\ InCall(p)'
  BY <1>1, TypeStep, CallInvStep DEF DmInv, CallInv
<1>3. CASE op[p] \in ByName
  <2>1. changed[p] = {}
    BY <1>1, <1>3 DEF InResult, Uninstalling, ByName
  <2>2. CASE CallInstaller(p)
    <3>1. /\ device' = device /\ portName' = portName /\ target' = target
          /\ at[p] = "change" /\ changed'[p] = {device[p]}
      BY <1>1, <1>3, <2>1, <2>2 DEF CallInstaller, Return, ByName, Types, HistoryTypes
    <3>2. device[p] \in Exact /\ portName[device[p]] = target[p]
      BY <1>1, <1>3, <3>1 DEF InCall, Uninstalling, ByName
    <3>. QED
      BY <1>1, <1>3, <3>1, <3>2 DEF DoneInv, ByName
  <2>3. CASE ~CallInstaller(p)
    <3>1. ~InstallDevice(p) /\ ~UpdateDriver(p)
      BY <1>1, <1>3 DEF InstallDevice, UpdateDriver, InCall, ByName
    <3>. QED
      BY <1>1, <1>3, <2>1, <2>3, <3>1, SystemStep DEF DoneInv, ByName
  <2>. QED
    BY <2>2, <2>3
<1>4. CASE op[p] = "install"
  <2>1. changed[p] \subseteq AnyCase /\ p \in DOMAIN changed
    BY <1>1, <1>4 DEF DoneInv, Types, HistoryTypes
  <2>2. CASE UpdateDriver(p)
    BY <1>1, <1>4, <2>1, <2>2 DEF UpdateDriver, DoneInv, ByName, Types, HistoryTypes
  <2>3. CASE CallInstaller(p)
    BY <1>1, <1>4, <2>1, <2>3 DEF CallInstaller, DoneInv, ByName, Types, HistoryTypes
  <2>4. CASE ~UpdateDriver(p) /\ ~CallInstaller(p)
    <3>1. ~InstallDevice(p)
      BY <1>1, <1>4 DEF InstallDevice, InCall
    <3>. QED
      BY <1>1, <1>4, <2>1, <2>4, <3>1, SystemStep DEF DoneInv, ByName
  <2>. QED
    BY <2>2, <2>3, <2>4
<1>. QED
  BY <1>1, <1>3, <1>4 DEF DoneInv

(* A step of a call keeps the invariant, of its own program and of others. *)
LEMMA ManagerStep ==
    ASSUME VspInv, NEW p \in Programs, Works(p), UNCHANGED mainVars
    PROVE  VspInv'
<1>1. DmInv' /\ NamedInv'
  BY InvStep, NamedStep DEF VspInv
<1>2. MainTypes'
  BY DEF VspInv, MainTypes, mainVars
<1>3. Others(p) /\ op' = op /\ at[p] # "returned" /\ Types
  BY OthersUntouched, WorksInCall, TypeParts DEF VspInv, DmInv
<1>4. \A d \in Devices : portName[d] # None => portName'[d] = portName[d]
  BY NamesStay DEF VspInv
<1>5. ASSUME NEW q \in Programs
      PROVE  Main(q)' /\ SetInv(q)' /\ DoneInv(q)'
  <2>1. Main(q) /\ SetInv(q) /\ DoneInv(q)
    BY DEF VspInv
  <2>2. InMain(q)' /\ Selects(q)' /\ Sends(q)'
    BY <2>1 DEF Main, InMain, Selects, Sends, mainVars
  <2>3. Manages(q)'
    <3>1. at[q] = "returned" => at'[q] = at[q] /\ result'[q] = result[q]
      BY <1>3 DEF Others
    <3>. QED
      BY <1>3, <2>1, <3>1 DEF Main, Manages, mainVars
  <2>4. SetInv(q)'
    <3>1. set[q] \subseteq Devices
      BY DEF VspInv, MainTypes
    <3>. QED
      BY <1>4, <2>1, <3>1 DEF SetInv, mainVars
  <2>5. DoneInv(q)'
    <3>1. CASE q = p
      BY <2>1, <3>1, DoneStep DEF VspInv
    <3>2. CASE q # p
      <4>1. op[q] \in ByName => target[q] # None
        BY DeviceManagerAssumption DEF VspInv, DmInv, CallInv, InCall
      <4>2. changed[q] \subseteq Devices
        BY <1>3 DEF Types, HistoryTypes
      <4>. QED
        BY <1>3, <1>4, <2>1, <3>2, <4>1, <4>2 DEF DoneInv, Others
    <3>. QED
      BY <3>1, <3>2
  <2>. QED
    BY <2>2, <2>3, <2>4, <2>5 DEF Main
<1>. QED
  BY <1>1, <1>2, <1>5 DEF VspInv

----------------------------------------------------------------------------
(* Steps of main.                                                          *)

(* What the device manager keeps for the programs.                         *)
CallsAlone == UNCHANGED <<op, at, target, device, result, changed, portName, enabled>>

MainAlone(p) ==
    \A q \in Programs \ {p} :
       /\ command'[q] = command[q] /\ line'[q] = line[q] /\ exit'[q] = exit[q]
       /\ htsvspPortNumber'[q] = htsvspPortNumber[q] /\ reported'[q] = reported[q]
       /\ set'[q] = set[q]

(* A step of p's main has only to keep what is about p.                    *)
LEMMA OnlyAbout ==
    ASSUME VspInv, DmInv', CallsAlone, NEW p \in Programs, MainTypes', MainAlone(p),
           Main(p)', SetInv(p)'
    PROVE  VspInv'
<1>1. NamedInv'
  BY DEF VspInv, NamedInv, CallsAlone
<1>2. \A q \in Programs : DoneInv(q)'
  BY DEF VspInv, DoneInv, CallsAlone
<1>3. ASSUME NEW q \in Programs \ {p}
      PROVE  Main(q)' /\ SetInv(q)'
  <2>1. Main(q) /\ SetInv(q)
    BY DEF VspInv
  <2>2. InMain(q)' /\ Selects(q)' /\ Sends(q)'
    BY <2>1 DEF Main, InMain, Selects, Sends, MainAlone
  <2>3. Manages(q)' /\ SetInv(q)'
    BY <2>1 DEF Main, Manages, SetInv, MainAlone, CallsAlone
  <2>. QED
    BY <2>2, <2>3 DEF Main
<1>. QED
  BY <1>1, <1>2, <1>3 DEF VspInv

LEMMA GoTypes ==
    ASSUME MainTypes, NEW p \in Programs, NEW l \in Lines, Go(p, l)
    PROVE  /\ line' \in [Programs -> Lines] /\ line'[p] = l
           /\ \A q \in Programs \ {p} : line'[q] = line[q]
           /\ exit' = exit
BY DEF Go, MainTypes

LEMMA ExitTypes ==
    ASSUME MainTypes, NEW p \in Programs, NEW c \in {0, 1}, Exit(p, c)
    PROVE  /\ line' \in [Programs -> Lines] /\ line'[p] = "ended"
           /\ exit' \in [Programs -> {None, 0, 1}] /\ exit'[p] = c
           /\ \A q \in Programs \ {p} : line'[q] = line[q] /\ exit'[q] = exit[q]
BY DEF Exit, MainTypes, Lines

(* A search ends with a port, the one that was reported if one was.        *)
LEMMA FoundStep ==
    ASSUME VspInv, DmInv', CallsAlone, NEW p \in Programs, NEW n \in Ports,
           line[p] \in {"find", "get", "test"}, reported[p] # None => n = reported[p],
           Found(p, n), UNCHANGED <<command, set>>
    PROVE  VspInv'
<1>1. MainTypes /\ Main(p) /\ SetInv(p) /\ n # None
  BY DeviceManagerAssumption DEF VspInv
<1> DEFINE there == IF reported[p] = None /\ command[p] \in Settings THEN "find" ELSE "act"
<1>2. /\ line' \in [Programs -> Lines] /\ line'[p] = there /\ exit' = exit
      /\ \A q \in Programs \ {p} : line'[q] = line[q]
  <2>1. there \in Lines /\ Go(p, there)
    BY DEF Found, Lines
  <2>. QED
    BY <1>1, <2>1, GoTypes
<1>3. /\ htsvspPortNumber' \in [Programs -> Ports \cup {None}]
      /\ reported' \in [Programs -> Ports \cup {None}]
      /\ htsvspPortNumber'[p] = n /\ reported'[p] = n
      /\ \A q \in Programs \ {p} : /\ htsvspPortNumber'[q] = htsvspPortNumber[q]
                                    /\ reported'[q] = reported[q]
  BY <1>1 DEF Found, MainTypes
<1>4. MainTypes' /\ MainAlone(p)
  BY <1>1, <1>2, <1>3 DEF MainTypes, MainAlone
<1>5. line[p] # "ended" /\ set[p] = {} /\ command[p] \in PortCommands
  BY <1>1 DEF Main, InMain, Sends
<1>6. InMain(p)'
  BY <1>1, <1>2, <1>5 DEF Main, InMain
<1>7. Selects(p)' /\ Sends(p)' /\ SetInv(p)'
  BY <1>1, <1>2, <1>3, <1>5 DEF Main, InMain, Selects, Sends, SetInv
<1>8. Manages(p)'
  BY <1>1, <1>2 DEF Main, Manages, CallsAlone
<1>. QED
  BY <1>4, <1>6, <1>7, <1>8, OnlyAbout DEF Main

(* Or with none.                                                           *)
LEMMA NotFoundStep ==
    ASSUME VspInv, DmInv', CallsAlone, NEW p \in Programs,
           line[p] \in {"find", "get", "test"}, NotFound(p), UNCHANGED <<command, set>>
    PROVE  VspInv'
<1>1. MainTypes /\ Main(p) /\ SetInv(p)
  BY DEF VspInv
<1> DEFINE code == IF reported[p] = None THEN 1 ELSE 0
<1>2. /\ line' \in [Programs -> Lines] /\ line'[p] = "ended"
      /\ exit' \in [Programs -> {None, 0, 1}] /\ exit'[p] = code
      /\ \A q \in Programs \ {p} : line'[q] = line[q] /\ exit'[q] = exit[q]
  BY <1>1, ExitTypes DEF NotFound
<1>3. UNCHANGED <<htsvspPortNumber, reported>>
  BY DEF NotFound
<1>4. MainTypes' /\ MainAlone(p)
  BY <1>1, <1>2, <1>3 DEF MainTypes, MainAlone
<1>5. line[p] # "ended" /\ set[p] = {} /\ command[p] \in PortCommands
  BY <1>1 DEF Main, InMain, Sends
<1>6. command[p] \notin {"install", "remove", "none"}
  BY <1>5 DEF PortCommands, Settings
<1>7. command[p] = "configure" => reported[p] = None
  BY <1>1 DEF Main, Selects, Settings, MainTypes
<1>8. InMain(p)' /\ Selects(p)'
  BY <1>1, <1>2, <1>3, <1>6, VspControlAssumption DEF Main, InMain, Selects
<1>9. Sends(p)' /\ SetInv(p)' /\ Manages(p)'
  BY <1>1, <1>2, <1>3, <1>5, <1>6, <1>7 DEF Main, Sends, SetInv, Manages, CallsAlone
<1>. QED
  BY <1>4, <1>8, <1>9, OnlyAbout DEF Main

LEMMA SearchStep ==
    ASSUME VspInv, DmInv', CallsAlone, NEW p \in Programs,
           \/ TestSelected(p) \/ Search(p) \/ MoreData(p) \/ GetCommPorts(p)
           \/ NoCommPorts(p) \/ TestNext(p) \/ NoneAnswers(p)
    PROVE  VspInv'
<1>1. MainTypes /\ Main(p) /\ SetInv(p)
  BY DEF VspInv
<1>2. ASSUME NEW n, Answers(n) # {}
      PROVE  n \in Ports
  BY <1>2 DEF Answers, Behind, VspInv, NamedInv
<1>3. ASSUME NEW l \in {"get", "test"}, Go(p, l), line[p] \in {"find", "get"},
             htsvspPortNumber[p] = None,
             UNCHANGED <<command, htsvspPortNumber, reported, set>>
      PROVE  VspInv'
  <2>1. /\ line' \in [Programs -> Lines] /\ line'[p] = l /\ exit' = exit
        /\ \A q \in Programs \ {p} : line'[q] = line[q]
    <3>1. l \in Lines
      BY DEF Lines
    <3>. QED
      BY <1>1, <1>3, <3>1, GoTypes
  <2>2. MainTypes' /\ MainAlone(p)
    BY <1>1, <1>3, <2>1 DEF MainTypes, MainAlone
  <2>3. Main(p)' /\ SetInv(p)'
    BY <1>1, <1>3, <2>1 DEF Main, InMain, Selects, Sends, Manages, SetInv, CallsAlone
  <2>. QED
    BY <2>2, <2>3, OnlyAbout
<1>4. ASSUME UNCHANGED <<command, line, htsvspPortNumber, reported, set, exit>>
      PROVE  VspInv'
  BY <1>1, <1>4, OnlyAbout DEF MainTypes, MainAlone, Main, InMain, Selects, Sends, Manages,
       SetInv, CallsAlone
<1>5. CASE TestSelected(p)
  <2>1. /\ At(p, "find") /\ UNCHANGED <<command, set>>
        /\ reported[p] # None => htsvspPortNumber[p] = reported[p]
    BY <1>1, <1>5 DEF TestSelected, Main, Selects
  <2>2. \/ Answers(htsvspPortNumber[p]) # {} /\ Found(p, htsvspPortNumber[p])
        \/ NotFound(p)
    BY <1>5 DEF TestSelected
  <2>. QED
    BY <1>2, <2>1, <2>2, FoundStep, NotFoundStep DEF At
<1>6. CASE Search(p)
  BY <1>3, <1>6 DEF Search, At
<1>7. CASE MoreData(p)
  BY <1>4, <1>7 DEF MoreData
<1>8. CASE GetCommPorts(p)
  <2>1. line[p] = "get" /\ htsvspPortNumber[p] = None
    BY <1>1, <1>8 DEF GetCommPorts, At, Main, Selects
  <2>. QED
    BY <1>3, <1>8, <2>1 DEF GetCommPorts
<1>9. CASE NoCommPorts(p) \/ NoneAnswers(p)
  BY <1>9, NotFoundStep DEF NoCommPorts, NoneAnswers, At
<1>10. CASE TestNext(p)
  <2>1. line[p] = "test" /\ reported[p] = None /\ UNCHANGED <<command, set>>
    BY <1>1, <1>10 DEF TestNext, At, Main, Selects
  <2>2. PICK n \in portNumbers[p] :
           \/ Answers(n) # {} /\ Found(p, n)
           \/ UNCHANGED <<line, htsvspPortNumber, reported, exit>>
    BY <1>10 DEF TestNext
  <2>. QED
    BY <1>2, <1>4, <2>1, <2>2, FoundStep
<1>. QED
  BY <1>5, <1>6, <1>7, <1>8, <1>9, <1>10

(* main ends and has sent nothing.                                         *)
LEMMA EndStep ==
    ASSUME VspInv, DmInv', CallsAlone, NEW p \in Programs, NEW c \in {0, 1},
           line[p] \notin {"none", "ended"}, Exit(p, c),
           command[p] \in {"install", "remove"} => at[p] = "returned" /\ (c = 0 <=> result[p]),
           command[p] = "configure" => c = 1,
           UNCHANGED <<command, htsvspPortNumber, reported, set>>
    PROVE  VspInv'
<1>1. MainTypes /\ Main(p) /\ SetInv(p)
  BY DEF VspInv
<1>2. /\ line' \in [Programs -> Lines] /\ line'[p] = "ended"
      /\ exit' \in [Programs -> {None, 0, 1}] /\ exit'[p] = c /\ c # None
      /\ \A q \in Programs \ {p} : line'[q] = line[q] /\ exit'[q] = exit[q]
  BY <1>1, ExitTypes, VspControlAssumption
<1>3. MainTypes' /\ MainAlone(p)
  BY <1>1, <1>2 DEF MainTypes, MainAlone
<1>4. InMain(p)' /\ Selects(p)'
  BY <1>1, <1>2 DEF Main, InMain, Selects
<1>5. Sends(p)' /\ SetInv(p)'
  BY <1>1, <1>2 DEF Main, Sends, SetInv, CallsAlone
<1>6. Manages(p)'
  BY <1>1, <1>2 DEF Main, Manages, CallsAlone
<1>. QED
  BY <1>3, <1>4, <1>5, <1>6, OnlyAbout DEF Main

(* main goes on with the port that was reported.                           *)
LEMMA GoOnStep ==
    ASSUME VspInv, DmInv', CallsAlone, NEW p \in Programs, NEW l, Go(p, l),
           \/ l = "send" /\ line[p] = "act" /\ command[p] \in Settings
           \/ l \in {"accept", "echo"} /\ command[p] = "echoservice"
                 /\ line[p] \in {"act", "accept", "echo"},
           UNCHANGED <<command, htsvspPortNumber, reported, set>>
    PROVE  VspInv'
<1>1. MainTypes /\ Main(p) /\ SetInv(p)
  BY DEF VspInv
<1>2. /\ line' \in [Programs -> Lines] /\ line'[p] = l /\ exit' = exit
      /\ \A q \in Programs \ {p} : line'[q] = line[q]
  <2>1. l \in Lines
    BY DEF Lines
  <2>. QED
    BY <1>1, <2>1, GoTypes
<1>3. MainTypes' /\ MainAlone(p)
  BY <1>1, <1>2 DEF MainTypes, MainAlone
<1>4. InMain(p)' /\ Selects(p)'
  BY <1>1, <1>2 DEF Main, InMain, Selects, PortCommands, Settings
<1>5. Sends(p)' /\ SetInv(p)' /\ Manages(p)'
  BY <1>1, <1>2 DEF Main, Sends, SetInv, Manages, CallsAlone
<1>. QED
  BY <1>3, <1>4, <1>5, OnlyAbout DEF Main

(* A device behind the port acts on what was sent.                         *)
LEMMA SetsStep ==
    ASSUME VspInv, DmInv', CallsAlone, NEW p \in Programs, NEW c \in {0, 1},
           line[p] \in {"act", "send"}, Sets(p), Exit(p, c), command[p] \in PortCommands,
           UNCHANGED <<command, htsvspPortNumber, reported>>
    PROVE  VspInv'
<1>1. MainTypes /\ Main(p) /\ SetInv(p)
  BY DEF VspInv
<1>2. /\ line' \in [Programs -> Lines] /\ line'[p] = "ended"
      /\ exit' \in [Programs -> {None, 0, 1}] /\ exit'[p] = c
      /\ \A q \in Programs \ {p} : line'[q] = line[q] /\ exit'[q] = exit[q]
  BY <1>1, ExitTypes
<1>3. PICK d \in Answers(htsvspPortNumber[p]) :
         /\ set' \in [Programs -> SUBSET Devices] /\ set'[p] = set[p] \cup {d}
         /\ \A q \in Programs \ {p} : set'[q] = set[q]
  BY <1>1 DEF Sets, MainTypes, Answers, AnyCase
<1>4. MainTypes' /\ MainAlone(p)
  BY <1>1, <1>2, <1>3 DEF MainTypes, MainAlone
<1>5. reported[p] # None /\ portName[d] = reported[p] /\ d \in AnyCase
  BY <1>1 DEF Main, Selects, Answers, Behind
<1>6. command[p] \notin Operations \cup {"none"}
  BY DEF PortCommands, Settings, Operations
<1>7. InMain(p)' /\ Selects(p)'
  BY <1>1, <1>2, <1>6, VspControlAssumption DEF Main, InMain, Selects
<1>8. Sends(p)' /\ SetInv(p)'
  BY <1>1, <1>2, <1>3, <1>5, <1>6 DEF Main, Sends, SetInv, CallsAlone
<1>9. Manages(p)'
  BY <1>1, <1>2, <1>6 DEF Main, Manages, CallsAlone, Operations
<1>. QED
  BY <1>4, <1>7, <1>8, <1>9, OnlyAbout DEF Main

LEMMA UseStep ==
    ASSUME VspInv, DmInv', CallsAlone, NEW p \in Programs,
           \/ DeviceCommandEnds(p) \/ JustPrints(p) \/ DeleteComPort(p)
           \/ ReadSetting(p) \/ Send(p) \/ Incomplete(p) \/ EchoService(p)
    PROVE  VspInv'
<1>1. MainTypes /\ Main(p)
  BY DEF VspInv
<1>2. CASE DeviceCommandEnds(p)
  <2>1. line[p] = "device" /\ command[p] \in Operations /\ op[p] = command[p]
    BY <1>1, <1>2 DEF DeviceCommandEnds, At, Main, InMain, Manages
  <2>2. ExitCode(op[p], result[p]) \in {0, 1}
    BY <2>1 DEF ExitCode
  <2>3. op[p] \in {"install", "remove"} => (ExitCode(op[p], result[p]) = 0 <=> result[p])
    BY DEF ExitCode
  <2>4. command[p] # "configure"
    BY <2>1 DEF Operations
  <2>. QED
    BY <1>2, <2>1, <2>2, <2>3, <2>4, EndStep DEF DeviceCommandEnds
<1>3. CASE JustPrints(p) \/ DeleteComPort(p)
  <2>1. line[p] \in {"print", "deleteport"} /\ command[p] = line[p]
    BY <1>1, <1>3 DEF JustPrints, DeleteComPort, At, Main, InMain
  <2>. QED
    BY <1>3, <2>1, EndStep DEF JustPrints, DeleteComPort
<1>4. CASE ReadSetting(p)
  <2>1. /\ line[p] = "act" /\ command[p] \in Settings
        /\ UNCHANGED <<command, htsvspPortNumber, reported, set>>
        /\ Go(p, "send") \/ Exit(p, 0)
    BY <1>4 DEF ReadSetting, At
  <2>2. command[p] \notin {"install", "remove", "configure"}
    BY <2>1 DEF Settings
  <2>. QED
    BY <2>1, <2>2, EndStep, GoOnStep
<1>5. CASE Send(p)
  <2>1. /\ line[p] \in {"act", "send"} /\ command[p] \in Settings \cup {"configure"}
        /\ UNCHANGED <<command, htsvspPortNumber, reported>>
    BY <1>1, <1>5 DEF Send, At, Main, InMain
  <2>2. command[p] \in PortCommands /\ command[p] \notin {"install", "remove"}
    BY <2>1 DEF Settings, PortCommands
  <2>3. CASE Sets(p) /\ Exit(p, 0)
    BY <2>1, <2>2, <2>3, SetsStep
  <2>4. CASE Fails(p)
    <3>1. command[p] = "configure" => command[p] \notin Settings
      BY DEF Settings
    <3>2. PICK c \in {0, 1} : Exit(p, c) /\ (command[p] = "configure" => c = 1)
      BY <2>4, <3>1 DEF Fails
    <3>3. CASE UNCHANGED set
      BY <2>1, <2>2, <3>2, <3>3, EndStep
    <3>4. CASE Sets(p)
      BY <2>1, <2>2, <3>2, <3>4, SetsStep
    <3>. QED
      BY <2>4, <3>3, <3>4 DEF Fails
  <2>. QED
    BY <1>5, <2>3, <2>4 DEF Send
<1>6. CASE Incomplete(p)
  BY <1>6, EndStep DEF Incomplete, At
<1>7. CASE EchoService(p)
  <2>1. /\ line[p] \in {"act", "accept", "echo"} /\ command[p] = "echoservice"
        /\ UNCHANGED <<command, htsvspPortNumber, reported, set>>
        /\ \/ \E l \in {"accept", "echo"} : Go(p, l)
           \/ \E c \in {0, 1} : Exit(p, c)
    BY <1>1, <1>7 DEF EchoService, At, Main, InMain
  <2>2. CASE \E l \in {"accept", "echo"} : Go(p, l)
    BY <2>1, <2>2, GoOnStep
  <2>3. CASE \E c \in {0, 1} : Exit(p, c)
    BY <2>1, <2>3, EndStep
  <2>. QED
    BY <2>1, <2>2, <2>3
<1>. QED
  BY <1>2, <1>3, <1>4, <1>5, <1>6, <1>7

LEMMA StartStep ==
    ASSUME VspInv, DmInv', NEW p \in Programs, NEW c \in Commands, Start(p, c)
    PROVE  VspInv'
<1>1. MainTypes /\ Main(p) /\ SetInv(p) /\ command[p] = "none" /\ Types
  BY TypeParts DEF VspInv, Start, DmInv
<1>2. PICK n \in Ports \cup {None} :
         /\ htsvspPortNumber' = [htsvspPortNumber EXCEPT
                                    ![p] = IF c \in PortCommands THEN n ELSE None]
         /\ IF c \in Operations THEN Call(p, c, n) ELSE UNCHANGED dmVars
  BY DEF Start
<1> DEFINE l == IF c \in Operations THEN "device" ELSE IF c \in PortCommands THEN "find" ELSE c
<1>3. /\ line' \in [Programs -> Lines] /\ line'[p] = l /\ exit' = exit
      /\ \A q \in Programs \ {p} : line'[q] = line[q]
  <2>1. l \in Lines
    BY DEF Lines, Commands
  <2>2. Go(p, l)
    BY DEF Start
  <2>. QED
    BY <1>1, <2>1, <2>2, GoTypes
<1>4. /\ command' = [command EXCEPT ![p] = c]
      /\ UNCHANGED <<reported, set, portName, enabled, changed, device, result>>
  BY <1>2 DEF Start, Call, dmVars, systemVars, localVars, historyVars
<1>5. /\ IF c \in Operations THEN op' = [op EXCEPT ![p] = c] ELSE op' = op
      /\ \A q \in Programs \ {p} : /\ op'[q] = op[q] /\ at'[q] = at[q]
                                   /\ target'[q] = target[q]
      /\ at'[p] # "returned"
  <2>1. at[p] = "none"
    BY <1>1 DEF Main, Manages, Operations, VspInv, DmInv, CallInv, InCall
  <2>. QED
    BY <1>1, <1>2, <2>1 DEF Call, GoTo, Types, PlaceTypes, dmVars
<1>6. MainTypes' /\ MainAlone(p) /\ NamedInv'
  BY <1>1, <1>2, <1>3, <1>4 DEF MainTypes, MainAlone, VspInv, NamedInv
<1>7. reported[p] = None /\ set[p] = {} /\ exit[p] = None /\ line[p] = "none" /\ op[p] = "none"
  BY <1>1 DEF Main, InMain, Selects, Sends, Manages, PortCommands, Settings, Operations
<1>8. Main(p)' /\ SetInv(p)'
  <2>1. InMain(p)'
    BY <1>1, <1>3, <1>4, <1>7 DEF InMain, MainTypes, Commands, PortCommands, Settings, Operations
  <2>2. Selects(p)'
    BY <1>1, <1>3, <1>4, <1>7 DEF Selects, MainTypes, Commands, PortCommands, Settings, Operations
  <2>3. command'[p] = c /\ op'[p] = (IF c \in Operations THEN c ELSE "none")
    BY <1>1, <1>4, <1>5, <1>7 DEF MainTypes, Types, PlaceTypes
  <2>4. Manages(p)'
    BY <1>3, <1>7, <2>3 DEF Manages
  <2>. QED
    BY <1>3, <1>4, <1>7, <2>1, <2>2, <2>4, VspControlAssumption DEF Main, Sends, SetInv
<1>9. ASSUME NEW q \in Programs \ {p}
      PROVE  Main(q)' /\ SetInv(q)'
  <2>1. Main(q) /\ SetInv(q)
    BY DEF VspInv
  <2>2. InMain(q)' /\ Selects(q)' /\ Sends(q)'
    BY <1>6, <2>1 DEF Main, InMain, Selects, Sends, MainAlone
  <2>3. Manages(q)' /\ SetInv(q)'
    BY <1>4, <1>5, <1>6, <2>1 DEF Main, Manages, SetInv, MainAlone
  <2>. QED
    BY <2>2, <2>3 DEF Main
<1>10. ASSUME NEW q \in Programs
       PROVE  DoneInv(q)'
  <2>1. CASE q = p
    BY <1>5, <2>1 DEF DmInv, ResultInv, InResult, DoneInv, ByName, Uninstalling
  <2>2. CASE q # p
    BY <1>4, <1>5, <2>2 DEF VspInv, DoneInv
  <2>. QED
    BY <2>1, <2>2
<1>. QED
  BY <1>6, <1>8, <1>9, <1>10 DEF VspInv

LEMMA VspInvInit == VspInit => VspInv
<1>. SUFFICES ASSUME VspInit
              PROVE  VspInv
  OBVIOUS
<1>1. DmInv
  BY InvInit DEF VspInit
<1>2. MainTypes
  BY DEF VspInit, MainTypes, Lines
<1>3. NamedInv
  BY DEF VspInit, DmInit, NamedInv
<1>4. \A p \in Programs : Main(p) /\ SetInv(p)
  BY DEF VspInit, DmInit, Main, InMain, Selects, Manages, Sends, SetInv, Operations
<1>5. \A p \in Programs : DoneInv(p)
  BY DEF VspInit, DmInit, DoneInv, ByName
<1>. QED
  BY <1>1, <1>2, <1>3, <1>4, <1>5 DEF VspInv

LEMMA VspInvNext == VspInv /\ [VspNext]_vspVars => VspInv'
<1>. SUFFICES ASSUME VspInv, [VspNext]_vspVars
              PROVE  VspInv'
  OBVIOUS
<1>1. DmInv'
  BY DmOrNothing, InvNext DEF VspInv
<1>2. ASSUME NEW p \in Programs, Runs(p), ~(Works(p) /\ UNCHANGED mainVars)
      PROVE  VspInv'
  <2>1. CallsAlone
    BY <1>2 DEF Runs, DeviceCommandEnds, JustPrints, DeleteComPort, ReleasePort, TestSelected,
         Search, MoreData, GetCommPorts, NoCommPorts, TestNext, NoneAnswers, ReadSetting,
         Send, Incomplete, EchoService, CallsAlone, dmVars, systemVars, localVars, historyVars
  <2>. QED
    BY <1>1, <1>2, <2>1, SearchStep, UseStep DEF Runs
<1>3. CASE UNCHANGED vspVars
  <2>1. UNCHANGED mainVars /\ CallsAlone
    BY <1>3 DEF vspVars, dmVars, systemVars, localVars, historyVars, CallsAlone
  <2>2. MainTypes' /\ NamedInv'
    BY <2>1 DEF VspInv, MainTypes, NamedInv, mainVars, CallsAlone
  <2>3. \A p \in Programs : Main(p)' /\ SetInv(p)' /\ DoneInv(p)'
    BY <2>1 DEF VspInv, Main, InMain, Selects, Manages, Sends, SetInv, DoneInv, mainVars,
         CallsAlone
  <2>. QED
    BY <1>1, <2>2, <2>3 DEF VspInv
<1>. QED
  BY <1>1, <1>2, <1>3, StartStep, ManagerStep DEF VspNext

(* Where main is, what it has selected, sent and had changed fit together. *)
THEOREM VspInductive == VspSpec => []VspInv
BY VspInvInit, VspInvNext, PTL DEF VspSpec

(* setTraceLevel, setWaitUnits and configVSp act on the port that main has *)
(* printed, whatever other programs do to the ports after that.            *)
THEOREM PortIsTheReportedOne == VspSpec => []ActsOnReportedPort
<1>1. VspInv => ActsOnReportedPort
  BY DEF VspInv, SetInv, ActsOnReportedPort
<1>. QED
  BY <1>1, VspInductive, PTL

(* The exit codes that main computes from the outcome: 0 of --remove and   *)
(* --configure says that the device of the port was removed or has taken   *)
(* the configuration, 0 of --install that a device of the driver was given *)
(* it; 1 of --remove and --install says that no device was changed.        *)
THEOREM ExitCodesTell == VspSpec => []ExitCodeTells
<1>1. ASSUME VspInv, NEW p \in Programs
      PROVE  /\ exit[p] = 0 /\ command[p] \in {"remove", "configure", "install"} => Did(p)
             /\ exit[p] = 1 /\ command[p] \in {"remove", "install"} => changed[p] = {}
  <2>1. /\ MainTypes /\ Main(p) /\ SetInv(p) /\ DoneInv(p)
        /\ ResultTellsWhatHappened /\ Types
    BY <1>1, TypeParts DEF VspInv, DmInv, ResultInv
  <2>2. CASE command[p] = "configure" /\ exit[p] = 0
    <3>1. PICK d \in set[p] : TRUE
      BY <2>1, <2>2 DEF Main, Sends
    <3>2. d \notin Foreign /\ portName[d] = reported[p]
      BY <2>1, <3>1 DEF SetInv, AnyCase
    <3>. QED
      BY <2>2, <3>1, <3>2 DEF Did
  <2>3. CASE command[p] \in {"remove", "install"} /\ exit[p] \in {0, 1}
    <3>1. op[p] = command[p] /\ at[p] = "returned" /\ (exit[p] = 0 <=> result[p])
      BY <2>1, <2>3, VspControlAssumption DEF Main, Manages, Operations
    <3>2. result[p] <=> changed[p] # {}
      BY <2>1, <2>3, <3>1 DEF ResultTellsWhatHappened
    <3>3. \A d \in changed[p] : /\ d \notin Foreign
                                /\ command[p] = "install" \/ portName[d] = target[p]
      BY <2>1, <2>3, <3>1 DEF DoneInv, ByName, Exact, AnyCase
    <3>. QED
      BY <2>3, <3>1, <3>2, <3>3 DEF Did
  <2>. QED
    BY <2>2, <2>3
<1>2. VspInv => ExitCodeTells
  BY <1>1 DEF ExitCodeTells
<1>. QED
  BY <1>2, VspInductive, PTL

=============================================================================
