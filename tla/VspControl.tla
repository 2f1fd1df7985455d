----------------------------- MODULE VspControl -----------------------------
(***************************************************************************)
(* main of vspControl: programs that run side by side, one command each.   *)
(* A command on devices is a call of the device manager; a command on a    *)
(* port first searches for one of the driver, and then opens it again to   *)
(* talk to it.  Parsing of the command line is left out: a command stands  *)
(* for the options that select it, "configure" for --stop too, "setting"   *)
(* for --trace and --waitUnits, "print" for --help and --listports.        *)
(***************************************************************************)
EXTENDS DeviceManager

(* "incomplete" are options without a service port, or without the address *)
(* of a client.                                                            *)
Settings     == {"setting", "report"}
PortCommands == Settings \cup {"configure", "incomplete", "echoservice"}
Commands     == Operations \cup PortCommands \cup {"print", "deleteport"}

(* Nothing but a port or an exit code of 0 or 1 is written where None is.  *)
ASSUME VspControlAssumption == None \notin {0, 1}

VARIABLES
    command,           \* of each program, "none" before it starts
    line,              \* where its main is
    htsvspPortNumber,  \* the global, None for 0
    portNumbers,       \* numbers in the array that are not tested yet
    portNumbersCount,  \* size of the array, 0 for NULL
    reported,          \* number that main has printed as found
    set,               \* devices that have acted on what the command sent
    exit               \* exit code, None while it runs

mainVars == <<command, line, htsvspPortNumber, portNumbers, portNumbersCount, reported,
              set, exit>>
vspVars  == <<dmVars, mainVars>>

VspInit ==
    /\ DmInit
    /\ command = [p \in Programs |-> "none"] /\ line = [p \in Programs |-> "none"]
    /\ htsvspPortNumber = [p \in Programs |-> None]
    /\ portNumbers = [p \in Programs |-> {}]
    /\ portNumbersCount = [p \in Programs |-> 0]
    /\ reported = [p \in Programs |-> None] /\ set = [p \in Programs |-> {}]
    /\ exit = [p \in Programs |-> None]

At(p, here) == line[p] = here

Go(p, there) == line' = [line EXCEPT ![p] = there] /\ UNCHANGED exit

Exit(p, code) ==
    /\ line' = [line EXCEPT ![p] = "ended"]
    /\ exit' = [exit EXCEPT ![p] = code]

(* A port can be opened if an enabled device has the name; it answers      *)
(* IDENTIFY, and takes the driver's other codes, if it is the driver's.    *)
Behind(n)       == {d \in enabled : portName[d] = n}
Answers(n)      == Behind(n) \cap AnyCase
CommPorts       == {portName[d] : d \in enabled}

----------------------------------------------------------------------------
(* Commands on devices.                                                    *)

Start(p, c) ==
    /\ command[p] = "none"
    /\ command' = [command EXCEPT ![p] = c]
    /\ \E n \in Ports \cup {None} :
          /\ c \in ByName => n # None
          /\ htsvspPortNumber' = [htsvspPortNumber EXCEPT
                                     ![p] = IF c \in PortCommands THEN n ELSE None]
          /\ IF c \in Operations THEN Call(p, c, n) ELSE UNCHANGED dmVars
    /\ Go(p, IF c \in Operations THEN "device" ELSE IF c \in PortCommands THEN "find" ELSE c)
    /\ UNCHANGED <<portNumbers, portNumbersCount, reported, set>>

(* mutant: a failed call ends the program as a successful one does.        *)
ZeroOnFailure(o, value) == IF value /\ o \in {"add", "enable", "disable"} THEN 1 ELSE 0

(* enableDevice and disableDevice are compared with 0, and what addDevice  *)
(* returns is the exit code.                                               *)
ExitCode(o, value) ==
    CASE o = "list"                         -> 0
      [] o \in {"add", "enable", "disable"} -> IF value THEN 1 ELSE 0
      [] OTHER                              -> IF value THEN 0 ELSE 1

DeviceCommandEnds(p) ==
    /\ At(p, "device") /\ at[p] = "returned"
    /\ Exit(p, ExitCode(op[p], result[p]))
    /\ UNCHANGED <<dmVars, command, htsvspPortNumber, portNumbers, portNumbersCount,
                   reported, set>>

(* --help, listComportDatabase.                                            *)
JustPrints(p) ==
    /\ At(p, "print")
    /\ Exit(p, 0)
    /\ UNCHANGED <<dmVars, command, htsvspPortNumber, portNumbers, portNumbersCount,
                   reported, set>>

(* deleteComPort; its failure is printed only.                             *)
DeleteComPort(p) ==
    /\ At(p, "deleteport")
    /\ (\E n \in Ports : ReleasePort(n)) \/ UNCHANGED dmVars
    /\ Exit(p, 0)
    /\ UNCHANGED <<command, htsvspPortNumber, portNumbers, portNumbersCount, reported, set>>

----------------------------------------------------------------------------
(* findHtsVsp.  main calls it with the global itself, so that from then on *)
(* the number counts as selected; setTraceLevel, setWaitUnits and          *)
(* reportStatistics call it a second time.                                 *)

(* "delete[] portNumbers".                                                 *)
FreeArray(p) ==
    /\ portNumbers' = [portNumbers EXCEPT ![p] = {}]
    /\ portNumbersCount' = [portNumbersCount EXCEPT ![p] = 0]

(* mutant: main searches into a variable of its own.                       *)
FoundLocally(p, n) ==
    /\ FreeArray(p)
    /\ Go(p, IF reported[p] = None /\ command[p] \in Settings THEN "find" ELSE "act")
    /\ htsvspPortNumber' = [htsvspPortNumber EXCEPT
                               ![p] = IF reported[p] = None THEN None ELSE n]
    /\ reported' = [reported EXCEPT ![p] = IF @ = None THEN n ELSE @]

(* The end of a search, in main or in the function of a setting.           *)
Found(p, n) ==
    /\ FreeArray(p)
    /\ Go(p, IF reported[p] = None /\ command[p] \in Settings THEN "find" ELSE "act")
    /\ htsvspPortNumber' = [htsvspPortNumber EXCEPT ![p] = n]
    /\ reported' = [reported EXCEPT ![p] = IF @ = None THEN n ELSE @]

NotFound(p) ==
    /\ FreeArray(p)
    /\ Exit(p, IF reported[p] = None THEN 1 ELSE 0)
    /\ UNCHANGED <<htsvspPortNumber, reported>>

(* testHtsVspPort.  Opening or identifying may fail.                       *)
TestSelected(p) ==
    /\ At(p, "find") /\ htsvspPortNumber[p] # None
    /\ \/ Answers(htsvspPortNumber[p]) # {} /\ Found(p, htsvspPortNumber[p])
       \/ NotFound(p)
    /\ UNCHANGED <<dmVars, command, set>>

Search(p) ==
    /\ At(p, "find") /\ htsvspPortNumber[p] = None
    /\ Go(p, "get")
    /\ portNumbersCount' = [portNumbersCount EXCEPT ![p] = 0]
    /\ UNCHANGED <<dmVars, command, htsvspPortNumber, portNumbers, reported, set>>

(* ERROR_MORE_DATA: ports may have come since it told how many.            *)
MoreData(p) ==
    /\ At(p, "get") /\ Cardinality(CommPorts) > portNumbersCount[p]
    /\ portNumbersCount' = [portNumbersCount EXCEPT ![p] = Cardinality(CommPorts)]
    /\ UNCHANGED <<dmVars, command, line, htsvspPortNumber, portNumbers, reported, set,
                   exit>>

(* No array: there is no port, or GetCommPorts failed.                     *)
NoCommPorts(p) ==
    /\ At(p, "get")
    /\ NotFound(p)
    /\ UNCHANGED <<dmVars, command, set>>

GetCommPorts(p) ==
    /\ At(p, "get")
    /\ portNumbersCount[p] > 0 /\ Cardinality(CommPorts) <= portNumbersCount[p]
    /\ Go(p, "test")
    /\ portNumbers' = [portNumbers EXCEPT ![p] = CommPorts]
    /\ UNCHANGED <<dmVars, command, htsvspPortNumber, portNumbersCount, reported, set>>

(* mutant: the loop tests the first port over and over.                    *)
TestFirst(p) ==
    /\ At(p, "test") /\ portNumbers[p] # {}
    /\ LET n == CHOOSE m \in portNumbers[p] : \A k \in portNumbers[p] : m <= k
       IN Answers(n) # {} /\ Found(p, n)
    /\ UNCHANGED <<dmVars, command, set>>

TestNext(p) ==
    /\ At(p, "test")
    /\ \E n \in portNumbers[p] :
          \/ Answers(n) # {} /\ Found(p, n)
          \/ /\ portNumbers' = [portNumbers EXCEPT ![p] = @ \ {n}]
             /\ UNCHANGED <<line, htsvspPortNumber, portNumbersCount, reported, exit>>
    /\ UNCHANGED <<dmVars, command, set>>

NoneAnswers(p) ==
    /\ At(p, "test") /\ portNumbers[p] = {}
    /\ NotFound(p)
    /\ UNCHANGED <<dmVars, command, set>>

----------------------------------------------------------------------------
(* What is done with the port.                                             *)

(* mutant: configVSp returns the handle although CONFIGURE failed.         *)
FailsWithHandle(p) == Exit(p, 0) /\ UNCHANGED set

Sets(p) ==
    \E d \in Answers(htsvspPortNumber[p]) : set' = [set EXCEPT ![p] = @ \cup {d}]

(* The exit code when the port cannot be opened any more or a request      *)
(* fails: a setting's is only printed.  A CONFIGURE that fails may have    *)
(* taken down the connection of the device before.                         *)
Fails(p) ==
    /\ Exit(p, IF command[p] \in Settings THEN 0 ELSE 1)
    /\ \/ UNCHANGED set
       \/ command[p] = "configure" /\ Sets(p)

(* setTraceLevel and setWaitUnits read the value, and set it if it is      *)
(* another; configVSp sets.                                                *)
ReadSetting(p) ==
    /\ At(p, "act") /\ command[p] \in Settings
    /\ \/ Answers(htsvspPortNumber[p]) # {} /\ command[p] # "report" /\ Go(p, "send")
       \/ Exit(p, 0)
    /\ UNCHANGED <<dmVars, command, htsvspPortNumber, portNumbers, portNumbersCount,
                   reported, set>>

Send(p) ==
    /\ \/ At(p, "send")
       \/ At(p, "act") /\ command[p] = "configure"
    /\ \/ Sets(p) /\ Exit(p, 0)
       \/ Fails(p)
    /\ UNCHANGED <<dmVars, command, htsvspPortNumber, portNumbers, portNumbersCount,
                   reported>>

(* "port number must be greater than zero" and the like.                   *)
Incomplete(p) ==
    /\ At(p, "act") /\ command[p] = "incomplete"
    /\ Exit(p, 0)
    /\ UNCHANGED <<dmVars, command, htsvspPortNumber, portNumbers, portNumbersCount,
                   reported, set>>

(* echoService: one client at a time, until accept fails.  Nobody ends it. *)
EchoService(p) ==
    /\ \/ At(p, "act") /\ command[p] = "echoservice" /\ (Go(p, "accept") \/ Exit(p, 1))
       \/ At(p, "accept") /\ (Go(p, "echo") \/ Exit(p, 0))
       \/ At(p, "echo") /\ Go(p, "accept")
    /\ UNCHANGED <<dmVars, command, htsvspPortNumber, portNumbers, portNumbersCount,
                   reported, set>>

----------------------------------------------------------------------------

Runs(p) ==
    \/ Works(p) /\ UNCHANGED mainVars
    \/ DeviceCommandEnds(p) \/ JustPrints(p) \/ DeleteComPort(p)
    \/ TestSelected(p) \/ Search(p) \/ MoreData(p) \/ GetCommPorts(p) \/ NoCommPorts(p)
    \/ TestNext(p) \/ NoneAnswers(p)
    \/ ReadSetting(p) \/ Send(p) \/ Incomplete(p) \/ EchoService(p)

VspNext == \E p \in Programs : (\E c \in Commands : Start(p, c)) \/ Runs(p)

(* A program that has been started is scheduled, and its calls return.     *)
VspSpec == VspInit /\ [][VspNext]_vspVars /\ \A p \in Programs : WF_vspVars(Runs(p))

----------------------------------------------------------------------------

(* Of the commands whose exit code main computes from the outcome, 0 says  *)
(* that it was done: the port's device was removed or has taken the        *)
(* configuration, a device of the driver was given it.  1 of remove and    *)
(* install says that no device was; a configuration that fails may have    *)
(* closed the connection.                                                  *)
Did(p) ==
    \E d \in (changed[p] \cup set[p]) \ Foreign :
       command[p] = "install" \/ portName[d] \in {target[p], reported[p]}

ExitCodeTells ==
    \A p \in Programs :
       /\ exit[p] = 0 /\ command[p] \in {"remove", "configure", "install"} => Did(p)
       /\ exit[p] = 1 /\ command[p] \in {"remove", "install"} => changed[p] = {}

(* "@return bool true on success" and "return ... ? 0 : 1": a command on   *)
(* one device exits with 0 if it has changed it, and with 1 if not.        *)
ZeroMeansSuccess ==
    \A p \in Programs :
       command[p] \in {"add", "remove", "enable", "disable"} /\ exit[p] # None =>
          (exit[p] = 0 <=> result[p])

(* "these three functions depend on selectPort to work correctly": a port  *)
(* command acts on the port that main has printed, although it searches    *)
(* again and ports come and go.                                            *)
ActsOnReportedPort ==
    \A p \in Programs : \A d \in set[p] : portName[d] = reported[p]

(* A program that starts comes to its end, unless it is an echo service:   *)
(* whatever other programs do to the ports while it searches.              *)
EveryProgramEnds ==
    \A p \in Programs :
       command[p] \notin {"none", "echoservice"} ~> exit[p] # None

=============================================================================
