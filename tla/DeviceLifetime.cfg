SPECIFICATION FairSpec
CONSTANTS
    Sockets = {s1, s2}
    MaxThreads = 2
    Null = Null
    MaxWrites = 2
    WriteLength = 2
INVARIANTS
    LifetimeTypeOK
    OneClientThread
    SocketsAccountedFor
    EventsOutliveTheThread
    FailedConfigureLeavesNothing
    NothingLeftBehind
PROPERTIES
    ImplementsWriteService
    CallsReturn
    TerminatedThreadsEnd
CHECK_DEADLOCK FALSE
