SPECIFICATION Spec
CONSTANTS
    Sockets = {s1, s2}
    MaxThreads = 2
    Null = Null
    MaxWrites = 2
    WriteLength = 2
INVARIANTS
    ConfiguredPortIsServed
CHECK_DEADLOCK FALSE
