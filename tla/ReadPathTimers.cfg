SPECIFICATION FairSpec
CONSTANTS
    Requests = {r1}
    None = None
    MaxUlong = 3
    MaxLength = 2
    MaxBytes = 1
    WaitUnits = 2
    TimeoutChoices <- UntimedOrFirst
    Disturbances = {"cleanup"}
INVARIANTS
    HeldReadHasItsWakeUp
PROPERTIES
    UntimedReadCompletes
    TotalTimeoutCompletes
    TerminationEndsTheThread
CHECK_DEADLOCK FALSE
