SPECIFICATION Spec
CONSTANTS
    Requests = {r1, r2}
    None = None
    MaxUlong = 3
    MaxLength = 1
    MaxBytes = 1
    WaitUnits = 2
    TimeoutChoices <- JustTotal
    Disturbances = {}
INVARIANTS
    NoSleepOverQueuedRead
CHECK_DEADLOCK FALSE
