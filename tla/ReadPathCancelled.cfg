SPECIFICATION FairSpec
CONSTANTS
    Requests = {r1, r2}
    None = None
    MaxUlong = 3
    MaxLength = 2
    MaxBytes = 1
    WaitUnits = 2
    TimeoutChoices <- JustInterval
    Disturbances = {"cancel"}
PROPERTIES
    CancelledReadCompletes
CHECK_DEADLOCK FALSE
