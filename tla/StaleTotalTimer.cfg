SPECIFICATION Spec
CONSTANTS
    Requests = {r1, r2}
    None = None
    MaxUlong = 3
    MaxLength = 1
    MaxBytes = 2
    WaitUnits = 2
    TimeoutChoices <- UntimedOrFirst
    Disturbances = {}
PROPERTIES
    TotalTimerEndsOnlyItsReads
CHECK_DEADLOCK FALSE
