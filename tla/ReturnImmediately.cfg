SPECIFICATION Spec
CONSTANTS
    Requests = {r1}
    None = None
    MaxUlong = 3
    MaxLength = 1
    MaxBytes = 1
    WaitUnits = 2
    TimeoutChoices <- JustImmediate
    Disturbances = {}
INVARIANTS
    ReturnImmediately
CHECK_DEADLOCK FALSE
