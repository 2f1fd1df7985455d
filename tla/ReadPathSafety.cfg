SPECIFICATION Spec
CONSTANTS
    Requests = {r1, r2}
    None = None
    MaxUlong = 3
    MaxLength = 2
    MaxBytes = 2
    WaitUnits = 2
    TimeoutChoices <- JustTotal
    Disturbances = {"reject", "cancel", "close", "reset"}
INVARIANTS
    TypeOK
    EachReadInOnePlace
    NeededMatchesInformation
    BytesInOrder
    LossOnlyOnGivingUp
    CancelWakesTheThread
    StrayCancelsAreAccountedFor
PROPERTIES
    CompletedOnce
    ImplementsReadService
SYMMETRY Symmetry
CHECK_DEADLOCK FALSE
