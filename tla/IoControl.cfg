SPECIFICATION IoSpec
CONSTANTS
    Waits = {w1, w2}
    SmallWaits = {w2}
    Values = {0, 3}
    Levels = {1, 4}
    LineSettings <- MCLineSettings
    TimeSettings <- MCTimeSettings
    MaxUlong = 3
    None = None
INVARIANTS
    IoTypeOK
    EachWaitInOnePlace
    LineControlIsWhatWasSet
PROPERTIES
    ImplementsWaitSlot
    FailuresChangeNothingElse
CHECK_DEADLOCK FALSE
