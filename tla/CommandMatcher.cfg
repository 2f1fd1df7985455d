SPECIFICATION ModemSpec
CONSTANTS
    Modes = {"locked", "merged"}
    Size = 5
    MaxChunk = 5
    MaxBytes = 10
    Characters = {"A", "T", "D", "CR"}
    ConnectLength = 3
    OkLength = 2
    MaxLine = 5
INVARIANTS
    RingTypeOK
    BytesDelivered
    AnswersCommands
    AnswerFollowsItsEcho
PROPERTIES
    ImplementsLossyBuffer
CHECK_DEADLOCK FALSE
