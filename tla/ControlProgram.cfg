CONSTANTS
    own = own
    new = new
    alt = alt
    other = other
    None = None
    p1 = p1
    p2 = p2
    Programs <- MCPrograms
    Devices <- MCDevices
    Foreign <- MCForeign
    OtherCase <- MCOtherCase
    Ports <- MCPorts
SPECIFICATION MCSpec
CHECK_DEADLOCK FALSE
INVARIANTS
    DmTypeOK
    
    UninstallRemovesAll
    ExitCodeTells
    ActsOnReportedPort
PROPERTIES
    ChangesOnlyItsTarget
    EveryProgramEnds
