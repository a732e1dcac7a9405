SPECIFICATION FairSpec
CONSTANTS
    Ids = {1, 2}
    Loads <- MCLoads
    Slots = {0, 1}
    None = None
    RecvWindow = 3
    TransWindow = 1
    PipeSize = 1
    QueueLimit = 0
    WireLimit = 1
    Held = {"out", "err"}
CHECK_DEADLOCK FALSE
INVARIANTS
    TypeOK
    WindowsAgree
    OnlyKnownExit
    WireOrder
PROPERTIES
    OutputComplete
    ExitReported
    CloseFreesSlot
