\* Two sessions, the second of which has no command when the first one ends.
SPECIFICATION Spec
CONSTANTS
    Ids = {1, 2}
    Loads <- TwoLoads
    Slots = {0, 1}
    None = None
    RecvWindow = 3
    TransWindow = 1
    PipeSize = 1
    QueueLimit = 0
    WireLimit = 1
    Held = {"out", "err"}
CHECK_DEADLOCK FALSE
INVARIANT
    NoDataAfterClose
