\* A session whose program leaves its input to a descendant that never reads.
SPECIFICATION FairSpec
CONSTANTS
    Ids = {1, 2}
    Loads <- OneLoad
    Slots = {0, 1}
    None = None
    RecvWindow = 3
    TransWindow = 1
    PipeSize = 1
    QueueLimit = 0
    WireLimit = 1
    Held = {"in", "out", "err"}
CHECK_DEADLOCK FALSE
PROPERTY
    CloseFreesSlot
