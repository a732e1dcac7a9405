\* A SUT that answers within the timeouts, after them, without end, or not at all.
SPECIFICATION FairSpec
CONSTANTS
    kexinit = kexinit
    kex31 = kex31
    newkeys = newkeys
    chopen = chopen
    chopenok = chopenok
    ignore = ignore
    unnamed = unnamed
    Names = {kexinit, kex31, newkeys, chopen, chopenok}
    Chatter = {ignore}
    Unnamed = {unnamed}
    NoResp = NoResp
    NoConn = NoConn
    Buffered = Buffered
    Kex31 = kex31
    NewKeys = newkeys
    Hangup = Hangup
    Inside <- NoneInside
    Reactions <- AnyTime
    Timings <- TwoTimings
    BufferAfterNewkey = TRUE
    MaxQueries = 2
CHECK_DEADLOCK FALSE
INVARIANTS
    TypeOK
    AnswerIsReaction
    DurationBounded
PROPERTIES
    QueryAnswered
    InTimeIsRead
