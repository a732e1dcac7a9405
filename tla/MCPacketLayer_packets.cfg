\* Torn and whole packets, keys that change, counters at their limits.
SPECIFICATION FairSpec
CONSTANTS
    Setups <- MCSetups
    Sizes = {3}
    Room = 3
    MaxGarbage = 4
INVARIANTS
    TypeOK
    AuthenticInOrder
    NothingLost
    WrittenOnceInOrder
    InboundKeyBounded
PROPERTIES
    CallEnds
CHECK_DEADLOCK FALSE
