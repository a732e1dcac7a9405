\* Three exchanges, a login and two pipelined requests, data sent meanwhile, and a
\* client that sends any packet out of its place.
SPECIFICATION FairSpec
CONSTANTS
    Guesses = {"none", "right", "wrong"}
    Strays = {"SERVICE_REQUEST", "USERAUTH_REQUEST", "CHANNEL_REQUEST", "KEXINIT", "KEXDH_INIT", "NEWKEYS", "GEX_REQUEST"}
    MaxStrays = 1
    MaxKex = 3
    MaxRequests = 4
    MaxData = 2
    WireLimit = 2
    QueueLimit = 2
CHECK_DEADLOCK FALSE
INVARIANTS
    ExchangeOnPath
    PeersUnderstand
    SentInOrder
    AuthUnderKeys
PROPERTIES
    EverythingSettles
