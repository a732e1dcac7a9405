\* Key exchanges in every order of inputs with SUTs of every kind.
SPECIFICATION Spec
CONSTANTS
    None = None
    Suts <- AnySut
    Alphabets <- MCAlphabets
    MaxQueries = 4
    MaxRekeys = 1
CHECK_DEADLOCK FALSE
INVARIANTS
    TypeOK
    InboundReadable
    OutboundReadable
    SessionIdsAgree
    MapperSurvives
