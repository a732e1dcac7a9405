\* Two learners, one after the other or at once, against a server.
SPECIFICATION Spec
CONSTANTS
    l1 = l1
    l2 = l2
    t1 = t1
    a = a
    b = b
    x = x
    s1 = s1
    s2 = s2
    s3 = s3
    Learners = {l1, l2}
    Testers = {}
    Cmds = {a, b}
    Bogus = {x}
    Reset = Reset
    None = None
    NullOut = NullOut
    Fuzz = "server"
    Warmup <- ServerWarmup
    TesterLines <- NoLines
    Socks = {s1, s2, s3}
    SutSlots = 2
    MaxWord = 2
    MaxHist = 2
    MaxDepth = 1
PROPERTIES
    ServesOracle
SYMMETRY SockSymmetry
INVARIANTS
    TypeOK
    ReplyAccounting
    AnswerMatchesWord
    NewClientNewConnection
CHECK_DEADLOCK FALSE
