\* What the retries of init_ssh_connection wait for.
SPECIFICATION Spec
CONSTANTS
    l1 = l1
    l2 = l2
    t1 = t1
    a = a
    b = b
    x = x
    s1 = s1
    s2 = s2
    s3 = s3
    Learners = {l1}
    Testers = {}
    Cmds = {a, b}
    Bogus = {x}
    Reset = Reset
    None = None
    NullOut = NullOut
    Fuzz = "server"
    Warmup <- ServerWarmup
    TesterLines <- NoLines
    Socks = {s1, s2}
    SutSlots = 1
    MaxWord = 1
    MaxHist = 2
    MaxDepth = 1
INVARIANTS
    OldConnectionsAreClosed
CHECK_DEADLOCK FALSE
