\* A learner and a tester of multi-run lines, against clients that a reset launches
\* and warms up, under the fairness of the mapper and of the readers.
SPECIFICATION FairSpec
CONSTANTS
    l1 = l1
    l2 = l2
    t1 = t1
    a = a
    b = b
    x = x
    s1 = s1
    s2 = s2
    s3 = s3
    Learners = {l1}
    Testers = {t1}
    Cmds = {a, b}
    Bogus = {x}
    Reset = Reset
    None = None
    NullOut = NullOut
    Fuzz = "client"
    Warmup <- ClientWarmup
    TesterLines <- MCTesterLines
    Socks = {s1, s2}
    SutSlots = 2
    MaxWord = 2
    MaxHist = 2
    MaxDepth = 1
INVARIANTS
    RepeatsAgree
PROPERTIES
    ServedRequestEnds
CHECK_DEADLOCK FALSE
