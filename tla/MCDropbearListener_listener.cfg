\* Three connections at a time from two hosts for two slots, two factors, and a user
\* who does not exist.
SPECIFICATION FairSpec
CONSTANTS
    Conns = {c1, c2, c3}
    Hosts = {h1, h2}
    Users = {root, alice, ghost}
    ValidUsers = {root, alice}
    MaxUnauthClients = 2
    MaxUnauthPerIp = 1
    MaxAuthTries = 2
    MultiAuth = TRUE
    None = None
CHECK_DEADLOCK FALSE
INVARIANTS
    SlotsMatch
    LoginsProven
PROPERTIES
    SlotsComeBack
