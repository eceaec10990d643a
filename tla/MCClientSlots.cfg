\* Two clients, two ids, a limit of one connection, under fairness.
SPECIFICATION FairSpec
CONSTANTS
    Clients = {c1, c2}
    Ids = {i1, i2}
    MAX_CONCURRENT_CONNS = 1
    Nobody = Nobody
INVARIANTS
    NoStaleId
    LiveIsEntered
PROPERTY SlotWakeup
CHECK_DEADLOCK FALSE
