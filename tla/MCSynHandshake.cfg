\* A SYN and a duplicate of it, DATA, RST, and an eviction by another cid,
\* under fairness.
SPECIFICATION FairSpec
CONSTANTS
    Syns = {s1, s2}
    Datas = {d1}
    Fins = {}
    Rsts = {rst}
    MAX_PENDING_BYTES = 1
    MAX_PENDING_FRAMES_PER_CID = 1
    Sweepers = {}
    Evictors = {ev}
    USIZE = 16
    None = None
INVARIANTS
    OneHandshake
    ResetTakesEffect
PROPERTY HandshakeEnds
CHECK_DEADLOCK FALSE
