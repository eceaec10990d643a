\* One SYN, two DATA frames against a budget of one byte, FIN, the heartbeat's
\* sweep and an eviction by another cid.
SPECIFICATION Spec
CONSTANTS
    Syns = {s1}
    Datas = {d1, d2}
    Fins = {fin}
    Rsts = {}
    MAX_PENDING_BYTES = 1
    MAX_PENDING_FRAMES_PER_CID = 1
    Sweepers = {hb}
    Evictors = {ev}
    USIZE = 16
    None = None
INVARIANTS
    BudgetRespected
    BudgetCovers
    FramesArrive
CHECK_DEADLOCK FALSE
