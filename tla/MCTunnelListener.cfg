\* The reassembler with one port that accepts two links over time, at most one
\* of them alive; a writer task recovers what its link lost through the other.
\* d2 is refused by encode_into.
SPECIFICATION Spec
CONSTANTS
    Role = "reassembler"
    Tunnel = {t1}
    MaxSessions = 2
    Data = {d1, d2}
    Oversized = {d2}
    Ctl = {}
    Cap = 1
    MAX_TUNNEL_LINKS = 1
    None = None
INVARIANTS
    FrameConserved
CHECK_DEADLOCK FALSE
