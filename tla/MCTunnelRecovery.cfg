\* The splitter with two tunnels: frames lost by one link are recovered through
\* the other.  A channel of one frame is full after one send.
SPECIFICATION Spec
CONSTANTS
    Role = "splitter"
    Tunnel = {t1, t2}
    MaxSessions = 1
    Data = {d1}
    Oversized = {}
    Ctl = {fin}
    Cap = 1
    MAX_TUNNEL_LINKS = 1
    None = None
INVARIANTS
    FrameConserved
    LostListComplete
    TeardownSignalled
SYMMETRY Symmetry
CHECK_DEADLOCK FALSE
