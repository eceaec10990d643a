\* The splitter with one tunnel that reconnects once, under fairness.
SPECIFICATION FairSpec
CONSTANTS
    Role = "splitter"
    Tunnel = {t1}
    MaxSessions = 2
    Data = {d1}
    Oversized = {}
    Ctl = {fin}
    Cap = 1
    MAX_TUNNEL_LINKS = 1
    None = None
INVARIANT NoLostWakeup
PROPERTIES
    Teardown
    SenderProgress
CHECK_DEADLOCK FALSE
