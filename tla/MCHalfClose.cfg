\* Two DATA frames, FIN, a channel of one chunk, under fairness.
SPECIFICATION FairSpec
CONSTANTS
    N = 2
    Fins = {0}
    EGRESS_CHANNEL_CAP = 1
INVARIANTS
    CloseAccounted
    CleanEofIsComplete
    
PROPERTIES
    ClosedIsFinal
    EofHappens
    NoTaskLeak
CHECK_DEADLOCK FALSE
