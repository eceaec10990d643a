\* Three response frames, two upload frames, a channel of one chunk, under fairness.
SPECIFICATION FairSpec
CONSTANTS
    N = 3
    M = 2
    CLIENT_CHANNEL_CAP = 1
INVARIANTS
    ClientPrefix
    CleanEndIsComplete
    FinCoversUpload
    PeerTold
PROPERTY HandlerEnds
CHECK_DEADLOCK FALSE
