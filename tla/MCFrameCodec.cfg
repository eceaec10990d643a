\* Up to three frames; bytes of nine values, payloads of up to eight bytes.
SPECIFICATION Spec
CONSTANTS
    RADIX = 9
    ID_WIDTH = 1
    SEQ_WIDTH = 2
    LEN_WIDTH = 1
    Frames <- MCFrames
    MaxFrames = 3
    READ_SLACK = 2
INVARIANTS
    StreamFaithful
    EndIsHonest
PROPERTY AllDecoded
CHECK_DEADLOCK FALSE
