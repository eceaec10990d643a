\* Six sequence numbers and two payloads.  The entry cap is
\* max(4 \div 2, 3) = 3: three short frames hit it with a byte to spare, two
\* long frames hit the byte budget with an entry to spare.
SPECIFICATION Spec
CONSTANTS
    Payload = {"short", "long"}
    PayloadLen <- MCPayloadLen
    MaxSeq = 6
    max_bytes = 4
    MAX_PAYLOAD = 2
    MAX_REORDER_WINDOW = 3
INVARIANTS
    TypeOK
    CompleteThroughExact
    OverflowIffMissing
    ByteAccounting
PROPERTY StreamSpec
