----------------------------- MODULE MCReorderBuf -----------------------------
EXTENDS ReorderBuf

MCPayloadLen == [p \in Payload |-> IF p = "short" THEN 1 ELSE 2]

==============================================================================
