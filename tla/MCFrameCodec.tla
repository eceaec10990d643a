----------------------------- MODULE MCFrameCodec -----------------------------
EXTENDS FrameCodec

\* Frames at the limits of their fields: no payload and the longest one, whose
\* bytes look like headers, the largest conn_id and seq.
MCFrames ==
    {rst(1), fin(RADIX - 1, Power(SEQ_WIDTH) - 1),
     data(1, RADIX, [i \in 1..MAX_PAYLOAD |-> i % RADIX]),
     syn(2, <<0>>)}
==============================================================================
