------------------------------ MODULE FrameCodec ------------------------------
(***************************************************************************)
(* One direction of a tunnel: frames are encoded onto a TCP byte stream,   *)
(* reads cut the stream into arbitrary pieces, and FrameDecoder::try_next  *)
(* (src/frame.rs) puts the frames together again.  The connection may be   *)
(* closed between two frames or lost with bytes still under way.           *)
(***************************************************************************)
EXTENDS Wire

CONSTANTS Frames,      \* the frames that may be sent
          MaxFrames,   \* bound: number of frames sent
          READ_SLACK   \* two read blocks, 16384 in the code

ASSUME CodecAssumption ==
    /\ MaxFrames \in Nat /\ READ_SLACK \in Nat
    /\ Frames \subseteq FrameType /\ \A f \in Frames : Encodable(f)

VARIABLES
    sent,    \* history: the frames encoded
    wire,    \* bytes under way
    open,    \* the writing side is open
    lost,    \* history: bytes lost with the connection
    reset,   \* the connection ended in an error, not in end of stream
    buf,     \* FrameDecoder.buf
    got,     \* the frames decoded
    status   \* what try_next has answered last

vars == <<sent, wire, open, lost, reset, buf, got, status>>

MAX_DECODER_BUF == HEADER_LEN + MAX_PAYLOAD + READ_SLACK

Init ==
    /\ sent = <<>> /\ wire = <<>> /\ open = TRUE /\ lost = 0 /\ reset = FALSE
    /\ buf = <<>> /\ got = <<>> /\ status = "ok"

Send(f) ==
    /\ open /\ Len(sent) < MaxFrames
    /\ sent' = Append(sent, f)
    /\ wire' = wire \o encode_into(f)
    /\ UNCHANGED <<open, lost, reset, buf, got, status>>

\* The connection ends, and its last n bytes never arrive: the peer closed it, or
\* it broke, and the reader finds end of stream or an I/O error behind the rest.
Close(n) ==
    /\ open
    /\ open' = FALSE
    /\ wire' = SubSeq(wire, 1, Len(wire) - n)
    /\ lost' = n /\ reset' \in BOOLEAN
    /\ UNCHANGED <<sent, buf, got, status>>

Decode ==
    /\ status = "ok" /\ HasFrame(buf)
    /\ got' = Append(got, FirstFrame(buf))
    /\ buf' = Rest(buf)
    /\ UNCHANGED <<sent, wire, open, lost, reset, status>>

AtLimit == Len(buf) >= MAX_DECODER_BUF

\* Mutant: no more is read once the header is there.
ReadHeaderOnly(n) ==
    /\ status = "ok" /\ Len(buf) < HEADER_LEN
    /\ buf' = buf \o SubSeq(wire, 1, n)
    /\ wire' = SubSeq(wire, n + 1, Len(wire))
    /\ UNCHANGED <<sent, open, lost, reset, got, status>>

\* More bytes are needed, and read_buf brings what is there, up to the spare
\* capacity of the buffer.
Read(n) ==
    /\ status = "ok" /\ ~HasFrame(buf) /\ ~AtLimit
    /\ buf' = buf \o SubSeq(wire, 1, n)
    /\ wire' = SubSeq(wire, n + 1, Len(wire))
    /\ UNCHANGED <<sent, open, lost, reset, got, status>>

\* Mutant: what is left in the buffer is dropped at EOF.
EndSilent ==
    /\ status = "ok" /\ ~HasFrame(buf) /\ ~open /\ wire = <<>>
    /\ status' = IF reset THEN "error" ELSE "eof"
    /\ UNCHANGED <<sent, wire, open, lost, reset, buf, got>>

\* There is no complete frame and there will be none: the buffer is at its
\* limit, the read failed, or it brought zero bytes, between two frames or within
\* one.
End ==
    /\ status = "ok" /\ ~HasFrame(buf)
    /\ ~AtLimit => ~open /\ wire = <<>>
    /\ status' = CASE AtLimit -> "overflow"
                   [] ~AtLimit /\ ~reset /\ buf = <<>> -> "eof"
                   [] OTHER -> "error"
    /\ UNCHANGED <<sent, wire, open, lost, reset, buf, got>>

ReadStep == Decode \/ End \/ \E n \in 1..Len(wire) : Read(n)

Next ==
    \/ \E f \in Frames : Send(f)
    \/ \E n \in 0..Len(wire) : Close(n)
    \/ ReadStep

\* The read loop goes on reading.
Spec == Init /\ [][Next]_vars /\ WF_vars(ReadStep)

------------------------------------------------------------------------------
(* Properties *)

\* Frames are decoded exactly as they were encoded and in their order, however
\* the reads cut the stream, and a cut stream yields no frame of its own.
StreamFaithful ==
    Len(got) <= Len(sent) /\ got = SubSeq(sent, 1, Len(got))

SizeOf(s) ==
    LET upto[i \in 0..Len(s)] ==
            IF i = 0 THEN 0 ELSE upto[i - 1] + HEADER_LEN + Len(s[i].payload)
    IN  upto[Len(s)]

\* frame.rs:183: when the stream ends, every frame that arrived whole has been
\* decoded, and clean EOF is reported exactly when nothing arrived beyond them and
\* the connection was not reset; a stream that broke off within a frame is an
\* error.
EndIsHonest ==
    LET arrived == SizeOf(sent) - lost IN
    status \in {"eof", "error"} =>
        /\ SizeOf(got) <= arrived
        /\ Len(got) < Len(sent) => arrived < SizeOf(SubSeq(sent, 1, Len(got) + 1))
        /\ status = "eof" <=> SizeOf(got) = arrived /\ ~reset

\* frame.rs:165: a stream closed with nothing lost is decoded to its last frame:
\* no legal frame, even one of maximal length, trips the limit on the buffer.
AllDecoded == (~open /\ lost = 0 /\ ~reset) ~> (got = sent /\ status = "eof")

==============================================================================
