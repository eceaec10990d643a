--------------------------------- MODULE Wire ---------------------------------
(***************************************************************************)
(* The wire format of src/frame.rs: frames with big-endian fields of fixed *)
(* width in front of a payload, and the target in the payload of a SYN.    *)
(* The radix and the widths are parameters, so that the limits they set    *)
(* are within reach.                                                       *)
(***************************************************************************)
EXTENDS Naturals, Sequences

CONSTANTS RADIX,      \* values of a byte, 256 in the code
          ID_WIDTH,   \* bytes of conn_id, 4
          SEQ_WIDTH,  \* bytes of the sequence number, 8
          LEN_WIDTH   \* bytes of a length, 2

ASSUME WidthAssumption ==
    RADIX \in Nat \ {0, 1} /\ {ID_WIDTH, SEQ_WIDTH, LEN_WIDTH} \subseteq Nat \ {0}

Byte == 0..(RADIX - 1)

\* RADIX to the power of k: the number of values that fit k bytes.
Power(k) ==
    LET p[i \in 0..k] == IF i = 0 THEN 1 ELSE RADIX * p[i - 1] IN p[k]

\* The unsigned integers of w bytes.
Uint(w) == 0..(Power(w) - 1)

HEADER_LEN == ID_WIDTH + SEQ_WIDTH + 1 + LEN_WIDTH
MAX_PAYLOAD == Power(LEN_WIDTH) - 1

FLAG_SYN == 1
FLAG_DATA == 2
FLAG_FIN == 4
FLAG_RST == 8

\* Mutant: the bytes of a number in the order of the machine.
LittleEndian(n, w) == [i \in 1..w |-> (n \div Power(i - 1)) % RADIX]

\* put_u16, put_u32, put_u64: the w bytes of n.
BigEndian(n, w) == [i \in 1..w |-> (n \div Power(w - i)) % RADIX]

\* from_be_bytes.
Number(bytes) ==
    LET upto[i \in 0..Len(bytes)] ==
            IF i = 0 THEN 0 ELSE upto[i - 1] * RADIX + bytes[i]
    IN  upto[Len(bytes)]

Frame(c, s, f, p) == [conn_id |-> c, seq |-> s, flags |-> f, payload |-> p]
FrameType == [conn_id : Uint(ID_WIDTH), seq : Uint(SEQ_WIDTH), flags : Byte,
              payload : Seq(Byte)]
data(c, s, p) == Frame(c, s, FLAG_DATA, p)
syn(c, p) == Frame(c, 0, FLAG_SYN, p)
fin(c, s) == Frame(c, s, FLAG_FIN, <<>>)
rst(c) == Frame(c, 0, FLAG_RST, <<>>)

Encodable(f) == Len(f.payload) <= MAX_PAYLOAD

\* encode_into, for a frame whose payload fits the length field.
encode_into(f) ==
    BigEndian(f.conn_id, ID_WIDTH) \o BigEndian(f.seq, SEQ_WIDTH)
        \o <<f.flags>> \o BigEndian(Len(f.payload), LEN_WIDTH) \o f.payload

\* The w bytes after the first n.
Field(buf, n, w) == Number(SubSeq(buf, n + 1, n + w))

payload_len(buf) == Field(buf, HEADER_LEN - LEN_WIDTH, LEN_WIDTH)

\* The buffer starts with a complete frame.
HasFrame(buf) ==
    Len(buf) >= HEADER_LEN /\ Len(buf) >= HEADER_LEN + payload_len(buf)

FirstFrame(buf) ==
    Frame(Field(buf, 0, ID_WIDTH), Field(buf, ID_WIDTH, SEQ_WIDTH),
          buf[ID_WIDTH + SEQ_WIDTH + 1],
          SubSeq(buf, HEADER_LEN + 1, HEADER_LEN + payload_len(buf)))

Rest(buf) == SubSeq(buf, HEADER_LEN + payload_len(buf) + 1, Len(buf))

------------------------------------------------------------------------------
(* SynTarget *)

Target(k, a, p) == [proto |-> k, address |-> a, port |-> p]

\* The two answers of an operation that may fail.
Ok(v) == [ok |-> TRUE, value |-> v]
Error == [ok |-> FALSE]

\* B30: an address too long for its length field is refused.
encode(t) ==
    IF Len(t.address) >= Power(LEN_WIDTH) THEN Error
    ELSE Ok(<<t.proto>> \o BigEndian(Len(t.address), LEN_WIDTH) \o t.address
                \o BigEndian(t.port, LEN_WIDTH))

\* A payload too short for its fixed part, or for the address it announces, is
\* refused.  What follows the port is ignored.
decode(payload) ==
    LET fixed == 1 + 2 * LEN_WIDTH
        start == 1 + LEN_WIDTH
        n == Field(payload, 1, LEN_WIDTH)
    IN  IF Len(payload) < fixed \/ Len(payload) < fixed + n THEN Error
        ELSE Ok(Target(payload[1], SubSeq(payload, start + 1, start + n),
                       Field(payload, start + n, LEN_WIDTH)))

==============================================================================
