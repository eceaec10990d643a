-------------------------------- MODULE Socks5 --------------------------------
(***************************************************************************)
(* The addresses of src/socks5.rs: how a host and a port are written, and  *)
(* how the three readers of the code (of a stream, of a reply to be        *)
(* skipped, of a UDP datagram) find where an address ends and the data     *)
(* begin.  A host is its kind and its bytes; the texts the code prints and *)
(* parses for IP addresses stand for exactly these.                        *)
(***************************************************************************)
EXTENDS Wire

CONSTANTS V4_LEN,   \* bytes of an IPv4 address, 4 in the code
          V6_LEN    \* bytes of an IPv6 address, 16

ASSUME AddressAssumption == {V4_LEN, V6_LEN} \subseteq Nat \ {0}

ATYP_IPV4 == 1
ATYP_DOMAIN == 3
ATYP_IPV6 == 4
ATYPS == {ATYP_IPV4, ATYP_DOMAIN, ATYP_IPV6}

TargetAddr(k, b, p) == [kind |-> k, address |-> b, port |-> p]

\* A domain announces its length in one byte, and is refused if it cannot.
encode_address(t) ==
    IF t.kind = ATYP_DOMAIN /\ Len(t.address) >= RADIX THEN Error
    ELSE Ok(<<t.kind>>
              \o (IF t.kind = ATYP_DOMAIN THEN <<Len(t.address)>> ELSE <<>>)
              \o t.address \o BigEndian(t.port, LEN_WIDTH))

\* Where the host ends in the bytes after ATYP, the length of a domain
\* included; 0 if that length is not there.
HostStart(atyp) == IF atyp = ATYP_DOMAIN THEN 1 ELSE 0
HostEnd(atyp, s) ==
    CASE atyp = ATYP_IPV4 -> V4_LEN
      [] atyp = ATYP_IPV6 -> V6_LEN
      [] OTHER -> IF s = <<>> THEN 0 ELSE 1 + s[1]

\* The stream holds the whole address.
Complete(atyp, s) ==
    /\ atyp \in ATYPS
    /\ Len(s) > 0 /\ Len(s) >= HostEnd(atyp, s) + LEN_WIDTH

\* The address at the head of s.
AddressOf(atyp, s) ==
    TargetAddr(atyp, SubSeq(s, HostStart(atyp) + 1, HostEnd(atyp, s)),
               Field(s, HostEnd(atyp, s), LEN_WIDTH))

\* What is left of s after the first n bytes.
After(s, n) == SubSeq(s, n + 1, Len(s))

\* read_exact field by field; a stream that ends within the address fails.
read_address(atyp, s) ==
    IF Complete(atyp, s)
    THEN Ok([target |-> AddressOf(atyp, s),
             rest |-> After(s, HostEnd(atyp, s) + LEN_WIDTH)])
    ELSE Error

\* Mutant: the port after a domain is left in the stream.
DrainForgetsPort(atyp, s) ==
    IF ~Complete(atyp, s) THEN Error
    ELSE Ok(After(s, HostEnd(atyp, s) + IF atyp = ATYP_DOMAIN THEN 0 ELSE LEN_WIDTH))

\* The bind address of a proxy's reply is skipped.
drain_address(atyp, s) ==
    IF Complete(atyp, s) THEN Ok(After(s, HostEnd(atyp, s) + LEN_WIDTH)) ELSE Error

encode_udp_datagram(t, content) ==
    IF encode_address(t).ok
    THEN Ok(<<0, 0, 0>> \o encode_address(t).value \o content)
    ELSE Error

\* An empty domain is refused here, unlike in read_address.
parse_udp_address(atyp, s) ==
    IF Complete(atyp, s) /\ HostEnd(atyp, s) > HostStart(atyp)
    THEN Ok([target |-> AddressOf(atyp, s),
             consumed |-> HostEnd(atyp, s) + LEN_WIDTH])
    ELSE Error

\* Fragments are refused.
decode_udp_datagram(payload) ==
    IF Len(payload) < 4 \/ payload[3] # 0 THEN Error
    ELSE LET tail == After(payload, 4)
             a == parse_udp_address(payload[4], tail)
         IN  IF a.ok THEN Ok([target |-> a.value.target,
                              data |-> After(tail, a.value.consumed)])
             ELSE Error

==============================================================================
