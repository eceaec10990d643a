-------------------------------- MODULE Ports ---------------------------------
(***************************************************************************)
(* parse_ports of src/config.rs: the ports the reassembler listens on and  *)
(* the splitter dials.  A text is what it parses to; one that is no u16 is *)
(* NotANumber.                                                             *)
(***************************************************************************)
EXTENDS Integers, Sequences, SequencesExt

CONSTANTS MAX_PORTS   \* 256 in the code

ASSUME PortsAssumption == MAX_PORTS \in Nat \ {0}

NotANumber == -1

List(v) == [form |-> "list", ports |-> v]
Span(a, b) == [form |-> "range", ports |-> <<a, b>>]
Single(a) == [form |-> "single", ports |-> <<a>>]

\* Mutant: only neighbours are compared, as Vec::dedup does.
DedupNeighbours(v) ==
    FoldLeft(LAMBDA out, p : IF out # <<>> /\ Last(out) = p THEN out ELSE Append(out, p),
             <<>>, v)

\* out.retain(|p| seen.insert(*p)).
Dedup(v) ==
    LET out[i \in 0..Len(v)] ==
            IF i = 0 THEN <<>>
            ELSE IF v[i] \in ToSet(out[i - 1]) THEN out[i - 1]
            ELSE Append(out[i - 1], v[i])
    IN  out[Len(v)]

\* The ports the configuration names, before the checks.
Expand(ports) ==
    IF ports.form = "range"
    THEN [i \in 1..(ports.ports[2] - ports.ports[1] + 1) |-> ports.ports[1] + i - 1]
    ELSE ports.ports

Rejected == [ok |-> FALSE]

\* An empty range has its start above its end, a long one is never expanded.
parse_ports(ports) ==
    LET v == ports.ports
        out == Expand(ports)
    IN  IF \/ NotANumber \in ToSet(v)
           \/ ports.form = "range" /\ v[1] > v[2]
           \/ Len(out) > MAX_PORTS \/ 0 \in ToSet(out) \/ Dedup(out) = <<>>
        THEN Rejected
        ELSE [ok |-> TRUE, value |-> Dedup(out)]

==============================================================================
