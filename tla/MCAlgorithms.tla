----------------------------- MODULE MCAlgorithms -----------------------------
(***************************************************************************)
(* The pure parts of the program over bounded inputs: a question is chosen *)
(* in the initial state, and the step answers it with the operator that    *)
(* models the code.  Each property holds an answer against a reference.    *)
(***************************************************************************)
EXTENDS Socks5, WeightedPick, Ports, LogFiles, FiniteSets

CONSTANTS Rates,        \* measured rates
          MaxLinks,     \* bound: links of a pool
          PortNumbers,  \* the u16 of the configurations
          MaxList,      \* bound: ports in a list
          Days,         \* days of the calendar
          Gaps,         \* days between two log events
          Keeps,        \* values of keep_days
          MaxEvents,    \* bound: log events
          Bytes,        \* bytes of an address
          MaxAddress,   \* bound: bytes of an address
          PortValues,   \* ports of a target
          Contents      \* data of a datagram, or behind an address

\* The kinds of SOCKS5 addresses, up to 4, fit a byte.
ASSUME AlgorithmsAssumption ==
    /\ RADIX > ATYP_IPV6
    /\ Rates \subseteq Nat /\ MaxLinks \in Nat
    /\ PortNumbers \subseteq Nat /\ MaxList \in Nat
    /\ Days \subseteq Nat /\ Gaps \subseteq Nat /\ Keeps \subseteq Nat /\ MaxEvents \in Nat
    /\ Bytes \subseteq Byte /\ MaxAddress \in Nat
    /\ PortValues \subseteq Uint(LEN_WIDTH) /\ Contents \subseteq Seq(Byte)

\* The first years, the turn of 2000 and the one of 2100, which is no leap year.
MCDays == 0..800 \cup 10900..11100 \cup 47400..47700

\* None, a byte, and one that looks like an address.
MCContents == {<<>>, <<0>>, <<4, 1, 0>>}

VARIABLES question, answer, answered

SeqsUpTo(S, n) == UNION {[1..k -> S] : k \in 0..n}

Pools == UNION {[1..k -> [alive : BOOLEAN, skipped : {FALSE}, rate_bps : Rates]
                          \cup {Link(TRUE, TRUE, 1)}] : k \in 1..MaxLinks}

Configurations ==
    {List(v) : v \in SeqsUpTo(PortNumbers, MaxList)}
        \cup {Span(a, b) : a, b \in PortNumbers \cup {NotANumber}}
        \cup {Single(a) : a \in PortNumbers \cup {NotANumber}}

Events == [gap : Gaps, restart : BOOLEAN]

\* A SYN names its target by text; a SOCKS5 host has the length of its kind.
Targets == {Target(6, a, p) :
                a \in SeqsUpTo(Bytes, MaxAddress), p \in PortValues}
Hosts ==
    {TargetAddr(ATYP_DOMAIN, a, p) :
         a \in SeqsUpTo(Bytes, MaxAddress), p \in PortValues}
      \cup {TargetAddr(ATYP_IPV4, a, p) : a \in [1..V4_LEN -> Bytes], p \in PortValues}
      \cup {TargetAddr(ATYP_IPV6, a, p) : a \in [1..V6_LEN -> Bytes], p \in PortValues}

Asked ==
    /\ answer = <<>> /\ answered = FALSE
    /\ \/ \E l \in Pools : question = [about |-> "pick", links |-> l]
       \/ \E c \in Configurations : question = [about |-> "ports", ports |-> c]
       \/ \E d \in Days : question = [about |-> "date", day |-> d]
       \/ \E d \in Days, k \in Keeps, e \in [1..MaxEvents -> Events] :
              d % 30 = 0 /\ question = [about |-> "log", day |-> d, keep |-> k, events |-> e]
       \/ \E t \in Targets : question = [about |-> "target", target |-> t]
       \/ \E t \in Hosts, p \in Contents :
              question = [about |-> "address", target |-> t, data |-> p]

Answer(a) ==
    /\ ~answered
    /\ answer' = a /\ answered' = TRUE
    /\ UNCHANGED question

\* How often each link is picked while the cursor goes once around.
Counts(links) ==
    LET picks == [r \in 0..WEIGHT_GRID - 1 |-> weighted_pick(links, r)]
    IN  [i \in 0..Len(links) |->
            Cardinality({r \in 0..WEIGHT_GRID - 1 : picks[r] = i})]

\* The log after the events, each a write or a restart some days later.
LogAfter(day, keep, events) ==
    LET Later(s, e) ==
            LET now == s.day + e.gap
            IN  [day |-> now, seen |-> s.seen \cup {now},
                 log |-> IF e.restart THEN OpenDay(s.log.files, now, keep)
                         ELSE write(s.log, now, keep)]
        after[i \in 0..MaxEvents] ==
            IF i = 0 THEN [day |-> day, seen |-> {day}, log |-> OpenDay({}, day, keep)]
            ELSE Later(after[i - 1], events[i])
    IN  after[MaxEvents]

Pick == question.about = "pick" /\ Answer(Counts(question.links))
Parse == question.about = "ports" /\ Answer(parse_ports(question.ports))
Date ==
    /\ question.about = "date"
    /\ Answer(<<days_to_civil(question.day), days_to_civil(question.day + 1)>>)
Log ==
    /\ question.about = "log"
    /\ Answer(LogAfter(question.day, question.keep, question.events))
Syn == question.about = "target" /\ Answer(encode(question.target))

\* The address on a stream with data behind it, and in a datagram.
Address ==
    /\ question.about = "address"
    /\ Answer([stream |-> encode_address(question.target),
               datagram |-> encode_udp_datagram(question.target, question.data)])

Reply == Pick \/ Parse \/ Date \/ Log \/ Syn \/ Address

Questions == Asked /\ [][Reply]_<<question, answer, answered>>

Answered(kind) == answered /\ question.about = kind

------------------------------------------------------------------------------
(* The scheduler *)

Raw == [i \in 1..Len(Candidates(question.links)) |->
           question.links[Candidates(question.links)[i]].rate_bps]

\* What a candidate is due, times their number: its rate or, if it was never
\* measured, the mean over all candidates, as the code computes it.
Due(r) == IF r > 0 THEN r * Len(Raw) ELSE Total(Raw)

\* tunnel.rs:287: over a full cycle of the cursor the picks are in proportion to
\* the measured rates among the links whose share is above the floor; before any
\* measurement they are uniform.  An unmeasured link counts as the code has it, as
\* the mean over all candidates, which is less than the comment at tunnel.rs:292
\* says: see UnmeasuredIsAverage.
ProportionalShare ==
    Answered("pick") =>
        LET c == Candidates(question.links)
            AboveFloor(i) == FLOOR * Due(Raw[i]) >= Len(c) * Total(Raw)
        IN  \A i, j \in 1..Len(c) :
                LET x == IF Total(Raw) = 0 THEN 1 ELSE Due(Raw[i])
                    y == IF Total(Raw) = 0 THEN 1 ELSE Due(Raw[j])
                    diff == answer[c[i]] * y - answer[c[j]] * x
                IN  AboveFloor(i) /\ AboveFloor(j) => diff < x + y /\ -diff < x + y

\* The weight the comments at tunnel.rs:70 and 292 give a link never measured: the
\* mean of the measured ones.  The code divides by the number of all candidates
\* (tunnel.rs:314): beside one link of rate 300 it counts as 150.
UnmeasuredIsAverage ==
    Answered("pick") =>
        LET c == Candidates(question.links)
            measured == {i \in 1..Len(c) : Raw[i] > 0}
        IN  \A i \in (1..Len(c)) \ measured, j \in measured :
                LET y == Cardinality(measured) * Raw[j]
                    diff == answer[c[j]] * Total(Raw) - answer[c[i]] * y
                IN  FLOOR * Raw[j] >= Total(Raw) => diff < Total(Raw) + y

\* tunnel.rs:32: no live link is starved: in every cycle each candidate gets at
\* least half the floor's share, however slow it was measured (with n > FLOOR
\* candidates, one share of FLOOR + n); a link that is dead or saturated gets
\* nothing, and no anchor falls between the links.
NeverStarved ==
    Answered("pick") =>
        \A i \in 0..Len(question.links) :
            IF i = 0 THEN answer[0] = (IF Raw = <<>> THEN WEIGHT_GRID ELSE 0)
            ELSE IF i \in ToSet(Candidates(question.links))
                 THEN (FLOOR + Largest(FLOOR, Len(Raw))) * (answer[i] + 1) > WEIGHT_GRID
                 ELSE answer[i] = 0

\* The share the comment at tunnel.rs:32 promises.  The weights are floored and
\* raised to the mean before they are summed, so that a slow link may get less.
FloorGuaranteed ==
    Answered("pick") =>
        \A i \in ToSet(Candidates(question.links)) :
            FLOOR * (answer[i] + 1) > WEIGHT_GRID

------------------------------------------------------------------------------
(* The configuration *)

\* config.rs:237: the listeners started are one for each distinct port named, in
\* the order of the first mention, none of them port 0 and no more than the
\* limit; a configuration is refused only if it cannot be served so.
PortsUsable ==
    Answered("ports") =>
        LET v == question.ports.ports
            named == IF question.ports.form = "range" THEN v[1]..v[2] ELSE ToSet(v)
            out == answer.value
            first(p) == CHOOSE i \in 1..Len(v) : v[i] = p /\ \A j \in 1..(i - 1) : v[j] # p
        IN  IF answer.ok
            THEN /\ ToSet(out) = named /\ named # {} /\ named \cap {0, NotANumber} = {}
                 /\ Len(out) = Cardinality(named) /\ Len(out) <= MAX_PORTS
                 /\ \A i, j \in 1..Len(out) : i < j =>
                        IF question.ports.form = "range" THEN out[i] < out[j]
                        ELSE first(out[i]) < first(out[j])
            ELSE \/ named = {} \/ named \cap {0, NotANumber} # {}
                 \/ Cardinality(named) > MAX_PORTS \/ Len(v) > MAX_PORTS
                 \/ NotANumber \in ToSet(v)

------------------------------------------------------------------------------
(* The log *)

\* The reference calendar: the day after a date.
Leap(y) == y % 4 = 0 /\ (y % 100 # 0 \/ y % 400 = 0)
DaysIn(y, m) ==
    CASE m = 2 -> IF Leap(y) THEN 29 ELSE 28
      [] m \in {4, 6, 9, 11} -> 30
      [] OTHER -> 31
DayAfter(t) ==
    CASE t[3] < DaysIn(t[1], t[2]) -> <<t[1], t[2], t[3] + 1>>
      [] t[2] < 12 /\ t[3] = DaysIn(t[1], t[2]) -> <<t[1], t[2] + 1, 1>>
      [] OTHER -> <<t[1] + 1, 1, 1>>

\* logging.rs:110: the calendar starts at the epoch and goes on by one day at a
\* time, leap years and centuries included.
CalendarRight ==
    Answered("date") =>
        /\ question.day = 0 => answer[1] = <<1970, 1, 1>>
        /\ answer[2] = DayAfter(answer[1])

\* logging.rs:25, 64: after any writes and restarts the directory holds the logs
\* of exactly those days that are not older than keep_days, today's among them,
\* over the ends of months and years too, by a calendar that is right.
LogsKept ==
    /\ CalendarRight
    /\ Answered("log") =>
        /\ answer.log.date = days_to_civil(answer.day)
        /\ answer.log.files =
               {days_to_civil(d) : d \in {x \in answer.seen : x >= answer.day - question.keep}}

------------------------------------------------------------------------------
(* SYN targets and SOCKS5 addresses *)

ProperPrefixes(s) == {SubSeq(s, 1, n) : n \in 0..Len(s) - 1}

\* frame.rs:131, 144: a target that fits its length field arrives as it was sent, a
\* longer one is refused, and a payload that was cut short is never taken for
\* another target.
TargetArrives ==
    Answered("target") =>
        IF Len(question.target.address) > MAX_PAYLOAD THEN ~answer.ok
        ELSE /\ decode(answer.value) = Ok(question.target)
             /\ \A p \in ProperPrefixes(answer.value) : ~decode(p).ok

\* socks5.rs:89, 217: an address read or skipped from the stream ends exactly
\* where it was written to end: the bytes after it, the first of the data, are
\* all left, and an address cut short is an error.
StreamInStep ==
    Answered("address") /\ answer.stream.ok =>
        LET bytes == Tail(answer.stream.value)
            atyp == question.target.kind
        IN  /\ read_address(atyp, bytes \o question.data)
                   = Ok([target |-> question.target, rest |-> question.data])
            /\ drain_address(atyp, bytes \o question.data) = Ok(question.data)
            /\ \A p \in ProperPrefixes(bytes) : ~read_address(atyp, p).ok

\* reassembler.rs:781, 1377: a datagram is decoded to the target and the data it
\* was made of; only one with an empty host name is refused.
DatagramIntact ==
    Answered("address") /\ answer.datagram.ok =>
        decode_udp_datagram(answer.datagram.value) =
            IF question.target.address = <<>> THEN Error
            ELSE Ok([target |-> question.target, data |-> question.data])

\* Each coding of a target comes back as the target it was made of: the SYN, the
\* SOCKS5 address and the datagram, each round trip for itself.  That one side
\* hands the target of one on to the next is not composed here.
TargetIntact == TargetArrives /\ StreamInStep /\ DatagramIntact

==============================================================================
