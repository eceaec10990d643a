------------------------------ MODULE ReorderBuf ------------------------------
(***************************************************************************)
(* The per-connection reorder buffer of src/reorder.rs.  Frames of one     *)
(* direction of a connection travel over several tunnels, so push sees     *)
(* them in any order, and more than once.  One step is one call of push,   *)
(* made under the buffer's mutex by whichever tunnel's read loop holds the *)
(* frame.                                                                  *)
(***************************************************************************)
EXTENDS Integers, Sequences, FiniteSets, Functions

CONSTANTS
    Payload,              \* the payloads a DATA frame can carry
    PayloadLen,           \* Bytes::len of each of them
    MaxSeq,               \* bound: the largest seq a frame carries
    max_bytes,            \* reorder_window_bytes, the byte budget
    MAX_PAYLOAD,          \* frame.rs: the largest payload, 65535 in the code
    MAX_REORDER_WINDOW    \* reorder.rs: the floor of the entry cap, 512

ASSUME PayloadAssumption == PayloadLen \in [Payload -> Nat]
ASSUME MaxSeqAssumption == MaxSeq \in Nat
ASSUME LimitAssumption ==
    /\ max_bytes \in Nat
    /\ MAX_PAYLOAD \in Nat \ {0}
    /\ MAX_REORDER_WINDOW \in Nat

VARIABLES
    expected,        \* the next seq to deliver
    pending,         \* out-of-order payloads, a function on a set of seqs
    pending_bytes,   \* running total of their lengths
    out,             \* every `ready` chunk returned so far, in order
    result           \* the seq of the last push and the PushResult it got

vars == <<expected, pending, pending_bytes, out, result>>

Seqs == 1..MaxSeq

max_entries ==
    LET full == max_bytes \div MAX_PAYLOAD
    IN  IF full > MAX_REORDER_WINDOW THEN full ELSE MAX_REORDER_WINDOW

Result(s, a, o) == [seq |-> s, accepted |-> a, overflow |-> o]

\* Mutant: counting from 0, as the frame's seq field does for SYN.
WithLimitFromZero ==
    /\ expected = 0
    /\ pending = <<>>
    /\ pending_bytes = 0
    /\ out = <<>>
    /\ result = Result(0, FALSE, FALSE)

with_limit ==
    /\ expected = 1
    /\ pending = <<>>
    /\ pending_bytes = 0
    /\ out = <<>>
    /\ result = Result(0, FALSE, FALSE)

------------------------------------------------------------------------------
(* push *)

\* Mutant: the early return for an old seq is missing.
PushOldRedelivers(s, p) ==
    /\ s < expected
    /\ out' = Append(out, p)
    /\ result' = Result(s, TRUE, FALSE)
    /\ UNCHANGED <<expected, pending, pending_bytes>>

\* seq < expected: the frame was delivered before.
PushOld(s, p) ==
    /\ s < expected
    /\ result' = Result(s, FALSE, FALSE)
    /\ UNCHANGED <<expected, pending, pending_bytes, out>>

\* The payloads of the buffered seqs in lo..hi.
Chunks(lo, hi) == [i \in 1..(hi - lo + 1) |-> pending[lo + i - 1]]

\* The bytes buffered in f, one by one; their number is the sum of the lengths.
ByteSet(f) == UNION {{s} \X (1..PayloadLen[f[s]]) : s \in DOMAIN f}
Bytes(f) == Cardinality(ByteSet(f))

\* Mutant: `if let` for `while let`, the buffered run is left behind.
DrainsNothing(m) == m = expected + 1

\* The first seq above expected that is not buffered: the drain stops there.
IsDrainEnd(m) ==
    /\ m > expected
    /\ m \notin DOMAIN pending
    /\ (expected + 1)..(m - 1) \subseteq DOMAIN pending

\* seq = expected: deliver it and every buffered frame that follows it.
PushExpected(s, p) ==
    /\ s = expected
    /\ \E m \in 2..(MaxSeq + 1) :
          /\ IsDrainEnd(m)
          /\ expected' = m
          /\ out' = out \o <<p>> \o Chunks(s + 1, m - 1)
          /\ pending' = Restrict(pending, {x \in DOMAIN pending : x >= m})
          /\ pending_bytes' = pending_bytes
                - Bytes(Restrict(pending, (s + 1)..(m - 1)))
    /\ result' = Result(s, TRUE, FALSE)

can_buffer(p) ==
    /\ Cardinality(DOMAIN pending) < max_entries
    /\ pending_bytes + PayloadLen[p] <= max_bytes

\* seq > expected, Entry::Vacant with room: buffer the frame.
PushBuffered(s, p) ==
    /\ s > expected
    /\ s \notin DOMAIN pending
    /\ can_buffer(p)
    /\ pending' = [x \in DOMAIN pending \cup {s} |->
                     IF x = s THEN p ELSE pending[x]]
    /\ pending_bytes' = pending_bytes + PayloadLen[p]
    /\ result' = Result(s, TRUE, FALSE)
    /\ UNCHANGED <<expected, out>>

\* Mutant: the full buffer drops the frame like a duplicate.
OverflowUnreported(s, p) ==
    /\ s > expected
    /\ s \notin DOMAIN pending
    /\ ~can_buffer(p)
    /\ result' = Result(s, FALSE, FALSE)
    /\ UNCHANGED <<expected, pending, pending_bytes, out>>

\* seq > expected, Entry::Vacant without room: the caller must reset.
PushOverflow(s, p) ==
    /\ s > expected
    /\ s \notin DOMAIN pending
    /\ ~can_buffer(p)
    /\ result' = Result(s, FALSE, TRUE)
    /\ UNCHANGED <<expected, pending, pending_bytes, out>>

\* Mutant: the insert of before B54, which replaces the buffered payload and
\* counts its bytes again.
DuplicateReplaces(s, p) ==
    /\ s > expected
    /\ s \in DOMAIN pending
    /\ can_buffer(p)
    /\ pending' = [pending EXCEPT ![s] = p]
    /\ pending_bytes' = pending_bytes + PayloadLen[p]
    /\ result' = Result(s, TRUE, FALSE)
    /\ UNCHANGED <<expected, out>>

\* seq > expected, Entry::Occupied: a duplicate of a buffered frame (B54).
PushDuplicate(s, p) ==
    /\ s > expected
    /\ s \in DOMAIN pending
    /\ result' = Result(s, FALSE, FALSE)
    /\ UNCHANGED <<expected, pending, pending_bytes, out>>

push(s, p) ==
    \/ PushOld(s, p)
    \/ PushExpected(s, p)
    \/ PushBuffered(s, p)
    \/ PushOverflow(s, p)
    \/ PushDuplicate(s, p)

is_complete_through(s) == expected >= s

\* A peer may put any seq on the wire: 0 is no DATA seq of ours.
Next == \E s \in 0..MaxSeq, p \in Payload : push(s, p)

Spec == with_limit /\ [][Next]_vars

------------------------------------------------------------------------------
(* Properties *)

\* The variables have the shape the Rust types give them (pending_bytes, a
\* usize, is pinned down by ByteAccounting).
TypeOK ==
    /\ expected \in 1..(MaxSeq + 1)
    /\ DOMAIN pending \subseteq Seqs
    /\ pending \in [DOMAIN pending -> Payload]
    /\ out \in Seq(Payload)
    /\ result \in [seq : 0..MaxSeq, accepted : BOOLEAN, overflow : BOOLEAN]

\* Everything push has accepted: delivered or still buffered.
Held == [s \in 1..(expected - 1) \cup DOMAIN pending |->
           IF s < expected THEN out[s] ELSE pending[s]]

\* is_complete_through(n), which decides when a write half may be closed
\* after FIN (reorder.rs:130), says that every seq below n has been handed
\* on, and it is never late: a seq that is held and has nothing missing
\* below it has been handed on as well.
CompleteThroughExact ==
    \A n \in 1..(MaxSeq + 1) :
        is_complete_through(n) <=> 1..(n - 1) \subseteq DOMAIN Held

\* The PushResult is what the callers act on: they reset the connection on
\* overflow and carry on otherwise.  After a push of a real seq the flag is
\* raised exactly when that seq is missing from the buffer: no first copy of
\* a frame is dropped in silence, and no frame that is held (a duplicate, for
\* one) costs the connection.
OverflowIffMissing ==
    result.seq > 0 => (result.overflow <=> result.seq \notin DOMAIN Held)

\* B54: the running byte count is the sum of the buffered lengths; it never
\* drifts, so duplicates cannot eat the budget, and it stays in the window.
ByteAccounting ==
    /\ pending_bytes = Bytes(pending)
    /\ pending_bytes <= max_bytes

\* The entry cap holds, whatever the order of the frames.
EntryBound == Cardinality(DOMAIN pending) <= max_entries

\* The buffer implements the ordered stream: a push accepts one fresh seq and
\* hands on exactly the gap-free run, or changes nothing an endpoint sees.
Stream == INSTANCE OrderedStream WITH got <- Held
StreamSpec == Stream!Spec

==============================================================================
