---------------------------- MODULE OrderedStream ----------------------------
(***************************************************************************)
(* What one direction of a virtual connection promises to the endpoint     *)
(* that reads from it: every sequence number is accepted at most once, and *)
(* the endpoint has been handed exactly the payloads of the longest        *)
(* gap-free run of accepted sequence numbers, in order.  Nothing is said   *)
(* of windows, bytes or refusals: a refused frame leaves the stream alone. *)
(***************************************************************************)
EXTENDS Naturals, Sequences

CONSTANTS Payload,   \* the payloads a frame can carry
          MaxSeq     \* the largest sequence number a frame carries

VARIABLES got,       \* the accepted payloads, a function on a set of seqs
          out        \* the payloads handed on, in order

vars == <<got, out>>

Seqs == 1..MaxSeq

With(f, s, p) == [x \in DOMAIN f \cup {s} |-> IF x = s THEN p ELSE f[x]]

\* n is the length of the gap-free run of f that starts at 1.
GapFree(f, n) == 1..n \subseteq DOMAIN f /\ n + 1 \notin DOMAIN f

Init == got = <<>> /\ out = <<>>

Accept(s, p) ==
    /\ s \notin DOMAIN got
    /\ got' = With(got, s, p)
    /\ \E n \in 0..MaxSeq :
          /\ GapFree(got', n)
          /\ out' = [i \in 1..n |-> got'[i]]

Next == \E s \in Seqs, p \in Payload : Accept(s, p)

Spec == Init /\ [][Next]_vars

==============================================================================
