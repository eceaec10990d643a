----------------------------- MODULE WeightedPick -----------------------------
(***************************************************************************)
(* TunnelPool::weighted_pick (src/tunnel.rs): the link for one frame, from *)
(* the measured rates and a cursor that rotates over a grid of anchors.    *)
(* The code computes with f64; here every weight is scaled by FLOOR * n,   *)
(* which makes it an integer, and anchors are compared by multiplying out: *)
(* rounding errors are left out.                                           *)
(***************************************************************************)
EXTENDS Integers, Sequences, SequencesExt

CONSTANTS WEIGHT_GRID,   \* anchors, 1024 in the code
          FLOOR          \* 1 / FLOOR_SHARE: 20 in the code

ASSUME GridAssumption == {WEIGHT_GRID, FLOOR} \subseteq Nat \ {0}

Link(a, s, r) == [alive |-> a, skipped |-> s, rate_bps |-> r]

\* The candidates, by position: alive and not in the caller's skip list.
Candidates(links) ==
    LET alive[i \in 0..Len(links)] ==
            IF i = 0 THEN <<>>
            ELSE IF links[i].alive /\ ~links[i].skipped THEN Append(alive[i - 1], i)
            ELSE alive[i - 1]
    IN  alive[Len(links)]

\* The sums of the first elements, from 0 on.
Sums(s) ==
    LET acc[i \in 0..Len(s)] == IF i = 0 THEN 0 ELSE acc[i - 1] + s[i]
    IN  acc

Total(s) == Sums(s)[Len(s)]

Largest(x, y) == IF x >= y THEN x ELSE y

\* Mutant: no floor.
WeightsNoFloor(raw) ==
    LET n == Len(raw)
        total == Total(raw)
    IN  IF total = 0 THEN [i \in 1..n |-> 1]
        ELSE [i \in 1..n |-> IF raw[i] > 0 THEN FLOOR * n * raw[i] ELSE FLOOR * total]

\* FLOOR * n times the weights of the code: the rate, or the mean when not
\* measured, and at least the floor; uniform before the first measurement.  The
\* mean is total / n (tunnel.rs:314), over all candidates with the unmeasured ones
\* as zero, and not over the measured ones, as the comments at 70 and 292 say.
Weights(raw) ==
    LET n == Len(raw)
        total == Total(raw)
    IN  IF total = 0 THEN [i \in 1..n |-> 1]
        ELSE [i \in 1..n |->
                 Largest(IF raw[i] > 0 THEN FLOOR * n * raw[i] ELSE FLOOR * total,
                         n * total)]

\* Mutant: the anchor on a boundary falls to the link before it.
PickAtBoundary(links, rr) ==
    LET alive == Candidates(links)
        n == Len(alive)
        acc == Sums(Weights([i \in 1..n |-> links[alive[i]].rate_bps]))
        hit == Min({i \in 1..n : (rr % WEIGHT_GRID) * acc[n] <= acc[i] * WEIGHT_GRID})
    IN  IF n = 0 THEN 0 ELSE alive[hit]

\* The position of the link picked with the cursor at rr, 0 for None.
weighted_pick(links, rr) ==
    LET alive == Candidates(links)
        n == Len(alive)
        acc == Sums(Weights([i \in 1..n |-> links[alive[i]].rate_bps]))
        hit == Min({i \in 1..n : (rr % WEIGHT_GRID) * acc[n] < acc[i] * WEIGHT_GRID})
    IN  IF n = 0 THEN 0 ELSE alive[hit]

==============================================================================
