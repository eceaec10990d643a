---------------------------- MODULE DeliveryLemmas ----------------------------
(***************************************************************************)
(* What the proofs about both ends of a connection need of numbers, queues *)
(* and gap-free runs: HalfCloseProofs and SplitterConnProofs cite it.      *)
(***************************************************************************)
EXTENDS Naturals, Sequences, SequenceTheorems, WellFoundedInduction, TLAPS

\* A set of numbers has a least one.
LEMMA LeastExists ==
    ASSUME NEW T \in SUBSET Nat, T # {}
    PROVE  \E k \in T : \A m \in T : k <= m
<1>1. PICK k \in T : \A m \in T : ~(<<m, k>> \in OpToRel(<, Nat))
    BY NatLessThanWellFounded, WFMin, Zenon
<1>2. ASSUME NEW m \in T PROVE k <= m
  <2>1. ~(m < k)
      BY <1>1 DEF OpToRel
  <2> QED
      BY <2>1
<1> QED
    BY <1>2

\* k seqs from lo on are in p, and then one is missing.
IsReadyLen(p, lo, k) ==
    /\ \A i \in lo..(lo + k - 1) : i \in p
    /\ lo + k \notin p

\* The run from lo ends somewhere: at the first seq that is missing.
LEMMA GapExists ==
    ASSUME NEW n \in Nat, NEW p \in SUBSET (1..n), NEW lo \in 1..(n + 1)
    PROVE  \E k \in 0..n : IsReadyLen(p, lo, k)
<1> DEFINE T == {k \in Nat : lo + k \notin p}
<1>1. n \in T
    OBVIOUS
<1>2. PICK k \in T : \A m \in T : k <= m
    BY <1>1, LeastExists
<1>3. k \in 0..n
    BY <1>1, <1>2
<1>4. IsReadyLen(p, lo, k)
  <2>1. ASSUME NEW i \in lo..(lo + k - 1) PROVE i \in p
    <3>1. i - lo \in Nat /\ i - lo < k /\ lo + (i - lo) = i
        BY <1>3
    <3>2. i - lo \notin T
        BY <1>2, <3>1
    <3> QED
        BY <3>1, <3>2
  <2> QED
      BY <1>2, <2>1 DEF IsReadyLen
<1> QED
    BY <1>3, <1>4

\* And in one place only.
LEMMA GapUnique ==
    ASSUME NEW p, NEW lo \in Nat, NEW k \in Nat, NEW r \in Nat,
           IsReadyLen(p, lo, k), IsReadyLen(p, lo, r)
    PROVE  r = k
<1>1. ~(r < k)
  <2>1. r < k => lo + r \in lo..(lo + k - 1)
      OBVIOUS
  <2> QED
      BY <2>1 DEF IsReadyLen
<1>2. ~(k < r)
  <2>1. k < r => lo + k \in lo..(lo + r - 1)
      OBVIOUS
  <2> QED
      BY <2>1 DEF IsReadyLen
<1> QED
    BY <1>1, <1>2

\* A chunk joins the end of a queue, and the first one leaves it.
LEMMA AppendFacts ==
    ASSUME NEW S, NEW q \in Seq(S), NEW x \in S
    PROVE  /\ Append(q, x) \in Seq(S)
           /\ Len(q) \in Nat /\ Len(Append(q, x)) = Len(q) + 1
           /\ \A i \in 1..Len(q) : Append(q, x)[i] = q[i]
           /\ Append(q, x)[Len(q) + 1] = x
BY AppendProperties, LenProperties

LEMMA TailFacts ==
    ASSUME NEW S, NEW q \in Seq(S), q # <<>>
    PROVE  /\ Len(q) \in Nat \ {0}
           /\ Head(q) = q[1] /\ Head(q) \in S
           /\ Tail(q) \in Seq(S) /\ Len(Tail(q)) = Len(q) - 1
           /\ \A i \in 1..(Len(q) - 1) : Tail(q)[i] = q[i + 1]
           /\ Len(q) = 1 <=> Tail(q) = <<>>
<1>1. Len(q) \in Nat \ {0}
    BY EmptySeq, LenProperties
<1>2. Head(q) = q[1] /\ Head(q) \in S /\ Tail(q) \in Seq(S) /\ Len(Tail(q)) = Len(q) - 1
    BY HeadTailProperties
<1>3. \A i \in 1..(Len(q) - 1) : Tail(q)[i] = q[i + 1]
    BY <1>1, <1>2, HeadTailProperties
<1>4. Len(q) = 1 <=> Tail(q) = <<>>
  <2>1. Tail(q) = <<>> <=> Len(Tail(q)) = 0
      BY <1>2, EmptySeq, Zenon
  <2>2. Len(Tail(q)) = 0 <=> Len(q) = 1
      BY <1>1, <1>2
  <2> QED
      BY <2>1, <2>2
<1> QED
    BY <1>1, <1>2, <1>3, <1>4

==============================================================================
