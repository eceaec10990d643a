--------------------------- MODULE ReorderBufProofs ---------------------------
(***************************************************************************)
(* Proofs about the reorder buffer, for every payload set, byte budget,    *)
(* entry cap and number of sequence numbers.                               *)
(***************************************************************************)
EXTENDS ReorderBuf, SequenceTheorems, FiniteSetTheorems, TLAPS

\* A buffered seq lies above expected, and as many payloads were handed on as
\* there are seqs below expected.
Window ==
    /\ \A s \in DOMAIN pending : s > expected
    /\ Len(out) = expected - 1

\* The strengthening: the types, the window and the meaning of the flag.
IInv == TypeOK /\ Window /\ OverflowIffMissing

------------------------------------------------------------------------------
(* What a push does to the buffer and to what is held *)

\* A push that fills the gap appends its payload and the buffered run.
LEMMA DrainFacts ==
    ASSUME TypeOK, Window,
           NEW p \in Payload, NEW m \in 2..(MaxSeq + 1),
           IsDrainEnd(m), expected' = m,
           out' = out \o <<p>> \o Chunks(expected + 1, m - 1)
    PROVE  /\ out' \in Seq(Payload)
           /\ Len(out') = m - 1
           /\ \A i \in 1..(expected - 1) : out'[i] = out[i]
           /\ out'[expected] = p
           /\ \A i \in (expected + 1)..(m - 1) : out'[i] = pending[i]
<1> DEFINE c == Chunks(expected + 1, m - 1)
           k == m - 1 - expected
           d == out \o <<p>>
<1>1. /\ expected \in Nat \ {0} /\ m \in Nat /\ m > expected
      /\ out \in Seq(Payload) /\ Len(out) = expected - 1
    BY MaxSeqAssumption DEF TypeOK, Window, IsDrainEnd
<1>2. k \in Nat
    BY <1>1
<1>3. c \in [1..k -> Payload] /\ \A i \in 1..k : c[i] = pending[expected + i]
  <2>1. \A i \in 1..k : pending[expected + i] \in Payload
    <3>1. \A i \in 1..k : expected + i \in (expected + 1)..(m - 1)
        BY <1>1
    <3> QED
        BY <3>1 DEF TypeOK, IsDrainEnd
  <2>2. (m - 1) - (expected + 1) + 1 = k
      BY <1>1
  <2>3. \A i \in 1..k : (expected + 1) + i - 1 = expected + i
      BY <1>1
  <2> QED
      BY <2>1, <2>2, <2>3 DEF Chunks
<1>4. c \in Seq(Payload) /\ Len(c) = k
  <2>1. c \in Seq(Payload)
      BY <1>2, <1>3, SeqDef
  <2>2. DOMAIN c = 1..Len(c) /\ Len(c) \in Nat
      BY <2>1, LenProperties
  <2> QED
      BY <1>2, <1>3, <2>1, <2>2
<1>5. <<p>> \in Seq(Payload) /\ Len(<<p>>) = 1 /\ <<p>>[1] = p
    OBVIOUS
<1> HIDE DEF c
<1>6. /\ d \in Seq(Payload)
      /\ Len(d) = expected
      /\ \A i \in 1..(expected - 1) : d[i] = out[i]
      /\ d[expected] = p
    BY <1>1, <1>5, ConcatProperties
<1> HIDE DEF d
<1>7. /\ d \o c \in Seq(Payload)
      /\ Len(d \o c) = expected + k
      /\ \A i \in 1..(expected + k) :
            (d \o c)[i] = IF i <= expected THEN d[i] ELSE c[i - expected]
    BY <1>4, <1>6, ConcatProperties
<1>8. out' = d \o c
    BY DEF c, d
<1>9. expected + k = m - 1
    BY <1>1
<1>10. \A i \in (expected + 1)..(m - 1) : out'[i] = pending[i]
  <2> SUFFICES ASSUME NEW i \in (expected + 1)..(m - 1)
               PROVE  out'[i] = pending[i]
      OBVIOUS
  <2>1. i - expected \in 1..k /\ expected + (i - expected) = i
      BY <1>1
  <2>2. i \in 1..(expected + k) /\ ~(i <= expected)
      BY <1>1
  <2> QED
      BY <1>3, <1>7, <1>8, <2>1, <2>2
<1>11. \A i \in 1..expected : out'[i] = d[i]
  <2> SUFFICES ASSUME NEW i \in 1..expected PROVE out'[i] = d[i]
      OBVIOUS
  <2>1. i \in 1..(expected + k) /\ i <= expected
      BY <1>1, <1>2
  <2> QED
      BY <1>7, <1>8, <2>1
<1>12. out' \in Seq(Payload) /\ Len(out') = m - 1
    BY <1>7, <1>8, <1>9
<1>13. /\ \A i \in 1..(expected - 1) : i \in 1..expected
       /\ expected \in 1..expected
    BY <1>1
<1>14. /\ \A i \in 1..(expected - 1) : out'[i] = out[i]
       /\ out'[expected] = p
    BY <1>6, <1>11, <1>13
<1> QED
    BY <1>10, <1>12, <1>14

\* A seq is held when it was delivered or is buffered; expected is neither.
LEMMA HeldDomain ==
    ASSUME TypeOK, Window
    PROVE  /\ DOMAIN Held = 1..(expected - 1) \cup DOMAIN pending
           /\ expected \notin DOMAIN Held
           /\ \A s \in 1..(expected - 1) : Held[s] = out[s]
           /\ \A s \in DOMAIN pending : Held[s] = pending[s]
    BY MaxSeqAssumption DEF TypeOK, Window, Held

\* Filling the gap adds one seq to what is held and hands on the run.
LEMMA ExpectedStep ==
    ASSUME TypeOK, Window,
           NEW s \in 0..MaxSeq, NEW p \in Payload, PushExpected(s, p)
    PROVE  /\ TypeOK' /\ Window'
           /\ s = expected /\ s \in Seqs
           /\ Held' = Stream!With(Held, s, p)
           /\ s \in DOMAIN Held'
           /\ result' = Result(s, TRUE, FALSE)
<1> USE MaxSeqAssumption
<1>1. PICK m \in 2..(MaxSeq + 1) :
          /\ IsDrainEnd(m)
          /\ expected' = m
          /\ out' = out \o <<p>> \o Chunks(s + 1, m - 1)
          /\ pending' = Restrict(pending, {x \in DOMAIN pending : x >= m})
    BY DEF PushExpected
<1>2. s = expected /\ result' = Result(s, TRUE, FALSE)
    BY DEF PushExpected
<1>3. /\ out' \in Seq(Payload)
      /\ Len(out') = m - 1
      /\ \A i \in 1..(expected - 1) : out'[i] = out[i]
      /\ out'[expected] = p
      /\ \A i \in (expected + 1)..(m - 1) : out'[i] = pending[i]
    BY <1>1, <1>2, DrainFacts
<1>4. /\ DOMAIN pending' = {x \in DOMAIN pending : x >= m}
      /\ \A x \in DOMAIN pending' : pending'[x] = pending[x]
      /\ pending' \in [DOMAIN pending' -> Payload]
    BY <1>1 DEF Restrict, TypeOK
<1>5. expected \in Seqs /\ m \in Nat /\ m > expected
    BY <1>1, <1>2 DEF TypeOK, IsDrainEnd, Seqs
<1>6. TypeOK'
  <2>1. expected' \in 1..(MaxSeq + 1)
      BY <1>1
  <2>2. DOMAIN pending' \subseteq Seqs
      BY <1>4 DEF TypeOK
  <2>3. result' \in [seq : 0..MaxSeq, accepted : BOOLEAN, overflow : BOOLEAN]
      BY <1>2 DEF Result
  <2> QED
      BY <2>1, <2>2, <2>3, <1>3, <1>4 DEF TypeOK
<1>7. Window'
  <2>1. \A x \in DOMAIN pending' : x > expected'
    <3> SUFFICES ASSUME NEW x \in DOMAIN pending' PROVE x > m
        BY <1>1
    <3>1. x \in DOMAIN pending /\ x >= m /\ x # m
        BY <1>1, <1>4 DEF IsDrainEnd
    <3>2. x \in Nat
        BY <3>1 DEF TypeOK, Seqs
    <3> QED
        BY <3>1, <3>2, <1>5
  <2> QED
      BY <2>1, <1>1, <1>3 DEF Window
<1>8. /\ DOMAIN Held' = 1..(m - 1) \cup {x \in DOMAIN pending : x >= m}
      /\ \A x \in 1..(m - 1) : Held'[x] = out'[x]
      /\ \A x \in DOMAIN pending : x >= m => Held'[x] = pending[x]
  <2>1. Held' = [x \in 1..(m - 1) \cup DOMAIN pending' |->
                   IF x < m THEN out'[x] ELSE pending'[x]]
      BY <1>1 DEF Held
  <2>2. \A x \in 1..(m - 1) : x < m
      BY <1>5
  <2>3. \A x \in DOMAIN pending : x >= m => ~(x < m) /\ x \in DOMAIN pending'
      BY <1>4, <1>5 DEF TypeOK, Seqs
  <2> QED
      BY <2>1, <2>2, <2>3, <1>4
<1>9. DOMAIN Held' = DOMAIN Held \cup {s}
    BY <1>2, <1>5, <1>8, <1>1, HeldDomain DEF TypeOK, Window, IsDrainEnd, Seqs
<1>10. \A x \in DOMAIN Held' : Held'[x] = IF x = s THEN p ELSE Held[x]
  <2> SUFFICES ASSUME NEW x \in DOMAIN Held'
               PROVE  Held'[x] = IF x = s THEN p ELSE Held[x]
      OBVIOUS
  <2>1. CASE x = s
      BY <2>1, <1>2, <1>3, <1>5, <1>8 DEF Seqs
  <2>2. CASE x < s
      BY <2>2, <1>2, <1>3, <1>5, <1>8, HeldDomain DEF TypeOK, Seqs
  <2>3. CASE x > s /\ x < m
    <3>1. x \in (expected + 1)..(m - 1) /\ x \in 1..(m - 1)
        BY <2>3, <1>2, <1>5, <1>8 DEF TypeOK, Seqs
    <3>2. x \in DOMAIN pending
        BY <3>1, <1>1 DEF IsDrainEnd
    <3>3. Held[x] = pending[x]
        BY <3>2, HeldDomain
    <3>4. x # s
        BY <2>3, <1>2, <1>5, <3>1 DEF Seqs
    <3> QED
        BY <3>1, <3>3, <3>4, <1>3, <1>8
  <2>4. CASE x >= m
    <3>1. x \in DOMAIN pending /\ x # s
        BY <2>4, <1>2, <1>5, <1>8 DEF TypeOK, Seqs
    <3> QED
        BY <2>4, <3>1, <1>8, HeldDomain
  <2> QED
      BY <2>1, <2>2, <2>3, <2>4, <1>2, <1>5, <1>8 DEF TypeOK, Seqs
<1>11. Held' = [x \in DOMAIN Held' |-> Held'[x]]
    BY DEF Held
<1>12. Held' = Stream!With(Held, s, p)
    BY <1>9, <1>10, <1>11 DEF Stream!With
<1> QED
    BY <1>2, <1>5, <1>6, <1>7, <1>9, <1>12

\* Buffering adds one seq above the gap to what is held; nothing is handed on.
LEMMA BufferedStep ==
    ASSUME TypeOK, Window,
           NEW s \in 0..MaxSeq, NEW p \in Payload, PushBuffered(s, p)
    PROVE  /\ TypeOK' /\ Window'
           /\ s > expected /\ s \in Seqs /\ s \notin DOMAIN Held
           /\ Held' = Stream!With(Held, s, p)
           /\ expected' = expected /\ out' = out
           /\ result' = Result(s, TRUE, FALSE)
<1> USE MaxSeqAssumption
<1>1. /\ s > expected /\ s \notin DOMAIN pending
      /\ pending' = [x \in DOMAIN pending \cup {s} |->
                       IF x = s THEN p ELSE pending[x]]
      /\ result' = Result(s, TRUE, FALSE)
      /\ expected' = expected /\ out' = out
    BY DEF PushBuffered
<1>2. expected \in Nat \ {0} /\ s \in Seqs
    BY <1>1 DEF TypeOK, Seqs
<1>3. TypeOK'
    BY <1>1, <1>2 DEF TypeOK, Result
<1>4. Window'
    BY <1>1, <1>2 DEF TypeOK, Window
<1>5. s \notin DOMAIN Held
    BY <1>1, <1>2, HeldDomain DEF Seqs
<1>6. DOMAIN Held' = DOMAIN Held \cup {s}
    BY <1>1 DEF Held
<1>7. \A x \in DOMAIN Held' : Held'[x] = IF x = s THEN p ELSE Held[x]
    BY <1>1, <1>2, <1>6, HeldDomain DEF Held, TypeOK, Seqs, Window
<1>8. Held' = [x \in DOMAIN Held' |-> Held'[x]]
    BY DEF Held
<1>9. Held' = Stream!With(Held, s, p)
    BY <1>6, <1>7, <1>8 DEF Stream!With
<1> QED
    BY <1>1, <1>2, <1>3, <1>4, <1>5, <1>9

\* A refused push changes neither the buffer nor what was handed on, and the
\* flag tells a lost frame from a duplicate.
LEMMA RefusedStep ==
    ASSUME TypeOK, Window,
           NEW s \in 0..MaxSeq, NEW p \in Payload,
           PushOld(s, p) \/ PushOverflow(s, p) \/ PushDuplicate(s, p)
    PROVE  /\ TypeOK' /\ Window' /\ OverflowIffMissing'
           /\ Held' = Held /\ out' = out
<1> USE MaxSeqAssumption
<1>1. UNCHANGED <<expected, pending, pending_bytes, out>>
    BY DEF PushOld, PushOverflow, PushDuplicate
<1>2. Held' = Held
    BY <1>1 DEF Held
<1>3. TypeOK' /\ Window'
  <2>1. \E a, o \in BOOLEAN : result' = Result(s, a, o)
      BY DEF PushOld, PushOverflow, PushDuplicate
  <2>2. result' \in [seq : 0..MaxSeq, accepted : BOOLEAN, overflow : BOOLEAN]
      BY <2>1 DEF Result
  <2> QED
      BY <1>1, <2>2 DEF TypeOK, Window
<1>4. OverflowIffMissing'
  <2>1. CASE PushOld(s, p)
    <3>1. s > 0 => s \in DOMAIN Held
        BY <2>1, HeldDomain DEF PushOld, TypeOK
    <3> QED
        BY <2>1, <3>1, <1>2 DEF PushOld, OverflowIffMissing, Result
  <2>2. CASE PushOverflow(s, p)
    <3>1. s \notin DOMAIN Held
        BY <2>2, HeldDomain DEF PushOverflow, TypeOK
    <3> QED
        BY <2>2, <3>1, <1>2 DEF PushOverflow, OverflowIffMissing, Result
  <2>3. CASE PushDuplicate(s, p)
    <3>1. s \in DOMAIN Held
        BY <2>3, HeldDomain DEF PushDuplicate
    <3> QED
        BY <2>3, <3>1, <1>2 DEF PushDuplicate, OverflowIffMissing, Result
  <2> QED
      BY <2>1, <2>2, <2>3
<1> QED
    BY <1>1, <1>2, <1>3, <1>4

------------------------------------------------------------------------------
(* The inductive invariant *)

\* A fresh buffer satisfies the invariant.
LEMMA InitIInv == with_limit => IInv
<1> SUFFICES ASSUME with_limit PROVE IInv
    OBVIOUS
<1>1. pending = <<>> /\ DOMAIN pending = {} /\ out = <<>> /\ Len(out) = 0
    BY DEF with_limit
<1>2. TypeOK
    BY <1>1, MaxSeqAssumption DEF with_limit, TypeOK, Result
<1>3. Window
    BY <1>1 DEF with_limit, Window
<1>4. OverflowIffMissing
    BY DEF with_limit, OverflowIffMissing, Result
<1> QED
    BY <1>2, <1>3, <1>4 DEF IInv

\* Every branch of push preserves it.
LEMMA NextIInv == IInv /\ [Next]_vars => IInv'
<1> SUFFICES ASSUME IInv, [Next]_vars PROVE IInv'
    OBVIOUS
<1>1. TypeOK /\ Window /\ OverflowIffMissing
    BY DEF IInv
<1>2. CASE UNCHANGED vars
    BY <1>1, <1>2 DEF IInv, TypeOK, Window, OverflowIffMissing, Held, vars
<1>3. CASE Next
  <2>1. PICK s \in 0..MaxSeq, p \in Payload : push(s, p)
      BY <1>3 DEF Next
  <2>2. CASE PushExpected(s, p)
    <3>1. /\ TypeOK' /\ Window' /\ s \in DOMAIN Held'
          /\ result' = Result(s, TRUE, FALSE)
        BY <1>1, <2>2, ExpectedStep
    <3> QED
        BY <3>1 DEF IInv, OverflowIffMissing, Result
  <2>3. CASE PushBuffered(s, p)
    <3>1. /\ TypeOK' /\ Window' /\ Held' = Stream!With(Held, s, p)
          /\ result' = Result(s, TRUE, FALSE)
        BY <1>1, <2>3, BufferedStep
    <3>2. s \in DOMAIN Held'
        BY <3>1 DEF Stream!With
    <3> QED
        BY <3>1, <3>2 DEF IInv, OverflowIffMissing, Result
  <2>4. CASE PushOld(s, p) \/ PushOverflow(s, p) \/ PushDuplicate(s, p)
      BY <1>1, <2>4, RefusedStep DEF IInv
  <2> QED
      BY <2>1, <2>2, <2>3, <2>4 DEF push
<1> QED
    BY <1>2, <1>3

\* The invariant holds throughout.
LEMMA IInvHolds == Spec => []IInv
    BY InitIInv, NextIInv, PTL DEF Spec

------------------------------------------------------------------------------
(* The theorems *)

\* Type correctness of the reorder buffer (ReorderBuf and push).
THEOREM TypeCorrect == Spec => []TypeOK
<1>1. IInv => TypeOK
    BY DEF IInv
<1> QED
    BY <1>1, IInvHolds, PTL

\* The overflow flag of push is raised exactly for a frame that is lost.
THEOREM OverflowExact == Spec => []OverflowIffMissing
<1>1. IInv => OverflowIffMissing
    BY DEF IInv
<1> QED
    BY <1>1, IInvHolds, PTL

\* is_complete_through is neither early nor late: the half-close that waits
\* for it waits for exactly the frames below the FIN's seq.
THEOREM CompleteThroughCorrect == Spec => []CompleteThroughExact
<1>1. IInv => CompleteThroughExact
  <2> SUFFICES ASSUME IInv, NEW n \in 1..(MaxSeq + 1)
               PROVE  expected >= n <=> 1..(n - 1) \subseteq DOMAIN Held
      BY DEF CompleteThroughExact, is_complete_through
  <2>1. /\ expected \in Nat \ {0} /\ n \in Nat \ {0}
        /\ TypeOK /\ Window
      BY MaxSeqAssumption DEF IInv, TypeOK
  <2>2. CASE expected >= n
      BY <2>1, <2>2, HeldDomain
  <2>3. CASE ~(expected >= n)
    <3>1. expected \in 1..(n - 1)
        BY <2>1, <2>3
    <3> QED
        BY <2>1, <2>3, <3>1, HeldDomain
  <2> QED
      BY <2>2, <2>3
<1> QED
    BY <1>1, IInvHolds, PTL

\* After any step that leaves what is held a function on the seqs below
\* expected and above, the payloads handed on are those of the gap-free run.
LEMMA OutIsPrefix ==
    ASSUME TypeOK, Window
    PROVE  /\ expected - 1 \in 0..MaxSeq
           /\ Stream!GapFree(Held, expected - 1)
           /\ out = [i \in 1..(expected - 1) |-> Held[i]]
<1>1. expected \in 1..(MaxSeq + 1)
    BY DEF TypeOK
<1>2. Stream!GapFree(Held, expected - 1)
  <2>1. expected - 1 + 1 = expected
      BY <1>1, MaxSeqAssumption
  <2> QED
      BY <2>1, HeldDomain DEF Stream!GapFree
<1>3. out \in [1..(expected - 1) -> Payload]
    BY LenProperties DEF TypeOK, Window
<1>4. \A i \in 1..(expected - 1) : Held[i] = out[i]
    BY HeldDomain
<1> QED
    BY <1>1, <1>2, <1>3, <1>4, MaxSeqAssumption

\* The reorder buffer implements the ordered stream: whatever the order, the
\* duplicates and the refusals, the endpoint is handed the accepted payloads
\* of the gap-free run, each once and in order.
THEOREM ImplementsOrderedStream == Spec => StreamSpec
<1>1. with_limit => Stream!Init
  <2> SUFFICES ASSUME with_limit PROVE Held = <<>> /\ out = <<>>
      BY DEF Stream!Init
  <2>1. 1..(expected - 1) \cup DOMAIN pending = {}
      BY DEF with_limit
  <2> QED
      BY <2>1 DEF Held, with_limit
<1>2. IInv /\ IInv' /\ [Next]_vars => [Stream!Next]_<<Held, out>>
  <2> SUFFICES ASSUME IInv, IInv', [Next]_vars
               PROVE  Stream!Next \/ (Held' = Held /\ out' = out)
      OBVIOUS
  <2>0. TypeOK /\ Window /\ TypeOK' /\ Window'
      BY DEF IInv
  <2>1. CASE UNCHANGED vars
      BY <2>1 DEF vars, Held
  <2>2. CASE Next
    <3>1. PICK s \in 0..MaxSeq, p \in Payload : push(s, p)
        BY <2>2 DEF Next
    <3>2. CASE PushOld(s, p) \/ PushOverflow(s, p) \/ PushDuplicate(s, p)
        BY <2>0, <3>2, RefusedStep
    <3>3. CASE PushExpected(s, p) \/ PushBuffered(s, p)
      <4>1. s \in Seqs /\ s \notin DOMAIN Held /\ Held' = Stream!With(Held, s, p)
          BY <2>0, <3>3, ExpectedStep, BufferedStep, HeldDomain
      <4>2. /\ expected' - 1 \in 0..MaxSeq
            /\ Stream!GapFree(Held', expected' - 1)
            /\ out' = [i \in 1..(expected' - 1) |-> Held'[i]]
        <5>1. (/\ expected - 1 \in 0..MaxSeq
               /\ Stream!GapFree(Held, expected - 1)
               /\ out = [i \in 1..(expected - 1) |-> Held[i]])'
            BY <2>0, OutIsPrefix, PTL
        <5> QED
            BY <5>1
      <4>3. Stream!Accept(s, p)
          BY <4>1, <4>2 DEF Stream!Accept
      <4> QED
          BY <4>1, <4>3 DEF Stream!Next, Stream!Seqs, Seqs
    <3> QED
        BY <3>1, <3>2, <3>3 DEF push
  <2> QED
      BY <2>1, <2>2
<1> QED
    BY <1>1, <1>2, IInvHolds, PTL DEF Spec, StreamSpec, Stream!Spec, Stream!vars

------------------------------------------------------------------------------
(* The limits *)

\* The bytes of one payload of length n.
LEMMA Portion ==
    ASSUME NEW x, NEW n \in Nat
    PROVE  IsFiniteSet({x} \X (1..n)) /\ Cardinality({x} \X (1..n)) = n
<1> DEFINE pair == [i \in 1..n |-> <<x, i>>]
<1>1. pair \in Bijection(1..n, {x} \X (1..n))
  <2>1. pair \in [1..n -> {x} \X (1..n)]
      OBVIOUS
  <2>2. \A i, j \in 1..n : pair[i] = pair[j] => i = j
      OBVIOUS
  <2>3. \A q \in {x} \X (1..n) : \E i \in 1..n : pair[i] = q
      OBVIOUS
  <2> QED
      BY <2>1, <2>2, <2>3 DEF Bijection, Injection, IsInjective, Surjection
<1>2. IsFiniteSet(1..n) /\ Cardinality(1..n) = n
    BY FS_Interval
<1> HIDE DEF pair
<1>3. ExistsBijection(1..n, {x} \X (1..n))
    BY <1>1 DEF ExistsBijection
<1> QED
    BY <1>2, <1>3, FS_Bijection

\* What is buffered, and how much of it: the bytes can be counted, the count
\* kept beside them is right, and neither limit is exceeded.
Limits ==
    /\ IsFiniteSet(ByteSet(pending))
    /\ ByteAccounting
    /\ EntryBound

LEMMA BytesOf ==
    ASSUME NEW f
    PROVE  \A q : q \in ByteSet(f)
                    <=> \E x \in DOMAIN f : q \in {x} \X (1..PayloadLen[f[x]])
BY DEF ByteSet

\* The entries are finitely many: their seqs lie below the bound.
LEMMA FinitelyBuffered ==
    ASSUME TypeOK
    PROVE  IsFiniteSet(DOMAIN pending) /\ Cardinality(DOMAIN pending) \in Nat
<1>1. IsFiniteSet(Seqs)
    BY FS_Interval, MaxSeqAssumption DEF Seqs
<1> QED
    BY <1>1, FS_Subset, FS_CardinalityType DEF TypeOK

\* A drain takes the run above expected out of the buffer with its bytes.
LEMMA DrainKeepsLimits ==
    ASSUME TypeOK, Window, Limits,
           NEW s \in 0..MaxSeq, NEW p \in Payload, PushExpected(s, p)
    PROVE  Limits'
<1> USE MaxSeqAssumption
<1>1. PICK m \in 2..(MaxSeq + 1) :
          /\ IsDrainEnd(m)
          /\ pending' = Restrict(pending, {x \in DOMAIN pending : x >= m})
          /\ pending_bytes' = pending_bytes
                - Bytes(Restrict(pending, (s + 1)..(m - 1)))
    BY DEF PushExpected
<1>2. s = expected /\ s \in Nat /\ m \in Nat /\ DOMAIN pending \subseteq Nat
    BY DEF PushExpected, TypeOK, Seqs
<1> DEFINE run == Restrict(pending, (s + 1)..(m - 1))
<1>3. /\ DOMAIN run = (s + 1)..(m - 1) /\ DOMAIN run \subseteq DOMAIN pending
      /\ \A x \in DOMAIN run : run[x] = pending[x]
    BY <1>1, <1>2 DEF Restrict, IsDrainEnd
<1>4. /\ DOMAIN pending' = {x \in DOMAIN pending : x >= m}
      /\ \A x \in DOMAIN pending' : pending'[x] = pending[x]
    BY <1>1 DEF Restrict
<1> HIDE DEF run
<1>5. DOMAIN pending = DOMAIN pending' \cup DOMAIN run
  <2>1. ASSUME NEW x \in DOMAIN pending
        PROVE  x >= m \/ x \in (s + 1)..(m - 1)
    <3>1. x > s /\ x \in Nat
        BY <1>2 DEF Window
    <3> QED
        BY <1>2, <3>1
  <2> QED
      BY <1>3, <1>4, <2>1
<1>6. DOMAIN pending' \cap DOMAIN run = {}
    BY <1>2, <1>3, <1>4
<1>7. ByteSet(pending) = ByteSet(pending') \cup ByteSet(run)
  <2>1. ASSUME NEW q \in ByteSet(pending)
        PROVE  q \in ByteSet(pending') \cup ByteSet(run)
    <3>1. PICK x \in DOMAIN pending : q \in {x} \X (1..PayloadLen[pending[x]])
        BY <2>1, BytesOf
    <3>2. CASE x \in DOMAIN pending'
        BY <1>4, <3>1, <3>2 DEF ByteSet
    <3>3. CASE x \in DOMAIN run
        BY <1>3, <3>1, <3>3 DEF ByteSet
    <3> QED
        BY <1>5, <3>2, <3>3
  <2>2. ASSUME NEW q \in ByteSet(pending') \cup ByteSet(run)
        PROVE  q \in ByteSet(pending)
    <3>1. CASE q \in ByteSet(pending')
        BY <1>4, <1>5, <3>1 DEF ByteSet
    <3>2. CASE q \in ByteSet(run)
        BY <1>3, <3>2, BytesOf
    <3> QED
        BY <2>2, <3>1, <3>2
  <2> QED
      BY <2>1, <2>2
<1>8. ByteSet(pending') \cap ByteSet(run) = {}
    BY <1>6, BytesOf
<1>9. IsFiniteSet(ByteSet(pending')) /\ IsFiniteSet(ByteSet(run))
    BY <1>7, FS_Subset DEF Limits
<1>10. Bytes(pending) = Bytes(pending') + Bytes(run)
  <2>1. Cardinality(ByteSet(pending))
          = Cardinality(ByteSet(pending')) + Cardinality(ByteSet(run)) - 0
      BY <1>7, <1>8, <1>9, FS_Union, FS_EmptySet
  <2> QED
      BY <2>1, <1>9, FS_CardinalityType DEF Bytes
<1>11. Bytes(pending') \in Nat /\ Bytes(run) \in Nat
    BY <1>9, FS_CardinalityType DEF Bytes
<1>12. pending_bytes' = pending_bytes - Bytes(run)
    BY <1>1 DEF run
<1>13. ByteAccounting'
  <2>1. pending_bytes' = Bytes(pending') /\ pending_bytes' <= max_bytes
      BY <1>10, <1>11, <1>12, LimitAssumption DEF Limits, ByteAccounting
  <2> QED
      BY <2>1 DEF ByteAccounting
<1>14. EntryBound'
  <2>1. Cardinality(DOMAIN pending') <= Cardinality(DOMAIN pending)
      BY <1>5, FinitelyBuffered, FS_Subset
  <2>2. Cardinality(DOMAIN pending') \in Nat /\ max_entries \in Nat
    <3>1. IsFiniteSet(DOMAIN pending')
        BY <1>5, FinitelyBuffered, FS_Subset
    <3> QED
        BY <3>1, FS_CardinalityType, LimitAssumption DEF max_entries
  <2> QED
      BY <2>1, <2>2, FinitelyBuffered DEF Limits, EntryBound
<1> QED
    BY <1>9, <1>13, <1>14 DEF Limits

\* An entry is added only where both limits have room for it.
LEMMA BufferingKeepsLimits ==
    ASSUME TypeOK, Limits,
           NEW s \in 0..MaxSeq, NEW p \in Payload, PushBuffered(s, p)
    PROVE  Limits'
<1> DEFINE more == {s} \X (1..PayloadLen[p])
<1>1. /\ s \notin DOMAIN pending
      /\ DOMAIN pending' = DOMAIN pending \cup {s}
      /\ pending'[s] = p /\ \A x \in DOMAIN pending : pending'[x] = pending[x]
      /\ Cardinality(DOMAIN pending) < max_entries
      /\ pending_bytes + PayloadLen[p] <= max_bytes
      /\ pending_bytes' = pending_bytes + PayloadLen[p]
    BY DEF PushBuffered, can_buffer
<1>2. ByteSet(pending') = ByteSet(pending) \cup more
    BY <1>1, BytesOf
<1>3. ByteSet(pending) \cap more = {}
    BY <1>1, BytesOf
<1>4. PayloadLen[p] \in Nat /\ IsFiniteSet(more) /\ Cardinality(more) = PayloadLen[p]
    BY PayloadAssumption, Portion
<1> HIDE DEF more
<1>5. /\ IsFiniteSet(ByteSet(pending'))
      /\ Cardinality(ByteSet(pending'))
            = Cardinality(ByteSet(pending)) + PayloadLen[p] - 0
    BY <1>2, <1>3, <1>4, FS_Union, FS_EmptySet DEF Limits
<1>6. ByteAccounting'
  <2>1. Cardinality(ByteSet(pending)) \in Nat
      BY FS_CardinalityType DEF Limits
  <2>2. pending_bytes' = Cardinality(ByteSet(pending'))
      BY <1>1, <1>4, <1>5, <2>1 DEF Limits, ByteAccounting, Bytes
  <2> QED
      BY <1>1, <2>2 DEF ByteAccounting, Bytes
<1>7. EntryBound'
  <2>1. Cardinality(DOMAIN pending') = Cardinality(DOMAIN pending) + 1
      BY <1>1, FinitelyBuffered, FS_AddElement
  <2>2. max_entries \in Nat
      BY LimitAssumption DEF max_entries
  <2>3. Cardinality(DOMAIN pending') <= max_entries
      BY <1>1, <2>1, <2>2, FinitelyBuffered
  <2> QED
      BY <2>3 DEF EntryBound, max_entries
<1> QED
    BY <1>5, <1>6, <1>7 DEF Limits

\* Nothing else touches the buffer.
LEMMA LimitsHold == Spec => []Limits
<1>1. with_limit => Limits
  <2> SUFFICES ASSUME with_limit PROVE Limits
      OBVIOUS
  <2>1. DOMAIN pending = {} /\ pending_bytes = 0
      BY DEF with_limit
  <2>2. ByteSet(pending) = {}
      BY <2>1, BytesOf
  <2>3. max_entries \in Nat
      BY LimitAssumption DEF max_entries
  <2> QED
      BY <2>1, <2>2, <2>3, FS_EmptySet, LimitAssumption
      DEF Limits, ByteAccounting, EntryBound, Bytes
<1>2. IInv /\ Limits /\ [Next]_vars => Limits'
  <2> SUFFICES ASSUME TypeOK, Window, Limits, [Next]_vars PROVE Limits'
      BY DEF IInv
  <2>1. CASE UNCHANGED <<pending, pending_bytes>>
      BY <2>1 DEF Limits, ByteAccounting, EntryBound, Bytes, ByteSet, max_entries
  <2>2. CASE UNCHANGED vars
      BY <2>1, <2>2 DEF vars
  <2>3. CASE Next
    <3>1. PICK s \in 0..MaxSeq, p \in Payload : push(s, p)
        BY <2>3 DEF Next
    <3>2. CASE PushExpected(s, p)
        BY <3>2, DrainKeepsLimits
    <3>3. CASE PushBuffered(s, p)
        BY <3>3, BufferingKeepsLimits
    <3>4. CASE PushOld(s, p) \/ PushOverflow(s, p) \/ PushDuplicate(s, p)
        BY <2>1, <3>4 DEF PushOld, PushOverflow, PushDuplicate
    <3> QED
        BY <3>1, <3>2, <3>3, <3>4 DEF push
  <2> QED
      BY <2>2, <2>3
<1> QED
    BY <1>1, <1>2, IInvHolds, PTL DEF Spec

\* B54: the running byte count of the buffer is exact and within
\* reorder_window_bytes, for every budget and all payload lengths.
THEOREM BytesAreAccounted == Spec => []ByteAccounting
<1>1. Limits => ByteAccounting
    BY DEF Limits
<1> QED
    BY <1>1, LimitsHold, PTL

\* The number of buffered frames never exceeds the entry cap.
THEOREM EntriesAreBounded == Spec => []EntryBound
<1>1. Limits => EntryBound
    BY DEF Limits
<1> QED
    BY <1>1, LimitsHold, PTL

==============================================================================
