--------------------------- MODULE AlgorithmProofs ---------------------------
(***************************************************************************)
(* Proofs about the pure parts of the program: numbers in bytes, frames on *)
(* a byte stream (FrameCodec), and the answers of MCAlgorithms: addresses, *)
(* the list of ports, the calendar and the daily log, the scheduler.  For  *)
(* every radix, width, payload and cut of the stream, every list, every    *)
(* day, every pool of links and their rates.                               *)
(***************************************************************************)
EXTENDS FrameCodec, MCAlgorithms, DeliveryLemmas, FiniteSetTheorems

------------------------------------------------------------------------------
(* Recursive functions on 0..n *)

\* What holds at 0 and goes on from each number to the next holds up to n: the
\* set holds a least counterexample otherwise.
LEMMA UpTo ==
    ASSUME NEW n \in Nat, NEW T, 0 \in T, \A i \in 1..n : i - 1 \in T => i \in T
    PROVE  \A i \in 0..n : i \in T
<1> DEFINE U == {i \in 0..n : i \notin T}
<1> SUFFICES ASSUME U # {} PROVE FALSE
    OBVIOUS
<1>1. PICK k \in U : \A m \in U : k <= m
  <2>1. U \in SUBSET Nat
      OBVIOUS
  <2> HIDE DEF U
  <2> QED
      BY <2>1, LeastExists
<1>2. k \in 1..n /\ k - 1 \in 0..n /\ k - 1 \notin U
    BY <1>1
<1> QED
    BY <1>1, <1>2

\* A function may be defined by its value at 0 and a step from i - 1 to i.
Follows(g, n, a, step) == g[0] = a /\ \A i \in 1..n : g[i] = step[i][g[i - 1]]

\* Such a function exists.
LEMMA RecursionExists ==
    ASSUME NEW n \in Nat, NEW S, NEW a \in S, NEW step \in [1..n -> [S -> S]]
    PROVE  \E g \in [0..n -> S] : Follows(g, n, a, step)
<1> DEFINE Upto(m) == \E g \in [0..m -> S] : Follows(g, m, a, step)
           T == {m \in 0..n : Upto(m)}
<1>1. Upto(0)
  <2> DEFINE g == [i \in 0..0 |-> a]
  <2>1. g \in [0..0 -> S] /\ g[0] = a
      OBVIOUS
  <2>2. \A i \in 1..0 : g[i] = step[i][g[i - 1]]
      OBVIOUS
  <2>3. Follows(g, 0, a, step)
      BY <2>1, <2>2 DEF Follows
  <2> HIDE DEF g
  <2> QED
      BY <2>1, <2>3
<1>2. ASSUME NEW m \in 1..n, Upto(m - 1) PROVE Upto(m)
  <2>1. PICK g \in [0..(m - 1) -> S] :
            g[0] = a /\ \A i \in 1..(m - 1) : g[i] = step[i][g[i - 1]]
      BY <1>2 DEF Follows
  <2> DEFINE h == [i \in 0..m |-> IF i = m THEN step[m][g[m - 1]] ELSE g[i]]
  <2>2. m - 1 \in 0..(m - 1) /\ g[m - 1] \in S
      OBVIOUS
  <2>3. step[m][g[m - 1]] \in S
      BY <2>2
  <2>4. h \in [0..m -> S]
      BY <2>3
  <2>5. h[0] = a
      BY <2>1
  <2>6. ASSUME NEW i \in 1..m PROVE h[i] = step[i][h[i - 1]]
    <3>1. h[i - 1] = g[i - 1]
        OBVIOUS
    <3>2. CASE i = m
        BY <3>1, <3>2
    <3>3. CASE i # m
        BY <3>1, <3>3, <2>1
    <3> QED
        BY <3>2, <3>3
  <2> HIDE DEF h
  <2>7. Follows(h, m, a, step)
      BY <2>5, <2>6 DEF Follows
  <2> QED
      BY <2>4, <2>7
<1>3. 0 \in T
    BY <1>1
<1>4. \A i \in 1..n : i - 1 \in T => i \in T
  <2> HIDE DEF Upto
  <2> QED
      BY <1>2
<1>5. \A i \in 0..n : i \in T
  <2> HIDE DEF T
  <2> QED
      BY <1>3, <1>4, UpTo
<1>6. n \in T
    BY <1>5
<1> QED
    BY <1>6

\* And by these it is unique.
Agree(g, h, n) == g[0] = h[0] /\ \A i \in 1..n : g[i - 1] = h[i - 1] => g[i] = h[i]

LEMMA RecursionUnique ==
    ASSUME NEW n \in Nat, NEW g, NEW h, Agree(g, h, n)
    PROVE  \A i \in 0..n : g[i] = h[i]
<1> DEFINE T == {i \in 0..n : g[i] = h[i]}
<1>1. 0 \in T
    BY DEF Agree
<1>2. \A i \in 1..n : i - 1 \in T => i \in T
    BY DEF Agree
<1>3. \A i \in 0..n : i \in T
  <2> HIDE DEF T
  <2> QED
      BY <1>1, <1>2, UpTo
<1> QED
    BY <1>3

------------------------------------------------------------------------------
(* Powers of the radix *)

PowerUpTo(k) == CHOOSE p : p = [i \in 0..k |-> IF i = 0 THEN 1 ELSE RADIX * p[i - 1]]

\* The function behind Power is the one its equation asks for.
LEMMA PowerIs ==
    ASSUME NEW k \in Nat
    PROVE  /\ PowerUpTo(k) \in [0..k -> Nat]
           /\ PowerUpTo(k)[0] = 1
           /\ \A i \in 1..k : PowerUpTo(k)[i] = RADIX * PowerUpTo(k)[i - 1]
           /\ Power(k) = PowerUpTo(k)[k]
<1> DEFINE step == [i \in 1..k |-> [x \in Nat |-> RADIX * x]]
           Eqn(p) == p = [i \in 0..k |-> IF i = 0 THEN 1 ELSE RADIX * p[i - 1]]
           P == PowerUpTo(k)
<1>1. step \in [1..k -> [Nat -> Nat]]
    BY WidthAssumption
<1>2. PICK g \in [0..k -> Nat] : Follows(g, k, 1, step)
  <2>1. 1 \in Nat
      OBVIOUS
  <2> HIDE DEF step
  <2> QED
      BY <1>1, <2>1, RecursionExists
<1>3. g[0] = 1
    BY <1>2 DEF Follows
<1>4. ASSUME NEW i \in 1..k PROVE g[i] = RADIX * g[i - 1]
  <2>1. i - 1 \in 0..k
      OBVIOUS
  <2>2. g[i - 1] \in Nat
      BY <2>1
  <2> QED
      BY <1>2, <2>2 DEF Follows
<1>5. Eqn(g)
  <2>1. ASSUME NEW i \in 0..k PROVE g[i] = IF i = 0 THEN 1 ELSE RADIX * g[i - 1]
    <3>1. i # 0 => i \in 1..k
        OBVIOUS
    <3> QED
        BY <1>3, <1>4, <3>1
  <2>2. g = [i \in 0..k |-> g[i]]
      OBVIOUS
  <2> QED
      BY <2>1, <2>2, Zenon
<1>6. Eqn(P)
    BY <1>5, Zenon DEF PowerUpTo
<1>7. Power(k) = P[k]
    BY DEF Power, PowerUpTo
<1> HIDE DEF P
<1>8. P[0] = 1 /\ \A i \in 1..k : P[i] = RADIX * P[i - 1]
  <2>1. \A i \in 0..k : P[i] = IF i = 0 THEN 1 ELSE RADIX * P[i - 1]
      BY <1>6, Zenon
  <2>2. 0 \in 0..k /\ \A i \in 1..k : i \in 0..k /\ i # 0
      OBVIOUS
  <2> QED
      BY <2>1, <2>2, Zenon
<1>9. \A i \in 0..k : P[i] = g[i]
  <2>1. P[0] = g[0] /\ \A i \in 1..k : P[i - 1] = g[i - 1] => P[i] = g[i]
      BY <1>3, <1>4, <1>8
  <2>2. Agree(P, g, k)
      BY <2>1 DEF Agree
  <2> QED
      BY <2>2, RecursionUnique
<1>10. P \in [0..k -> Nat]
    BY <1>6, <1>9
<1> QED
    BY <1>7, <1>8, <1>10 DEF P

\* Powers are positive, and each is the radix times the one before.
LEMMA PowerFacts ==
    /\ Power(0) = 1
    /\ \A k \in Nat : Power(k) \in Nat \ {0} /\ Power(k + 1) = RADIX * Power(k)
<1>1. Power(0) = 1
    BY PowerIs
<1>2. ASSUME NEW k \in Nat PROVE Power(k) \in Nat /\ Power(k + 1) = RADIX * Power(k)
  <2> DEFINE g == PowerUpTo(k)
             h == PowerUpTo(k + 1)
  <2>1. /\ g \in [0..k -> Nat] /\ Power(k) = g[k]
        /\ g[0] = 1 /\ \A i \in 1..k : g[i] = RADIX * g[i - 1]
      BY PowerIs
  <2>2. /\ Power(k + 1) = h[k + 1]
        /\ h[0] = 1 /\ \A i \in 1..(k + 1) : h[i] = RADIX * h[i - 1]
    <3>1. k + 1 \in Nat
        OBVIOUS
    <3> QED
        BY <3>1, PowerIs
  <2> HIDE DEF g, h
  <2>3. g[0] = h[0] /\ \A i \in 1..k : g[i - 1] = h[i - 1] => g[i] = h[i]
      BY <2>1, <2>2
  <2>4. \A i \in 0..k : g[i] = h[i]
      BY <2>3, RecursionUnique DEF Agree
  <2>5. h[k + 1] = RADIX * h[(k + 1) - 1] /\ (k + 1) - 1 = k
      BY <2>2
  <2>6. g[k] = h[k] /\ g[k] \in Nat
      BY <2>1, <2>4
  <2> QED
      BY <2>1, <2>2, <2>5, <2>6
<1>3. ASSUME NEW k \in Nat PROVE Power(k) # 0
  <2> DEFINE T == {i \in Nat : Power(i) # 0}
  <2>1. 0 \in T
      BY <1>1
  <2>2. ASSUME NEW i \in 1..k, i - 1 \in T PROVE i \in T
    <3>1. Power((i - 1) + 1) = RADIX * Power(i - 1) /\ Power(i - 1) \in Nat
        BY <1>2
    <3>2. \A x, y \in Nat : (x # 0 /\ y # 0) => x * y # 0
        OBVIOUS
    <3>3. (i - 1) + 1 = i
        OBVIOUS
    <3> QED
        BY <2>2, <3>1, <3>2, <3>3, WidthAssumption
  <2>3. k \in T
    <3> HIDE DEF T
    <3> QED
        BY <2>1, <2>2, UpTo
  <2> QED
      BY <2>3
<1> QED
    BY <1>1, <1>2, <1>3

------------------------------------------------------------------------------
(* Numbers in bytes *)

NumberUpTo(b) ==
    CHOOSE p : p = [i \in 0..Len(b) |-> IF i = 0 THEN 0 ELSE p[i - 1] * RADIX + b[i]]

\* The function behind Number is the one its equation asks for.
LEMMA NumberIs ==
    ASSUME NEW b \in Seq(Byte)
    PROVE  \E g \in [0..Len(b) -> Nat] :
              /\ g[0] = 0
              /\ \A i \in 1..Len(b) : g[i] = g[i - 1] * RADIX + b[i]
              /\ Number(b) = g[Len(b)]
<1> DEFINE k == Len(b)
           step == [i \in 1..k |-> [x \in Nat |-> x * RADIX + b[i]]]
           Eqn(p) == p = [i \in 0..k |-> IF i = 0 THEN 0 ELSE p[i - 1] * RADIX + b[i]]
           P == NumberUpTo(b)
<1>1. k \in Nat /\ \A i \in 1..k : b[i] \in Nat
    BY LenProperties, ElementOfSeq, WidthAssumption DEF Byte
<1>2. Number(b) = P[k]
    BY DEF Number, NumberUpTo
<1> HIDE DEF k
<1>3. step \in [1..k -> [Nat -> Nat]]
  <2>1. \A i \in 1..k, x \in Nat : x * RADIX + b[i] \in Nat
      BY <1>1, WidthAssumption
  <2> QED
      BY <2>1
<1>4. PICK g \in [0..k -> Nat] : Follows(g, k, 0, step)
  <2>1. 0 \in Nat
      OBVIOUS
  <2> HIDE DEF step
  <2> QED
      BY <1>1, <1>3, <2>1, RecursionExists
<1>5. g[0] = 0
    BY <1>4 DEF Follows
<1>6. ASSUME NEW i \in 1..k PROVE g[i] = g[i - 1] * RADIX + b[i]
  <2>1. i - 1 \in 0..k
      BY <1>1
  <2>2. g[i - 1] \in Nat
      BY <2>1
  <2> QED
      BY <1>4, <2>2 DEF Follows
<1>7. Eqn(g)
  <2>1. ASSUME NEW i \in 0..k PROVE g[i] = IF i = 0 THEN 0 ELSE g[i - 1] * RADIX + b[i]
    <3>1. i # 0 => i \in 1..k
        BY <1>1
    <3> QED
        BY <1>5, <1>6, <3>1
  <2>2. g = [i \in 0..k |-> g[i]]
      OBVIOUS
  <2> QED
      BY <2>1, <2>2, Zenon
<1>8. Eqn(P)
    BY <1>7, Zenon DEF NumberUpTo, k
<1> HIDE DEF P
<1>9. P[0] = 0 /\ \A i \in 1..k : P[i] = P[i - 1] * RADIX + b[i]
  <2>1. \A i \in 0..k : P[i] = IF i = 0 THEN 0 ELSE P[i - 1] * RADIX + b[i]
      BY <1>8, Zenon
  <2>2. 0 \in 0..k /\ \A i \in 1..k : i \in 0..k /\ i # 0
      BY <1>1
  <2> QED
      BY <2>1, <2>2, Zenon
<1>10. P[k] = g[k]
  <2>1. P[0] = g[0] /\ \A i \in 1..k : P[i - 1] = g[i - 1] => P[i] = g[i]
      BY <1>5, <1>6, <1>9
  <2>2. Agree(P, g, k)
      BY <2>1 DEF Agree
  <2>3. \A i \in 0..k : P[i] = g[i]
      BY <1>1, <2>2, RecursionUnique
  <2> QED
      BY <1>1, <2>3
<1> QED
    BY <1>2, <1>5, <1>6, <1>10 DEF k

\* Division with remainder.
LEMMA DivisionFacts ==
    ASSUME NEW n \in Nat, NEW a \in Nat \ {0}
    PROVE  /\ n \div a \in Nat /\ n % a \in 0..(a - 1)
           /\ n = (n \div a) * a + (n % a)
OBVIOUS

\* Quotient and remainder are the only ones.
LEMMA QuotientUnique ==
    ASSUME NEW n \in Nat, NEW a \in Nat \ {0}, NEW q \in Nat, NEW r \in Nat,
           n = q * a + r, r < a
    PROVE  n \div a = q
OBVIOUS

\* The quotient by RADIX * a is that by a, without its last digit.
LEMMA DropDigit ==
    ASSUME NEW n \in Nat, NEW a \in Nat \ {0}
    PROVE  n \div a = (n \div (RADIX * a)) * RADIX + ((n \div a) % RADIX)
<1> DEFINE x == n \div a
           y == n % a
           q == x \div RADIX
           d == x % RADIX
<1>1. x \in Nat /\ y \in Nat /\ y < a /\ n = x * a + y
    BY DivisionFacts
<1>2. RADIX \in Nat \ {0}
    BY WidthAssumption
<1> HIDE DEF x, y
<1>3. q \in Nat /\ d \in Nat /\ d < RADIX /\ x = q * RADIX + d
    BY <1>1, <1>2, DivisionFacts
<1> HIDE DEF q, d
<1>4. d * a + y \in Nat /\ d * a + y < RADIX * a
  <2>1. d * a \in Nat /\ d * a <= (RADIX - 1) * a
      BY <1>3, <1>2
  <2>2. (RADIX - 1) * a = RADIX * a - a
      BY <1>2
  <2>3. RADIX * a \in Nat
      BY <1>2
  <2> QED
      BY <1>1, <2>1, <2>2, <2>3
<1>5. n = q * (RADIX * a) + (d * a + y)
  <2>1. x * a = (q * RADIX) * a + d * a
      BY <1>1, <1>3, <1>2
  <2>2. (q * RADIX) * a = q * (RADIX * a)
      BY <1>3, <1>2
  <2> QED
      BY <1>1, <1>3, <1>2, <2>1, <2>2
<1>6. RADIX * a \in Nat \ {0}
    BY <1>2
<1>7. n \div (RADIX * a) = q
    BY <1>3, <1>4, <1>5, <1>6, QuotientUnique
<1> QED
    BY <1>3, <1>7 DEF x, d

\* A number is read back from its bytes as it was put down.
LEMMA BytesOfNumber ==
    ASSUME NEW w \in Nat, NEW n \in Uint(w)
    PROVE  /\ BigEndian(n, w) \in Seq(Byte) /\ Len(BigEndian(n, w)) = w
           /\ Number(BigEndian(n, w)) = n
<1> DEFINE b == BigEndian(n, w)
<1>1. n \in Nat /\ n < Power(w)
    BY PowerFacts DEF Uint
<1>2. \A i \in 0..w : w - i \in Nat /\ Power(w - i) \in Nat \ {0}
    BY PowerFacts
<1>3. ASSUME NEW i \in 1..w PROVE b[i] = (n \div Power(w - i)) % RADIX /\ b[i] \in Byte
  <2>1. b[i] = (n \div Power(w - i)) % RADIX
      BY DEF BigEndian
  <2>2. n \div Power(w - i) \in Nat
      BY <1>1, <1>2, DivisionFacts
  <2>3. (n \div Power(w - i)) % RADIX \in 0..(RADIX - 1)
      BY <2>2, DivisionFacts, WidthAssumption
  <2> QED
      BY <2>1, <2>3 DEF Byte
<1>4. b \in Seq(Byte) /\ Len(b) = w
  <2>1. b = [i \in 1..w |-> b[i]]
      BY DEF BigEndian
  <2>2. b \in [1..w -> Byte]
      BY <1>3, <2>1
  <2> QED
      BY <2>2
<1>5. PICK g \in [0..w -> Nat] :
            g[0] = 0 /\ (\A i \in 1..w : g[i] = g[i - 1] * RADIX + b[i]) /\ Number(b) = g[w]
  <2> HIDE DEF b
  <2> QED
      BY <1>4, NumberIs
<1> DEFINE h == [i \in 0..w |-> n \div Power(w - i)]
<1>6. g[0] = h[0]
  <2>1. n \div Power(w) = 0
    <3>1. Power(w) \in Nat \ {0}
        BY PowerFacts
    <3>2. n = 0 * Power(w) + n
        BY <1>1, <3>1
    <3> QED
        BY <1>1, <3>1, <3>2, QuotientUnique
  <2>2. h[0] = n \div Power(w)
      OBVIOUS
  <2> QED
      BY <1>5, <2>1, <2>2
<1>7. ASSUME NEW i \in 1..w PROVE h[i] = h[i - 1] * RADIX + b[i]
  <2>1. w - (i - 1) = (w - i) + 1 /\ w - i \in Nat
      OBVIOUS
  <2>2. Power(w - (i - 1)) = RADIX * Power(w - i)
      BY <2>1, PowerFacts
  <2>3. h[i - 1] = n \div (RADIX * Power(w - i)) /\ h[i] = n \div Power(w - i)
      BY <2>2
  <2>4. Power(w - i) \in Nat \ {0}
      BY <1>2
  <2>5. n \div Power(w - i) = (n \div (RADIX * Power(w - i))) * RADIX
                                 + ((n \div Power(w - i)) % RADIX)
      BY <1>1, <2>4, DropDigit
  <2>6. b[i] = (n \div Power(w - i)) % RADIX
      BY <1>3
  <2> HIDE DEF h, b
  <2> QED
      BY <2>3, <2>5, <2>6
<1>8. g[w] = h[w]
  <2> HIDE DEF h, b
  <2>1. \A i \in 1..w : g[i - 1] = h[i - 1] => g[i] = h[i]
      BY <1>5, <1>7
  <2>2. Agree(g, h, w)
      BY <1>6, <2>1 DEF Agree
  <2>3. \A i \in 0..w : g[i] = h[i]
      BY <2>2, RecursionUnique
  <2> QED
      BY <2>3
<1>9. h[w] = n
  <2>1. h[w] = n \div 1
      BY PowerFacts
  <2> QED
      BY <1>1, <2>1, QuotientUnique
<1> QED
    BY <1>4, <1>5, <1>8, <1>9

\* A field that holds the bytes of a number reads as that number.
LEMMA FieldReads ==
    ASSUME NEW w \in Nat, NEW n \in Uint(w), NEW s, NEW k \in Nat,
           \A i \in 1..w : s[k + i] = BigEndian(n, w)[i]
    PROVE  Field(s, k, w) = n
<1> DEFINE b == BigEndian(n, w)
           t == SubSeq(s, k + 1, k + w)
<1>1. b \in Seq(Byte) /\ Len(b) = w /\ Number(b) = n
    BY BytesOfNumber
<1>2. \A i \in 1..w : b[i] \in Byte
    BY <1>1, ElementOfSeq
<1>3. ASSUME NEW i \in (k + 1)..(k + w) PROVE s[i] \in Byte
  <2>1. i - k \in 1..w /\ k + (i - k) = i
      OBVIOUS
  <2>2. s[k + (i - k)] = b[i - k]
      BY <2>1
  <2> QED
      BY <1>2, <2>1, <2>2
<1>4. t \in Seq(Byte) /\ Len(t) = w /\ \A i \in 1..w : t[i] = s[k + i]
  <2>1. k + 1 \in Int /\ k + w \in Int /\ (k + w) - (k + 1) + 1 = w
        /\ (IF k + 1 <= k + w THEN (k + w) - (k + 1) + 1 ELSE 0) = w
        /\ \A i \in 1..w : (k + 1) + i - 1 = k + i
      OBVIOUS
  <2>2. /\ t \in Seq(Byte)
        /\ Len(t) = IF k + 1 <= k + w THEN (k + w) - (k + 1) + 1 ELSE 0
        /\ \A i \in 1..((k + w) - (k + 1) + 1) : t[i] = s[(k + 1) + i - 1]
      BY <1>3, <2>1, SubSeqProperties
  <2> HIDE DEF t
  <2> QED
      BY <2>1, <2>2
<1>5. t = b
  <2> HIDE DEF t, b
  <2>1. \A i \in 1..Len(t) : t[i] = b[i]
      BY <1>1, <1>4 DEF b
  <2> QED
      BY <1>1, <1>4, <2>1, SeqEqual
<1> QED
    BY <1>1, <1>5 DEF Field

------------------------------------------------------------------------------
(* One frame on the wire *)

\* The widths of a header's fields.
LEMMA WidthFacts ==
    /\ ID_WIDTH \in Nat \ {0} /\ SEQ_WIDTH \in Nat \ {0} /\ LEN_WIDTH \in Nat \ {0}
    /\ RADIX \in Nat \ {0, 1} /\ HEADER_LEN \in Nat \ {0}
    /\ HEADER_LEN = ID_WIDTH + SEQ_WIDTH + 1 + LEN_WIDTH
    /\ MAX_PAYLOAD \in Nat /\ Uint(LEN_WIDTH) = 0..MAX_PAYLOAD
BY WidthAssumption, PowerFacts DEF HEADER_LEN, MAX_PAYLOAD, Uint

\* Where the parts of a frame are.
LEMMA EncodedFacts ==
    ASSUME NEW f \in FrameType, Encodable(f)
    PROVE  /\ Len(f.payload) \in Uint(LEN_WIDTH)
           /\ encode_into(f) \in Seq(Byte)
           /\ Len(encode_into(f)) = HEADER_LEN + Len(f.payload)
           /\ \A i \in 1..ID_WIDTH : encode_into(f)[i] = BigEndian(f.conn_id, ID_WIDTH)[i]
           /\ \A i \in 1..SEQ_WIDTH :
                 encode_into(f)[ID_WIDTH + i] = BigEndian(f.seq, SEQ_WIDTH)[i]
           /\ encode_into(f)[ID_WIDTH + SEQ_WIDTH + 1] = f.flags
           /\ \A i \in 1..LEN_WIDTH : encode_into(f)[ID_WIDTH + SEQ_WIDTH + 1 + i]
                                         = BigEndian(Len(f.payload), LEN_WIDTH)[i]
           /\ \A i \in 1..Len(f.payload) : encode_into(f)[HEADER_LEN + i] = f.payload[i]
<1> DEFINE a == BigEndian(f.conn_id, ID_WIDTH)
           b == BigEndian(f.seq, SEQ_WIDTH)
           c == <<f.flags>>
           d == BigEndian(Len(f.payload), LEN_WIDTH)
           p == f.payload
           ab == a \o b
           abc == ab \o c
           abcd == abc \o d
           e == abcd \o p
<1>1. f.conn_id \in Uint(ID_WIDTH) /\ f.seq \in Uint(SEQ_WIDTH) /\ f.flags \in Byte
      /\ p \in Seq(Byte)
    BY DEF FrameType
<1>2. Len(p) \in Uint(LEN_WIDTH) /\ Len(p) \in Nat
    BY <1>1, WidthFacts, LenProperties DEF Encodable
<1>3. a \in Seq(Byte) /\ Len(a) = ID_WIDTH
    BY <1>1, WidthFacts, BytesOfNumber
<1>4. b \in Seq(Byte) /\ Len(b) = SEQ_WIDTH
    BY <1>1, WidthFacts, BytesOfNumber
<1>5. d \in Seq(Byte) /\ Len(d) = LEN_WIDTH
    BY <1>2, WidthFacts, BytesOfNumber
<1>6. c \in Seq(Byte) /\ Len(c) = 1 /\ c[1] = f.flags
    BY <1>1
<1>7. encode_into(f) = e
    BY DEF encode_into
<1> HIDE DEF a, b, c, d, p
<1>8. ab \in Seq(Byte) /\ Len(ab) = ID_WIDTH + SEQ_WIDTH
      /\ \A i \in 1..(ID_WIDTH + SEQ_WIDTH) :
            ab[i] = IF i <= ID_WIDTH THEN a[i] ELSE b[i - ID_WIDTH]
    BY <1>3, <1>4, ConcatProperties
<1> HIDE DEF ab
<1>9. abc \in Seq(Byte) /\ Len(abc) = ID_WIDTH + SEQ_WIDTH + 1
      /\ \A i \in 1..(ID_WIDTH + SEQ_WIDTH + 1) :
            abc[i] = IF i <= ID_WIDTH + SEQ_WIDTH THEN ab[i]
                     ELSE c[i - (ID_WIDTH + SEQ_WIDTH)]
  <2>1. \A i \in 1..Len(ab) + Len(c) : abc[i] = IF i <= Len(ab) THEN ab[i] ELSE c[i - Len(ab)]
      BY <1>6, <1>8, ConcatProperties
  <2>2. abc \in Seq(Byte) /\ Len(abc) = Len(ab) + Len(c)
      BY <1>6, <1>8, ConcatProperties
  <2> HIDE DEF abc
  <2> QED
      BY <1>6, <1>8, <2>1, <2>2, WidthFacts
<1> HIDE DEF abc
<1>10. abcd \in Seq(Byte) /\ Len(abcd) = HEADER_LEN
      /\ \A i \in 1..HEADER_LEN :
            abcd[i] = IF i <= ID_WIDTH + SEQ_WIDTH + 1 THEN abc[i]
                      ELSE d[i - (ID_WIDTH + SEQ_WIDTH + 1)]
  <2>1. \A i \in 1..Len(abc) + Len(d) : abcd[i] = IF i <= Len(abc) THEN abc[i] ELSE d[i - Len(abc)]
      BY <1>5, <1>9, ConcatProperties
  <2>2. abcd \in Seq(Byte) /\ Len(abcd) = Len(abc) + Len(d)
      BY <1>5, <1>9, ConcatProperties
  <2> HIDE DEF abcd
  <2> QED
      BY <1>5, <1>9, <2>1, <2>2, WidthFacts
<1> HIDE DEF abcd
<1>11. e \in Seq(Byte) /\ Len(e) = HEADER_LEN + Len(p)
      /\ \A i \in 1..(HEADER_LEN + Len(p)) :
            e[i] = IF i <= HEADER_LEN THEN abcd[i] ELSE p[i - HEADER_LEN]
    BY <1>1, <1>10, ConcatProperties DEF p
<1> HIDE DEF e
<1>12. \A i \in 1..ID_WIDTH : e[i] = a[i]
    BY <1>2, <1>8, <1>9, <1>10, <1>11, WidthFacts
<1>13. \A i \in 1..SEQ_WIDTH : e[ID_WIDTH + i] = b[i]
    BY <1>2, <1>8, <1>9, <1>10, <1>11, WidthFacts
<1>14. e[ID_WIDTH + SEQ_WIDTH + 1] = f.flags
  <2> DEFINE k == ID_WIDTH + SEQ_WIDTH + 1
  <2>1. k \in 1..k /\ k <= HEADER_LEN /\ k \in 1..HEADER_LEN /\ k \in 1..(HEADER_LEN + Len(p))
        /\ ~(k <= ID_WIDTH + SEQ_WIDTH) /\ k - (ID_WIDTH + SEQ_WIDTH) = 1
      BY <1>2, WidthFacts
  <2>2. e[k] = abcd[k]
      BY <1>11, <2>1
  <2>3. abcd[k] = abc[k]
      BY <1>10, <2>1, WidthFacts
  <2>4. abc[k] = c[1]
      BY <1>9, <2>1
  <2> QED
      BY <1>6, <2>2, <2>3, <2>4
<1>15. \A i \in 1..LEN_WIDTH : e[ID_WIDTH + SEQ_WIDTH + 1 + i] = d[i]
    BY <1>2, <1>10, <1>11, WidthFacts
<1>16. \A i \in 1..Len(p) : e[HEADER_LEN + i] = p[i]
    BY <1>2, <1>11, WidthFacts
<1> QED
    BY <1>2, <1>7, <1>11, <1>12, <1>13, <1>14, <1>15, <1>16 DEF a, b, d, p

\* As far as s goes it is what a frame is encoded to, or goes on behind it.
Begins(s, f) ==
    \A j \in 1..Len(encode_into(f)) : j <= Len(s) => s[j] = encode_into(f)[j]

\* The decoder finds such a frame exactly when it is there to its last byte,
\* and finds that frame.
LEMMA FrameIsFound ==
    ASSUME NEW f \in FrameType, Encodable(f), NEW s \in Seq(Byte), Begins(s, f)
    PROVE  /\ Len(s) >= HEADER_LEN => payload_len(s) = Len(f.payload)
           /\ HasFrame(s) <=> Len(s) >= Len(encode_into(f))
           /\ HasFrame(s) => FirstFrame(s) = f
<1> DEFINE e == encode_into(f)
           n == Len(f.payload)
<1>1. n \in Uint(LEN_WIDTH) /\ n \in Nat /\ Len(s) \in Nat /\ Len(e) = HEADER_LEN + n
    BY EncodedFacts, LenProperties, WidthFacts
<1>2. \A j \in 1..(HEADER_LEN + n) : j <= Len(s) => s[j] = e[j]
    BY <1>1 DEF Begins
<1>3. /\ \A i \in 1..ID_WIDTH : e[i] = BigEndian(f.conn_id, ID_WIDTH)[i]
      /\ \A i \in 1..SEQ_WIDTH : e[ID_WIDTH + i] = BigEndian(f.seq, SEQ_WIDTH)[i]
      /\ e[ID_WIDTH + SEQ_WIDTH + 1] = f.flags
      /\ \A i \in 1..LEN_WIDTH :
            e[ID_WIDTH + SEQ_WIDTH + 1 + i] = BigEndian(n, LEN_WIDTH)[i]
      /\ \A i \in 1..n : e[HEADER_LEN + i] = f.payload[i]
    BY EncodedFacts
<1>4. n = Len(f.payload) /\ e = encode_into(f)
    OBVIOUS
<1> HIDE DEF n, e
<1>5. f.conn_id \in Uint(ID_WIDTH) /\ f.seq \in Uint(SEQ_WIDTH) /\ f.payload \in Seq(Byte)
    BY DEF FrameType
<1>6. ASSUME Len(s) >= HEADER_LEN PROVE payload_len(s) = n
  <2>1. HEADER_LEN - LEN_WIDTH = ID_WIDTH + SEQ_WIDTH + 1 /\ HEADER_LEN - LEN_WIDTH \in Nat
      BY WidthFacts
  <2>2. ASSUME NEW i \in 1..LEN_WIDTH
        PROVE  s[(HEADER_LEN - LEN_WIDTH) + i] = BigEndian(n, LEN_WIDTH)[i]
    <3>1. e[ID_WIDTH + SEQ_WIDTH + 1 + i] = BigEndian(n, LEN_WIDTH)[i]
        BY <1>3
    <3>2. ID_WIDTH + SEQ_WIDTH + 1 + i \in 1..(HEADER_LEN + n)
          /\ ID_WIDTH + SEQ_WIDTH + 1 + i <= Len(s)
        BY <1>1, <1>6, WidthFacts
    <3>3. s[ID_WIDTH + SEQ_WIDTH + 1 + i] = e[ID_WIDTH + SEQ_WIDTH + 1 + i]
        BY <1>2, <3>2
    <3> QED
        BY <2>1, <3>1, <3>3
  <2>3. Field(s, HEADER_LEN - LEN_WIDTH, LEN_WIDTH) = n
      BY <1>1, <2>1, <2>2, FieldReads, WidthFacts
  <2> QED
      BY <2>3 DEF payload_len
<1>7. HasFrame(s) <=> Len(s) >= HEADER_LEN + n
  <2> QED
      BY <1>1, <1>6, WidthFacts DEF HasFrame
<1>8. ASSUME HasFrame(s) PROVE FirstFrame(s) = f
  <2>1. Len(s) >= HEADER_LEN + n /\ Len(s) >= HEADER_LEN /\ payload_len(s) = n
      BY <1>1, <1>6, <1>7, <1>8, WidthFacts
  <2>2. Field(s, 0, ID_WIDTH) = f.conn_id
    <3>1. ASSUME NEW i \in 1..ID_WIDTH PROVE s[0 + i] = BigEndian(f.conn_id, ID_WIDTH)[i]
      <4>1. 0 + i = i /\ i \in 1..(HEADER_LEN + n) /\ i <= Len(s)
          BY <1>1, <2>1, WidthFacts
      <4> QED
          BY <1>2, <4>1, <1>3
    <3>2. ID_WIDTH \in Nat /\ 0 \in Nat
        BY WidthFacts
    <3> QED
        BY <1>5, <3>1, <3>2, FieldReads, Zenon
  <2>3. Field(s, ID_WIDTH, SEQ_WIDTH) = f.seq
    <3>1. ASSUME NEW i \in 1..SEQ_WIDTH
          PROVE  s[ID_WIDTH + i] = BigEndian(f.seq, SEQ_WIDTH)[i]
      <4>1. ID_WIDTH + i \in 1..(HEADER_LEN + n) /\ ID_WIDTH + i <= Len(s)
          BY <1>1, <2>1, WidthFacts
      <4> QED
          BY <1>2, <4>1, <1>3
    <3>2. ID_WIDTH \in Nat /\ SEQ_WIDTH \in Nat
        BY WidthFacts
    <3> QED
        BY <1>5, <3>1, <3>2, FieldReads, Zenon
  <2>4. s[ID_WIDTH + SEQ_WIDTH + 1] = f.flags
    <3>1. ID_WIDTH + SEQ_WIDTH + 1 \in 1..(HEADER_LEN + n)
          /\ ID_WIDTH + SEQ_WIDTH + 1 <= Len(s)
        BY <1>1, <2>1, WidthFacts
    <3> QED
        BY <1>2, <3>1, <1>3
  <2>5. SubSeq(s, HEADER_LEN + 1, HEADER_LEN + n) = f.payload
    <3> DEFINE t == SubSeq(s, HEADER_LEN + 1, HEADER_LEN + n)
    <3>1. ASSUME NEW i \in (HEADER_LEN + 1)..(HEADER_LEN + n) PROVE s[i] \in Byte
        BY <1>1, <2>1, ElementOfSeq, WidthFacts
    <3>2. HEADER_LEN + 1 \in Int /\ HEADER_LEN + n \in Int
          /\ (HEADER_LEN + n) - (HEADER_LEN + 1) + 1 = n
          /\ (IF HEADER_LEN + 1 <= HEADER_LEN + n
                THEN (HEADER_LEN + n) - (HEADER_LEN + 1) + 1 ELSE 0) = n
          /\ \A i \in 1..n : (HEADER_LEN + 1) + i - 1 = HEADER_LEN + i
        BY <1>1, WidthFacts
    <3>3. /\ t \in Seq(Byte)
          /\ Len(t) = IF HEADER_LEN + 1 <= HEADER_LEN + n
                        THEN (HEADER_LEN + n) - (HEADER_LEN + 1) + 1 ELSE 0
          /\ \A i \in 1..((HEADER_LEN + n) - (HEADER_LEN + 1) + 1) :
                t[i] = s[(HEADER_LEN + 1) + i - 1]
        BY <3>1, <3>2, SubSeqProperties
    <3> HIDE DEF t
    <3>4. ASSUME NEW i \in 1..n PROVE t[i] = f.payload[i]
      <4>1. t[i] = s[HEADER_LEN + i]
          BY <3>2, <3>3
      <4>2. HEADER_LEN + i \in 1..(HEADER_LEN + n) /\ HEADER_LEN + i <= Len(s)
          BY <1>1, <2>1, WidthFacts
      <4> QED
          BY <1>2, <4>1, <4>2, <1>3
    <3> QED
        BY <1>5, <1>4, <3>2, <3>3, <3>4, SeqEqual DEF t
  <2>6. FirstFrame(s) = Frame(f.conn_id, f.seq, f.flags, f.payload)
      BY <2>1, <2>2, <2>3, <2>4, <2>5 DEF FirstFrame
  <2> QED
      BY <2>6 DEF Frame, FrameType
<1> QED
    BY <1>1, <1>6, <1>7, <1>8, <1>4

------------------------------------------------------------------------------
(* The size of a sequence of frames *)

SizeUpTo(s) ==
    CHOOSE p : p = [i \in 0..Len(s) |->
                       IF i = 0 THEN 0 ELSE p[i - 1] + HEADER_LEN + Len(s[i].payload)]

\* The function behind SizeOf is the one its equation asks for.
LEMMA SizeIs ==
    ASSUME NEW s \in Seq(FrameType)
    PROVE  \E g \in [0..Len(s) -> Nat] :
              /\ g[0] = 0
              /\ \A i \in 1..Len(s) : g[i] = g[i - 1] + HEADER_LEN + Len(s[i].payload)
              /\ SizeOf(s) = g[Len(s)]
<1> DEFINE k == Len(s)
           step == [i \in 1..k |-> [x \in Nat |-> x + HEADER_LEN + Len(s[i].payload)]]
           Eqn(p) == p = [i \in 0..k |->
                             IF i = 0 THEN 0 ELSE p[i - 1] + HEADER_LEN + Len(s[i].payload)]
           P == SizeUpTo(s)
<1>1. k \in Nat /\ \A i \in 1..k : Len(s[i].payload) \in Nat
  <2>1. k \in Nat
      BY LenProperties
  <2>2. ASSUME NEW i \in 1..k PROVE Len(s[i].payload) \in Nat
    <3>1. s[i] \in FrameType
        BY ElementOfSeq
    <3>2. s[i].payload \in Seq(Byte)
        BY <3>1 DEF FrameType
    <3> QED
        BY <3>2, LenProperties
  <2> QED
      BY <2>1, <2>2
<1>3. SizeOf(s) = P[k]
    BY DEF SizeOf, SizeUpTo
<1> HIDE DEF k
<1>4. step \in [1..k -> [Nat -> Nat]]
  <2>1. ASSUME NEW i \in 1..k, NEW x \in Nat
        PROVE  x + HEADER_LEN + Len(s[i].payload) \in Nat
    <3>1. HEADER_LEN \in Nat
        BY WidthFacts
    <3> DEFINE m == Len(s[i].payload)
               h == HEADER_LEN
    <3>2. m \in Nat
        BY <1>1
    <3> HIDE DEF m, h
    <3>3. h \in Nat
        BY <3>1 DEF h
    <3>4. x + h + m \in Nat
        BY <3>2, <3>3
    <3> QED
        BY <3>4 DEF m, h
  <2> QED
      BY <2>1
<1>5. PICK g \in [0..k -> Nat] : Follows(g, k, 0, step)
  <2>1. 0 \in Nat
      OBVIOUS
  <2> HIDE DEF step
  <2> QED
      BY <1>1, <1>4, <2>1, RecursionExists
<1>6. g[0] = 0
    BY <1>5 DEF Follows
<1>7. ASSUME NEW i \in 1..k PROVE g[i] = g[i - 1] + HEADER_LEN + Len(s[i].payload)
  <2>1. i - 1 \in 0..k
      BY <1>1
  <2>2. g[i - 1] \in Nat
      BY <2>1
  <2> QED
      BY <1>5, <2>2 DEF Follows
<1>8. Eqn(g)
  <2>1. ASSUME NEW i \in 0..k
        PROVE  g[i] = IF i = 0 THEN 0 ELSE g[i - 1] + HEADER_LEN + Len(s[i].payload)
    <3>1. i # 0 => i \in 1..k
        BY <1>1
    <3> QED
        BY <1>6, <1>7, <3>1
  <2>2. g = [i \in 0..k |-> g[i]]
      OBVIOUS
  <2> QED
      BY <2>1, <2>2, Zenon
<1>9. Eqn(P)
    BY <1>8, Zenon DEF SizeUpTo, k
<1> HIDE DEF P
<1>10. P[0] = 0 /\ \A i \in 1..k : P[i] = P[i - 1] + HEADER_LEN + Len(s[i].payload)
  <2>1. \A i \in 0..k :
            P[i] = IF i = 0 THEN 0 ELSE P[i - 1] + HEADER_LEN + Len(s[i].payload)
      BY <1>9, Zenon
  <2>2. 0 \in 0..k /\ \A i \in 1..k : i \in 0..k /\ i # 0
      BY <1>1
  <2> QED
      BY <2>1, <2>2, Zenon
<1>11. P[k] = g[k]
  <2>1. P[0] = g[0] /\ \A i \in 1..k : P[i - 1] = g[i - 1] => P[i] = g[i]
      BY <1>6, <1>7, <1>10
  <2>2. Agree(P, g, k)
      BY <2>1 DEF Agree
  <2>3. \A i \in 0..k : P[i] = g[i]
      BY <1>1, <2>2, RecursionUnique
  <2> QED
      BY <1>1, <2>3
<1> QED
    BY <1>3, <1>6, <1>7, <1>11 DEF k

\* The bytes of a sequence of frames, one frame more at a time.
LEMMA SizeFacts ==
    /\ SizeOf(<<>>) = 0
    /\ \A s \in Seq(FrameType) : SizeOf(s) \in Nat
    /\ \A s \in Seq(FrameType), f \in FrameType :
          SizeOf(Append(s, f)) = SizeOf(s) + HEADER_LEN + Len(f.payload)
<1>1. SizeOf(<<>>) = 0
    BY SizeIs, EmptySeq
<1>2. ASSUME NEW s \in Seq(FrameType), NEW f \in FrameType
      PROVE  SizeOf(s) \in Nat /\ SizeOf(Append(s, f)) = SizeOf(s) + HEADER_LEN + Len(f.payload)
  <2> DEFINE t == Append(s, f)
             n == Len(s)
  <2>1. t \in Seq(FrameType) /\ n \in Nat /\ Len(t) = n + 1 /\ t[n + 1] = f
        /\ \A i \in 1..n : t[i] = s[i]
      BY AppendFacts
  <2> HIDE DEF t
  <2>2. PICK g \in [0..n -> Nat] :
            /\ g[0] = 0
            /\ \A i \in 1..n : g[i] = g[i - 1] + HEADER_LEN + Len(s[i].payload)
            /\ SizeOf(s) = g[n]
      BY SizeIs
  <2>3. PICK h \in [0..(n + 1) -> Nat] :
            /\ h[0] = 0
            /\ \A i \in 1..(n + 1) : h[i] = h[i - 1] + HEADER_LEN + Len(t[i].payload)
            /\ SizeOf(t) = h[n + 1]
      BY <2>1, SizeIs
  <2> HIDE DEF n
  <2>4. ASSUME NEW i \in 1..n, g[i - 1] = h[i - 1] PROVE g[i] = h[i]
    <3>1. i \in 1..(n + 1) /\ t[i] = s[i]
        BY <2>1
    <3> QED
        BY <2>2, <2>3, <2>4, <3>1
  <2>5. Agree(g, h, n)
      BY <2>2, <2>3, <2>4 DEF Agree
  <2>6. g[n] = h[n]
    <3>0. n \in Nat
        BY <2>1
    <3>1. \A i \in 0..n : g[i] = h[i]
        BY <3>0, <2>5, RecursionUnique, Zenon
    <3> QED
        BY <2>1, <3>1
  <2>7. h[n + 1] = h[n] + HEADER_LEN + Len(f.payload)
    <3>1. n + 1 \in 1..(n + 1) /\ (n + 1) - 1 = n
        BY <2>1
    <3>2. h[n + 1] = h[(n + 1) - 1] + HEADER_LEN + Len(t[n + 1].payload)
        BY <2>3, <3>1
    <3> QED
        BY <2>1, <3>1, <3>2
  <2>8. g[n] \in Nat
      BY <2>1
  <2> QED
      BY <2>2, <2>3, <2>6, <2>7, <2>8 DEF t
<1>3. ASSUME NEW s \in Seq(FrameType) PROVE SizeOf(s) \in Nat
  <2>1. PICK g \in [0..Len(s) -> Nat] : SizeOf(s) = g[Len(s)]
      BY SizeIs
  <2>2. Len(s) \in 0..Len(s)
      BY LenProperties
  <2> QED
      BY <2>1, <2>2
<1> QED
    BY <1>1, <1>2, <1>3

\* Two sequences joined, and a piece cut out of one.
LEMMA JoinFacts ==
    ASSUME NEW S, NEW s \in Seq(S), NEW t \in Seq(S)
    PROVE  /\ s \o t \in Seq(S) /\ Len(s) \in Nat /\ Len(t) \in Nat
           /\ Len(s \o t) = Len(s) + Len(t)
           /\ \A p \in 1..Len(s) : (s \o t)[p] = s[p]
           /\ \A p \in 1..Len(t) : (s \o t)[Len(s) + p] = t[p]
<1> DEFINE u == s \o t
           m == Len(s)
           n == Len(t)
<1>1. m \in Nat /\ n \in Nat
    BY LenProperties
<1>2. u \in Seq(S) /\ Len(u) = m + n
      /\ \A i \in 1..(m + n) : u[i] = IF i <= m THEN s[i] ELSE t[i - m]
    BY ConcatProperties
<1> HIDE DEF u, m, n
<1>3. \A p \in 1..m : u[p] = s[p]
    BY <1>1, <1>2
<1>4. ASSUME NEW p \in 1..n PROVE u[m + p] = t[p]
  <2>1. m + p \in 1..(m + n) /\ ~(m + p <= m) /\ (m + p) - m = p
      BY <1>1
  <2> QED
      BY <1>2, <2>1
<1> QED
    BY <1>1, <1>2, <1>3, <1>4 DEF u, m, n

\* The elements of a piece of a sequence.
LEMMA PieceFacts ==
    ASSUME NEW S, NEW s \in Seq(S), NEW a \in Nat, NEW b \in Nat, a <= b, b <= Len(s)
    PROVE  /\ SubSeq(s, a + 1, b) \in Seq(S) /\ Len(SubSeq(s, a + 1, b)) = b - a
           /\ \A i \in 1..(b - a) : SubSeq(s, a + 1, b)[i] = s[a + i]
<1> DEFINE t == SubSeq(s, a + 1, b)
<1>1. Len(s) \in Nat
    BY LenProperties
<1>2. \A i \in (a + 1)..b : s[i] \in S
  <2>1. \A i \in (a + 1)..b : i \in 1..Len(s)
      BY <1>1
  <2> QED
      BY <2>1, ElementOfSeq
<1>3. a + 1 \in Int /\ b \in Int
    OBVIOUS
<1>4. /\ t \in Seq(S) /\ Len(t) = IF a + 1 <= b THEN b - (a + 1) + 1 ELSE 0
      /\ \A i \in 1..(b - (a + 1) + 1) : t[i] = s[(a + 1) + i - 1]
    BY <1>2, <1>3, SubSeqProperties
<1>5. /\ (IF a + 1 <= b THEN b - (a + 1) + 1 ELSE 0) = b - a /\ b - (a + 1) + 1 = b - a
      /\ \A i \in 1..(b - a) : (a + 1) + i - 1 = a + i
    OBVIOUS
<1> HIDE DEF t
<1>6. Len(t) = b - a /\ \A i \in 1..(b - a) : t[i] = s[a + i]
    BY <1>4, <1>5
<1> QED
    BY <1>4, <1>6 DEF t

\* Joining is associative.
LEMMA JoinJoin ==
    ASSUME NEW s \in Seq(Byte), NEW t \in Seq(Byte), NEW u \in Seq(Byte)
    PROVE  (s \o t) \o u = s \o (t \o u)
BY ConcatAssociative

\* The first k elements.
LEMMA PrefixFacts ==
    ASSUME NEW S, NEW s \in Seq(S), NEW k \in 0..Len(s)
    PROVE  /\ SubSeq(s, 1, k) \in Seq(S) /\ Len(SubSeq(s, 1, k)) = k
           /\ \A i \in 1..k : SubSeq(s, 1, k)[i] = s[i]
<1>1. Len(s) \in Nat
    BY LenProperties
<1>2. k \in Nat /\ k <= Len(s) /\ 0 \in Nat /\ 0 <= k /\ 0 + 1 = 1 /\ k - 0 = k
      /\ \A i \in 1..k : 0 + i = i
    BY <1>1
<1>3. /\ SubSeq(s, 0 + 1, k) \in Seq(S) /\ Len(SubSeq(s, 0 + 1, k)) = k - 0
      /\ \A i \in 1..(k - 0) : SubSeq(s, 0 + 1, k)[i] = s[0 + i]
    BY <1>2, PieceFacts
<1> QED
    BY <1>2, <1>3

\* A prefix is the shorter one and its next element.
LEMMA PrefixGrows ==
    ASSUME NEW S, NEW s \in Seq(S), NEW k \in 1..Len(s)
    PROVE  SubSeq(s, 1, k) = Append(SubSeq(s, 1, k - 1), s[k])
<1> DEFINE t == SubSeq(s, 1, k)
           u == SubSeq(s, 1, k - 1)
<1>1. k \in 0..Len(s) /\ k - 1 \in 0..Len(s) /\ s[k] \in S
    BY LenProperties, ElementOfSeq
<1>2. t \in Seq(S) /\ Len(t) = k /\ \A i \in 1..k : t[i] = s[i]
    BY <1>1, PrefixFacts
<1>3. u \in Seq(S) /\ Len(u) = k - 1 /\ \A i \in 1..(k - 1) : u[i] = s[i]
    BY <1>1, PrefixFacts
<1> HIDE DEF t, u
<1>4. /\ Append(u, s[k]) \in Seq(S) /\ Len(Append(u, s[k])) = k
      /\ \A i \in 1..(k - 1) : Append(u, s[k])[i] = u[i]
      /\ Append(u, s[k])[k] = s[k]
    BY <1>1, <1>3, AppendFacts
<1>5. \A i \in 1..k : t[i] = Append(u, s[k])[i]
    BY <1>1, <1>2, <1>3, <1>4
<1> QED
    BY <1>2, <1>4, <1>5, SeqEqual DEF t, u

\* A prefix does not change when the sequence grows.
LEMMA PrefixKept ==
    ASSUME NEW S, NEW s \in Seq(S), NEW x \in S, NEW k \in 0..Len(s)
    PROVE  SubSeq(Append(s, x), 1, k) = SubSeq(s, 1, k)
<1> DEFINE a == Append(s, x)
           t == SubSeq(s, 1, k)
           u == SubSeq(a, 1, k)
<1>1. Len(s) \in Nat /\ a \in Seq(S) /\ Len(a) = Len(s) + 1 /\ \A i \in 1..Len(s) : a[i] = s[i]
    BY AppendFacts
<1>2. t \in Seq(S) /\ Len(t) = k /\ \A i \in 1..k : t[i] = s[i]
    BY PrefixFacts
<1> HIDE DEF a, t
<1>3. u \in Seq(S) /\ Len(u) = k /\ \A i \in 1..k : u[i] = a[i]
  <2>1. k \in 0..Len(a)
      BY <1>1
  <2> QED
      BY <1>1, <2>1, PrefixFacts
<1> HIDE DEF u
<1>4. \A i \in 1..k : u[i] = t[i]
    BY <1>1, <1>2, <1>3
<1>5. u = t
    BY <1>2, <1>3, <1>4, SeqEqual
<1> QED
    BY <1>5 DEF u, t, a

\* The bytes of the first k frames.
Offset(s, k) == SizeOf(SubSeq(s, 1, k))

\* Where the frames of a stream start.
LEMMA OffsetFacts ==
    ASSUME NEW s \in Seq(FrameType)
    PROVE  /\ Offset(s, 0) = 0 /\ Offset(s, Len(s)) = SizeOf(s)
           /\ \A k \in 0..Len(s) : Offset(s, k) \in Nat
           /\ \A k \in 1..Len(s) :
                 Offset(s, k) = Offset(s, k - 1) + HEADER_LEN + Len(s[k].payload)
           /\ \A f \in FrameType : \A k \in 0..Len(s) : Offset(Append(s, f), k) = Offset(s, k)
<1> DEFINE n == Len(s)
<1>1. n \in Nat /\ \A i \in 1..n : s[i] \in FrameType
    BY LenProperties, ElementOfSeq
<1>2. SubSeq(s, 1, 0) = <<>> /\ SubSeq(s, 1, n) = s
    BY SubSeqEmpty, SubSeqFull
<1>3. \A k \in 0..n : Offset(s, k) \in Nat
    BY PrefixFacts, SizeFacts DEF Offset
<1>4. ASSUME NEW k \in 1..n
      PROVE  Offset(s, k) = Offset(s, k - 1) + HEADER_LEN + Len(s[k].payload)
  <2>1. k - 1 \in 0..n /\ s[k] \in FrameType
      BY <1>1
  <2> DEFINE u == SubSeq(s, 1, k - 1)
  <2>2. u \in Seq(FrameType)
      BY <2>1, PrefixFacts
  <2>3. SubSeq(s, 1, k) = Append(u, s[k])
      BY PrefixGrows
  <2> HIDE DEF u
  <2>4. SizeOf(Append(u, s[k])) = SizeOf(u) + HEADER_LEN + Len(s[k].payload)
      BY <2>1, <2>2, SizeFacts
  <2> QED
      BY <2>3, <2>4 DEF Offset, u
<1>5. ASSUME NEW f \in FrameType, NEW k \in 0..n PROVE Offset(Append(s, f), k) = Offset(s, k)
    BY PrefixKept DEF Offset
<1> QED
    BY <1>2, <1>3, <1>4, <1>5, SizeFacts DEF Offset

------------------------------------------------------------------------------
(* The stream *)

TypeOK ==
    /\ sent \in Seq(Frames) /\ got \in Seq(FrameType)
    /\ wire \in Seq(Byte) /\ buf \in Seq(Byte)
    /\ open \in BOOLEAN /\ lost \in Nat /\ reset \in BOOLEAN
    /\ status \in {"ok", "eof", "error", "overflow"}

\* Every byte encoded has been decoded, waits in the buffer, is under way, or
\* was lost with the connection.
Accounted ==
    /\ SizeOf(got) + Len(buf) + Len(wire) + lost = SizeOf(sent)
    /\ open => lost = 0

\* The bytes in left follow the first base bytes of the encoding of s.
Continues(left, base, s) ==
    \A k \in 1..Len(s) : \A j \in 1..Len(encode_into(s[k])) : \A p \in 1..Len(left) :
        p + base = Offset(s, k - 1) + j => left[p] = encode_into(s[k])[j]

Ended ==
    status \in {"eof", "error"} =>
        /\ ~open /\ wire = <<>> /\ ~HasFrame(buf)
        /\ status = "eof" <=> (buf = <<>> /\ ~reset)

\* The inductive invariant of the codec.
CodecInv ==
    /\ TypeOK /\ StreamFaithful /\ Accounted
    /\ Continues(buf \o wire, SizeOf(got), sent)
    /\ Ended /\ status # "overflow"

\* No prefix is longer than the whole.
LEMMA OffsetBound ==
    ASSUME NEW s \in Seq(FrameType), NEW k \in 0..Len(s)
    PROVE  Offset(s, k) <= SizeOf(s)
<1> DEFINE n == Len(s)
           T == {i \in Nat : k <= i => Offset(s, k) <= Offset(s, i)}
<1>1. n \in Nat /\ k \in 0..n
    BY LenProperties
<1>2. \A i \in 0..n : Offset(s, i) \in Nat
    BY OffsetFacts
<1> HIDE DEF n
<1>3. 0 \in T
    BY <1>1, <1>2
<1>4. ASSUME NEW i \in 1..n, i - 1 \in T PROVE i \in T
  <2>1. i - 1 \in 0..n /\ i \in 0..n
      BY <1>1
  <2>2. Offset(s, i) >= Offset(s, i - 1)
    <3>1. s[i] \in FrameType
        BY ElementOfSeq DEF n
    <3>2. s[i].payload \in Seq(Byte)
        BY <3>1 DEF FrameType
    <3>3. Len(s[i].payload) \in Nat
        BY <3>2, LenProperties
    <3>4. HEADER_LEN \in Nat
        BY WidthFacts
    <3>5. Offset(s, i) = Offset(s, i - 1) + HEADER_LEN + Len(s[i].payload)
        BY OffsetFacts DEF n
    <3>6. Offset(s, i - 1) \in Nat
        BY <1>2, <2>1
    <3> DEFINE x == Offset(s, i - 1)
               y == Len(s[i].payload)
               h == HEADER_LEN
    <3> HIDE DEF x, y, h
    <3>7. x \in Nat /\ y \in Nat /\ h \in Nat
        BY <3>3, <3>4, <3>6 DEF x, y, h
    <3>8. x + h + y >= x
        BY <3>7
    <3> QED
        BY <3>5, <3>8 DEF x, y, h
  <2>3. Offset(s, k) \in Nat /\ Offset(s, i) \in Nat /\ Offset(s, i - 1) \in Nat
      BY <1>1, <1>2, <2>1
  <2>4. k <= i - 1 => Offset(s, k) <= Offset(s, i - 1)
      BY <1>4
  <2>5. CASE k <= i - 1
      BY <2>1, <2>2, <2>3, <2>4, <2>5
  <2>6. CASE k = i
      BY <2>1, <2>3, <2>6
  <2>7. CASE k > i
      BY <1>1, <2>1, <2>7
  <2> QED
      BY <1>1, <2>1, <2>5, <2>6, <2>7
<1>5. n \in T
  <2> HIDE DEF T
  <2>1. \A i \in 0..n : i \in T
      BY <1>1, <1>3, <1>4, UpTo
  <2> QED
      BY <1>1, <2>1
<1>6. Offset(s, n) = SizeOf(s)
    BY OffsetFacts DEF n
<1> QED
    BY <1>1, <1>5, <1>6

\* What is sent and encoded.
LEMMA SentFacts ==
    ASSUME TypeOK
    PROVE  /\ sent \in Seq(FrameType) /\ Len(sent) \in Nat
           /\ \A k \in 1..Len(sent) : sent[k] \in FrameType /\ Encodable(sent[k])
           /\ \A k \in 1..Len(sent) :
                 /\ Len(encode_into(sent[k])) = HEADER_LEN + Len(sent[k].payload)
                 /\ Len(encode_into(sent[k])) \in Nat \ {0}
                 /\ Offset(sent, k) = Offset(sent, k - 1) + Len(encode_into(sent[k]))
                 /\ Offset(sent, k - 1) \in Nat
<1>1. sent \in Seq(Frames) /\ Frames \subseteq FrameType /\ \A f \in Frames : Encodable(f)
    BY CodecAssumption DEF TypeOK
<1>2. Len(sent) \in Nat /\ \A k \in 1..Len(sent) : sent[k] \in Frames
    BY <1>1, LenProperties, ElementOfSeq
<1>3. sent \in Seq(FrameType)
    BY <1>1
<1>4. ASSUME NEW k \in 1..Len(sent)
      PROVE  /\ sent[k] \in FrameType /\ Encodable(sent[k])
             /\ Len(encode_into(sent[k])) = HEADER_LEN + Len(sent[k].payload)
             /\ Len(encode_into(sent[k])) \in Nat \ {0}
             /\ Offset(sent, k) = Offset(sent, k - 1) + Len(encode_into(sent[k]))
             /\ Offset(sent, k - 1) \in Nat
  <2>1. sent[k] \in FrameType /\ Encodable(sent[k])
      BY <1>1, <1>2
  <2>2. Len(encode_into(sent[k])) = HEADER_LEN + Len(sent[k].payload)
      BY <2>1, EncodedFacts
  <2>3. sent[k].payload \in Seq(Byte)
      BY <2>1 DEF FrameType
  <2> DEFINE h == HEADER_LEN
             y == Len(sent[k].payload)
             x == Offset(sent, k - 1)
  <2>4. y \in Nat
      BY <2>3, LenProperties
  <2>5. h \in Nat \ {0}
      BY WidthFacts
  <2>6. k - 1 \in 0..Len(sent)
      BY <1>2
  <2>7. x \in Nat
      BY <1>3, <2>6, OffsetFacts
  <2>8. Offset(sent, k) = x + h + y
      BY <1>3, OffsetFacts
  <2> HIDE DEF h, x, y
  <2>9. x + h + y = x + (h + y) /\ h + y \in Nat \ {0}
      BY <2>4, <2>5, <2>7
  <2> QED
      BY <2>1, <2>2, <2>7, <2>8, <2>9 DEF h, x, y
<1> QED
    BY <1>2, <1>3, <1>4

\* The frame to be decoded next, if one has been sent, is what the buffer begins
\* with; if none has, nothing is left.
LEMMA NextFrame ==
    ASSUME TypeOK, StreamFaithful, Accounted, Continues(buf \o wire, SizeOf(got), sent)
    PROVE  /\ SizeOf(got) \in Nat /\ SizeOf(got) = Offset(sent, Len(got))
           /\ Len(got) = Len(sent) => Len(buf) = 0 /\ Len(wire) = 0 /\ lost = 0
           /\ Len(got) < Len(sent) => Begins(buf, sent[Len(got) + 1])
<1> DEFINE b == SizeOf(got)
           n == Len(got)
<1>1. b \in Nat /\ n \in Nat /\ Len(buf) \in Nat /\ Len(wire) \in Nat /\ lost \in Nat
    BY SizeFacts, LenProperties DEF TypeOK
<1>2. b = Offset(sent, n)
    BY DEF StreamFaithful, Offset
<1>3. ASSUME n = Len(sent) PROVE Len(buf) = 0 /\ Len(wire) = 0 /\ lost = 0
  <2>1. SizeOf(sent) = b
      BY <1>2, <1>3, SentFacts, OffsetFacts
  <2> HIDE DEF b
  <2>2. b + Len(buf) + Len(wire) + lost = b
      BY <2>1 DEF Accounted, b
  <2> QED
      BY <1>1, <2>2
<1>4. ASSUME n < Len(sent) PROVE Begins(buf, sent[n + 1])
  <2> DEFINE e == encode_into(sent[n + 1])
  <2>1. n + 1 \in 1..Len(sent) /\ (n + 1) - 1 = n
      BY <1>1, <1>4, SentFacts
  <2>2. SUFFICES ASSUME NEW j \in 1..Len(e), j <= Len(buf) PROVE buf[j] = e[j]
      BY DEF Begins
  <2>3. Len(e) \in Nat
      BY <2>1, SentFacts
  <2>4. Len(buf \o wire) = Len(buf) + Len(wire) /\ j \in 1..Len(buf)
        /\ \A p \in 1..Len(buf) : (buf \o wire)[p] = buf[p]
    <3>1. j \in 1..Len(buf)
        BY <1>1, <2>2, <2>3
    <3> QED
        BY <3>1, JoinFacts DEF TypeOK
  <2>5. j \in 1..Len(buf \o wire) /\ (buf \o wire)[j] = buf[j]
      BY <1>1, <2>4
  <2>6. j + b = Offset(sent, (n + 1) - 1) + j
      BY <1>1, <1>2, <2>1
  <2>7. (buf \o wire)[j] = e[j]
      BY <2>1, <2>5, <2>6 DEF Continues
  <2> QED
      BY <2>5, <2>7
<1> QED
    BY <1>1, <1>2, <1>3, <1>4

\* Cutting the stream at both ends keeps the place of what is left.
LEMMA ContinuesCut ==
    ASSUME NEW left \in Seq(Byte), NEW rest \in Seq(Byte), NEW base \in Nat, NEW d \in Nat,
           NEW s, Continues(left, base, s), Len(rest) + d <= Len(left),
           \A p \in 1..Len(rest) : rest[p] = left[d + p]
    PROVE  Continues(rest, base + d, s)
<1> SUFFICES ASSUME NEW k \in 1..Len(s), NEW j \in 1..Len(encode_into(s[k])),
                    NEW p \in 1..Len(rest), p + (base + d) = Offset(s, k - 1) + j
             PROVE  rest[p] = encode_into(s[k])[j]
    BY DEF Continues
<1>1. Len(left) \in Nat /\ Len(rest) \in Nat
    BY LenProperties
<1>2. d + p \in 1..Len(left) /\ (d + p) + base = p + (base + d)
    BY <1>1
<1>3. (d + p) + base = Offset(s, k - 1) + j
    BY <1>2
<1>4. left[d + p] = encode_into(s[k])[j]
    BY <1>2, <1>3, Zenon DEF Continues
<1> QED
    BY <1>4

\* A frame written behind everything written before.
LEMMA ContinuesGrows ==
    ASSUME TypeOK, NEW left \in Seq(Byte), NEW base \in Nat, NEW f \in Frames,
           Continues(left, base, sent), base + Len(left) = SizeOf(sent)
    PROVE  Continues(left \o encode_into(f), base, Append(sent, f))
<1> DEFINE e == encode_into(f)
           grown == left \o e
           s == Append(sent, f)
           n == Len(sent)
           m == Len(left)
<1>1. f \in FrameType /\ Encodable(f)
    BY CodecAssumption
<1>2. e \in Seq(Byte)
    BY <1>1, EncodedFacts
<1>3. /\ m \in Nat /\ Len(e) \in Nat /\ Len(grown) = m + Len(e)
      /\ \A p \in 1..m : grown[p] = left[p]
      /\ \A p \in 1..Len(e) : grown[m + p] = e[p]
    BY <1>2, JoinFacts
<1>4. sent \in Seq(FrameType) /\ n \in Nat
    BY SentFacts
<1>5. Len(s) = n + 1 /\ s[n + 1] = f /\ \A k \in 1..n : s[k] = sent[k]
    BY <1>1, <1>4, AppendFacts
<1>6. \A k \in 0..n : Offset(s, k) = Offset(sent, k)
    BY <1>1, <1>4, OffsetFacts
<1>7. Offset(sent, n) = base + m
    BY <1>4, OffsetFacts
<1>8. \A k \in 1..n : Offset(sent, k) <= base + m
  <2>1. \A k \in 1..n : k \in 0..n
      BY <1>4
  <2> QED
      BY <1>4, <2>1, OffsetBound
<1> SUFFICES ASSUME NEW k \in 1..Len(s), NEW j \in 1..Len(encode_into(s[k])),
                    NEW p \in 1..Len(grown), p + base = Offset(s, k - 1) + j
             PROVE  grown[p] = encode_into(s[k])[j]
    BY DEF Continues
<1> HIDE DEF grown, s, n, m
<1>9. CASE k = n + 1
  <2>1. s[k] = f /\ Offset(s, k - 1) = base + m
    <3>1. k - 1 = n /\ n \in 0..n
        BY <1>4, <1>9
    <3> QED
        BY <1>5, <1>6, <1>7, <1>9, <3>1
  <2>2. j \in 1..Len(e) /\ p = m + j
      BY <1>3, <2>1
  <2> QED
      BY <1>3, <2>1, <2>2
<1>10. CASE k \in 1..n
  <2>1. s[k] = sent[k] /\ Offset(s, k - 1) = Offset(sent, k - 1)
    <3>1. k - 1 \in 0..n
        BY <1>4, <1>10
    <3> QED
        BY <1>5, <1>6, <1>10, <3>1
  <2> DEFINE c == Len(encode_into(sent[k]))
             x == Offset(sent, k - 1)
  <2>2. c \in Nat /\ x \in Nat /\ Offset(sent, k) = x + c
      BY <1>10, SentFacts DEF n
  <2>3. j \in 1..c /\ p + base = x + j
      BY <2>1
  <2>4. x + c <= base + m
      BY <1>8, <1>10, <2>2
  <2> HIDE DEF c, x
  <2>5. p \in 1..m
      BY <1>3, <2>2, <2>3, <2>4
  <2>6. left[p] = encode_into(sent[k])[j]
      BY <1>10, <2>3, <2>5 DEF Continues, c, x, n, m
  <2> QED
      BY <1>3, <2>1, <2>5, <2>6
<1>11. k = n + 1 \/ k \in 1..n
    BY <1>4, <1>5
<1> QED
    BY <1>9, <1>10, <1>11

\* Nothing was sent, read or decoded yet.
LEMMA CodecInvInit == Init => CodecInv
<1> SUFFICES ASSUME Init PROVE CodecInv
    OBVIOUS
<1>1. sent = <<>> /\ got = <<>> /\ wire = <<>> /\ buf = <<>> /\ open = TRUE /\ lost = 0
      /\ reset = FALSE /\ status = "ok"
    BY DEF Init
<1>2. TypeOK
    BY <1>1, EmptySeq DEF TypeOK
<1>3. StreamFaithful
  <2>1. Len(got) = 0 /\ Len(sent) = 0
      BY <1>1, EmptySeq
  <2>2. SubSeq(<<>>, 1, 0) = <<>>
      BY SubSeqEmpty
  <2> QED
      BY <1>1, <2>1, <2>2 DEF StreamFaithful
<1>4. Accounted
  <2>1. SizeOf(got) = 0 /\ SizeOf(sent) = 0 /\ Len(buf) = 0 /\ Len(wire) = 0
      BY <1>1, SizeFacts, EmptySeq
  <2> QED
      BY <1>1, <2>1 DEF Accounted
<1>5. Continues(buf \o wire, SizeOf(got), sent)
  <2>1. Len(sent) = 0
      BY <1>1, EmptySeq
  <2> QED
      BY <2>1 DEF Continues
<1> QED
    BY <1>1, <1>2, <1>3, <1>4, <1>5 DEF CodecInv, Ended

\* A frame sent goes to the end of the stream.
LEMMA CodecInvSend ==
    ASSUME CodecInv, NEW f \in Frames, Send(f)
    PROVE  CodecInv'
<1> USE DEF Send
<1> DEFINE e == encode_into(f)
<1>1. TypeOK /\ StreamFaithful /\ Accounted /\ Continues(buf \o wire, SizeOf(got), sent)
      /\ Ended /\ status # "overflow"
    BY DEF CodecInv
<1>2. sent \in Seq(FrameType) /\ Len(sent) \in Nat /\ f \in FrameType /\ Encodable(f)
    BY <1>1, SentFacts, CodecAssumption
<1>3. e \in Seq(Byte) /\ Len(e) = HEADER_LEN + Len(f.payload)
    BY <1>2, EncodedFacts
<1>4. wire' \in Seq(Byte) /\ Len(wire') = Len(wire) + Len(e) /\ Len(wire) \in Nat /\ Len(e) \in Nat
    BY <1>1, <1>3, JoinFacts DEF TypeOK
<1>5. TypeOK'
  <2>1. sent' \in Seq(Frames)
      BY <1>1, AppendFacts DEF TypeOK
  <2> QED
      BY <1>1, <1>4, <2>1 DEF TypeOK
<1>6. StreamFaithful'
  <2>1. Len(got) \in Nat
      BY <1>1, LenProperties DEF TypeOK
  <2>2. Len(got) \in 0..Len(sent)
      BY <1>1, <1>2, <2>1 DEF StreamFaithful
  <2>3. SubSeq(sent', 1, Len(got)) = SubSeq(sent, 1, Len(got)) /\ Len(sent') = Len(sent) + 1
      BY <1>2, <2>2, PrefixKept, AppendFacts
  <2>4. Len(got) <= Len(sent')
      BY <1>2, <2>2, <2>3
  <2> QED
      BY <1>1, <2>3, <2>4 DEF StreamFaithful
<1>7. SizeOf(sent') = SizeOf(sent) + Len(e)
  <2>1. SizeOf(sent') = SizeOf(sent) + HEADER_LEN + Len(f.payload)
      BY <1>2, SizeFacts
  <2>2. SizeOf(sent) \in Nat /\ HEADER_LEN \in Nat
      BY <1>2, SizeFacts, WidthFacts
  <2>3. Len(f.payload) \in Nat
    <3>1. f.payload \in Seq(Byte)
        BY <1>2 DEF FrameType
    <3> QED
        BY <3>1, LenProperties
  <2> DEFINE x == SizeOf(sent)
             h == HEADER_LEN
             y == Len(f.payload)
  <2>4. x \in Nat /\ h \in Nat /\ y \in Nat /\ SizeOf(sent') = x + h + y /\ Len(e) = h + y
      BY <1>3, <2>1, <2>2, <2>3
  <2> HIDE DEF x, h, y, e
  <2>5. SizeOf(sent') = x + Len(e)
      BY <2>4
  <2> QED
      BY <2>5 DEF x
<1>8. SizeOf(got) \in Nat /\ SizeOf(sent) \in Nat /\ Len(buf) \in Nat /\ lost = 0
    BY <1>1, <1>2, SizeFacts, LenProperties DEF TypeOK, Accounted
<1>9. SizeOf(got) + Len(buf) + Len(wire) = SizeOf(sent)
    BY <1>1, <1>4, <1>8 DEF Accounted
<1>10. Accounted'
  <2> DEFINE x == SizeOf(sent)
             g == SizeOf(got)
             c == Len(e)
             w == Len(wire)
             b == Len(buf)
  <2>1. x \in Nat /\ g \in Nat /\ c \in Nat /\ w \in Nat /\ b \in Nat /\ g + b + w = x
      BY <1>4, <1>8, <1>9
  <2>2. SizeOf(sent') = x + c /\ Len(wire') = w + c
      BY <1>4, <1>7
  <2> HIDE DEF x, g, c, w, b
  <2>3. g + b + (w + c) + 0 = x + c
      BY <2>1
  <2>4. SizeOf(got') + Len(buf') + Len(wire') + lost' = SizeOf(sent')
      BY <1>8, <2>2, <2>3 DEF g, b
  <2> QED
      BY <1>8, <2>4 DEF Accounted
<1>11. Continues(buf' \o wire', SizeOf(got'), sent')
  <2> DEFINE left == buf \o wire
  <2>1. left \in Seq(Byte) /\ Len(left) = Len(buf) + Len(wire)
      BY <1>1, JoinFacts DEF TypeOK
  <2>2. SizeOf(got) + Len(left) = SizeOf(sent)
      BY <1>4, <1>8, <1>9, <2>1
  <2>3. left \o e = buf \o (wire \o e)
    <3>1. buf \in Seq(Byte) /\ wire \in Seq(Byte) /\ e \in Seq(Byte)
        BY <1>1, <1>3 DEF TypeOK
    <3> HIDE DEF e
    <3> QED
        BY <3>1, JoinJoin
  <2>4. Continues(left, SizeOf(got), sent)
      BY <1>1
  <2> HIDE DEF left
  <2>5. Continues(left \o e, SizeOf(got), Append(sent, f))
      BY <1>1, <1>8, <2>1, <2>2, <2>4, ContinuesGrows
  <2> QED
      BY <2>3, <2>5
<1> QED
    BY <1>1, <1>5, <1>6, <1>10, <1>11 DEF CodecInv, Ended

\* A connection that ends loses the end of what is in flight.
LEMMA CodecInvClose ==
    ASSUME CodecInv, NEW n \in 0..Len(wire), Close(n)
    PROVE  CodecInv'
<1> USE DEF Close
<1>1. TypeOK /\ StreamFaithful /\ Accounted /\ Continues(buf \o wire, SizeOf(got), sent)
      /\ Ended /\ status # "overflow"
    BY DEF CodecInv
<1>2. buf \in Seq(Byte) /\ wire \in Seq(Byte) /\ Len(buf) \in Nat /\ Len(wire) \in Nat
    BY <1>1, LenProperties DEF TypeOK
<1>3. Len(wire) - n \in 0..Len(wire) /\ n \in Nat
    BY <1>2
<1>4. wire' \in Seq(Byte) /\ Len(wire') = Len(wire) - n
      /\ \A i \in 1..(Len(wire) - n) : wire'[i] = wire[i]
    BY <1>2, <1>3, PrefixFacts
<1>5. TypeOK'
    BY <1>1, <1>3, <1>4 DEF TypeOK
<1>6. SizeOf(got) \in Nat /\ SizeOf(sent) \in Nat /\ lost = 0
    BY <1>1, SentFacts, SizeFacts DEF TypeOK, Accounted
<1>7. Accounted'
  <2> DEFINE x == SizeOf(sent)
             g == SizeOf(got)
             w == Len(wire)
             b == Len(buf)
  <2>1. x \in Nat /\ g \in Nat /\ w \in Nat /\ b \in Nat /\ g + b + w + 0 = x
      BY <1>1, <1>2, <1>6 DEF Accounted
  <2>2. Len(wire') = w - n /\ n \in Nat
      BY <1>3, <1>4
  <2> HIDE DEF x, g, w, b
  <2>3. g + b + (w - n) + n = x
      BY <2>1, <2>2
  <2>4. SizeOf(got') + Len(buf') + Len(wire') + lost' = SizeOf(sent')
      BY <2>2, <2>3 DEF g, b, x
  <2> QED
      BY <2>4 DEF Accounted
<1>8. Continues(buf' \o wire', SizeOf(got'), sent')
  <2> DEFINE left == buf \o wire
             rest == buf \o wire'
  <2>1. /\ left \in Seq(Byte) /\ Len(left) = Len(buf) + Len(wire)
        /\ \A p \in 1..Len(buf) : left[p] = buf[p]
        /\ \A p \in 1..Len(wire) : left[Len(buf) + p] = wire[p]
      BY <1>2, JoinFacts
  <2>2. /\ rest \in Seq(Byte) /\ Len(rest) = Len(buf) + (Len(wire) - n)
        /\ \A p \in 1..Len(buf) : rest[p] = buf[p]
        /\ \A p \in 1..(Len(wire) - n) : rest[Len(buf) + p] = wire'[p]
    <3> DEFINE w == wire'
    <3>1. w \in Seq(Byte) /\ Len(w) = Len(wire) - n
        BY <1>4
    <3> HIDE DEF w
    <3>2. /\ buf \o w \in Seq(Byte) /\ Len(buf \o w) = Len(buf) + Len(w)
          /\ \A p \in 1..Len(buf) : (buf \o w)[p] = buf[p]
          /\ \A p \in 1..Len(w) : (buf \o w)[Len(buf) + p] = w[p]
      <4>1. buf \in Seq(Byte) /\ w \in Seq(Byte)
          BY <1>2, <3>1
      <4> QED
          BY <4>1, JoinFacts
    <3> QED
        BY <3>1, <3>2 DEF w
  <2>3. Continues(left, SizeOf(got), sent)
      BY <1>1
  <2> HIDE DEF left, rest
  <2>4. ASSUME NEW p \in 1..Len(rest) PROVE rest[p] = left[0 + p]
    <3>1. CASE p \in 1..Len(buf)
        BY <1>2, <2>1, <2>2, <3>1
    <3>2. CASE p \notin 1..Len(buf)
      <4>1. p - Len(buf) \in 1..(Len(wire) - n) /\ p - Len(buf) \in 1..Len(wire)
            /\ Len(buf) + (p - Len(buf)) = p /\ 0 + p = p
        <5> DEFINE b == Len(buf)
                   w == Len(wire)
        <5>1. /\ b \in Nat /\ w \in Nat /\ n \in 0..w
              /\ p \in 1..(b + (w - n)) /\ p \notin 1..b
            BY <1>2, <1>3, <2>2, <3>2
        <5> HIDE DEF b, w, Close
        <5>2. p - b \in 1..(w - n) /\ p - b \in 1..w /\ b + (p - b) = p /\ 0 + p = p
            BY <5>1
        <5> QED
            BY <5>2 DEF b, w
      <4>2. rest[Len(buf) + (p - Len(buf))] = wire'[p - Len(buf)]
          BY <2>2, <4>1
      <4>3. left[Len(buf) + (p - Len(buf))] = wire[p - Len(buf)]
          BY <2>1, <4>1
      <4>4. wire'[p - Len(buf)] = wire[p - Len(buf)]
          BY <1>4, <4>1
      <4> QED
          BY <4>1, <4>2, <4>3, <4>4
    <3> QED
        BY <3>1, <3>2
  <2>5. Len(rest) + 0 <= Len(left)
      BY <1>2, <1>3, <2>1, <2>2
  <2>6. 0 \in Nat /\ SizeOf(got) + 0 = SizeOf(got)
      BY <1>6
  <2>7. Continues(rest, SizeOf(got) + 0, sent)
      BY <1>6, <2>1, <2>2, <2>3, <2>4, <2>5, <2>6, ContinuesCut
  <2> QED
      BY <2>6, <2>7 DEF rest
<1>9. StreamFaithful' /\ status' # "overflow"
    BY <1>1 DEF StreamFaithful
<1>10. Ended'
    BY <1>1 DEF Ended
<1> QED
    BY <1>5, <1>7, <1>8, <1>9, <1>10 DEF CodecInv

\* A read moves bytes from the wire to the end of the buffer.
LEMMA CodecInvRead ==
    ASSUME CodecInv, NEW n \in 1..Len(wire), Read(n)
    PROVE  CodecInv'
<1> USE DEF Read
<1>1. TypeOK /\ StreamFaithful /\ Accounted /\ Continues(buf \o wire, SizeOf(got), sent)
      /\ Ended /\ status # "overflow"
    BY DEF CodecInv
<1>2. buf \in Seq(Byte) /\ wire \in Seq(Byte) /\ Len(buf) \in Nat /\ Len(wire) \in Nat
    BY <1>1, LenProperties DEF TypeOK
<1> DEFINE new == SubSeq(wire, 1, n)
<1>3. n \in Nat /\ n \in 0..Len(wire) /\ n <= Len(wire) /\ Len(wire) <= Len(wire)
    BY <1>2
<1>4. new \in Seq(Byte) /\ Len(new) = n
    BY <1>2, <1>3, PrefixFacts
<1>5. wire' \in Seq(Byte) /\ Len(wire') = Len(wire) - n
    BY <1>2, <1>3, PieceFacts
<1>6. new \o wire' = wire
  <2>1. 1 \in 1..(Len(wire) + 1) /\ n \in (1 - 1)..Len(wire) /\ Len(wire) \in n..Len(wire)
      BY <1>2, <1>3
  <2>2. new \o wire' = SubSeq(wire, 1, Len(wire))
      BY <1>2, <2>1, ConcatAdjacentSubSeq
  <2> QED
      BY <1>2, <2>2, SubSeqFull
<1> HIDE DEF new
<1>7. buf' = buf \o new
    BY DEF new
<1>8. buf' \in Seq(Byte) /\ Len(buf') = Len(buf) + n
    BY <1>2, <1>4, <1>7, JoinFacts
<1>9. buf' \o wire' = buf \o wire
  <2>1. (buf \o new) \o wire' = buf \o (new \o wire')
      BY <1>2, <1>4, <1>5, JoinJoin
  <2> QED
      BY <1>6, <1>7, <2>1
<1>10. TypeOK'
    BY <1>1, <1>5, <1>8 DEF TypeOK
<1>11. Accounted'
  <2>1. SizeOf(got) \in Nat /\ SizeOf(sent) \in Nat /\ lost \in Nat
      BY <1>1, SentFacts, SizeFacts DEF TypeOK
  <2> DEFINE x == SizeOf(sent)
             g == SizeOf(got)
             w == Len(wire)
             b == Len(buf)
  <2>2. x \in Nat /\ g \in Nat /\ w \in Nat /\ b \in Nat /\ g + b + w + lost = x
      BY <1>1, <1>2, <2>1 DEF Accounted
  <2>3. Len(wire') = w - n /\ Len(buf') = b + n
      BY <1>5, <1>8
  <2> HIDE DEF x, g, w, b
  <2>4. g + (b + n) + (w - n) + lost = x
      BY <1>3, <2>1, <2>2
  <2>5. SizeOf(got') + Len(buf') + Len(wire') + lost' = SizeOf(sent')
      BY <2>3, <2>4 DEF g, x
  <2> QED
      BY <1>1, <2>5 DEF Accounted
<1>12. StreamFaithful' /\ Ended' /\ status' # "overflow"
    BY <1>1 DEF StreamFaithful, Ended
<1> QED
    BY <1>1, <1>9, <1>10, <1>11, <1>12 DEF CodecInv

\* No buffer reaches its limit without a frame in it.
LEMMA LimitHoldsFrame == ASSUME CodecInv, AtLimit PROVE HasFrame(buf)
<1>1. TypeOK /\ StreamFaithful /\ Accounted /\ Continues(buf \o wire, SizeOf(got), sent)
    BY DEF CodecInv
<1>2. buf \in Seq(Byte) /\ Len(buf) \in Nat /\ Len(got) \in Nat /\ Len(sent) \in Nat
    BY <1>1, LenProperties, SentFacts DEF TypeOK
<1>3. Len(buf) >= HEADER_LEN + MAX_PAYLOAD /\ Len(buf) # 0
  <2> DEFINE h == HEADER_LEN
             m == MAX_PAYLOAD
  <2>1. h \in Nat \ {0} /\ m \in Nat /\ READ_SLACK \in Nat
      BY WidthFacts, CodecAssumption
  <2>2. Len(buf) >= h + m + READ_SLACK
      BY DEF AtLimit, MAX_DECODER_BUF
  <2> HIDE DEF h, m
  <2>3. Len(buf) >= h + m /\ Len(buf) # 0
      BY <1>2, <2>1, <2>2
  <2> QED
      BY <2>3 DEF h, m
<1>4. Len(got) < Len(sent) /\ Begins(buf, sent[Len(got) + 1])
  <2>1. Len(got) # Len(sent)
      BY <1>1, <1>3, NextFrame
  <2>2. Len(got) < Len(sent)
      BY <1>1, <1>2, <2>1 DEF StreamFaithful
  <2> QED
      BY <1>1, <2>2, NextFrame
<1> DEFINE f == sent[Len(got) + 1]
<1>5. Len(got) + 1 \in 1..Len(sent)
    BY <1>2, <1>4
<1>6. f \in FrameType /\ Encodable(f) /\ Len(encode_into(f)) = HEADER_LEN + Len(f.payload)
    BY <1>1, <1>5, SentFacts
<1>7. Len(f.payload) \in 0..MAX_PAYLOAD
    BY <1>6, EncodedFacts, WidthFacts
<1>8. Begins(buf, f)
    BY <1>4
<1> HIDE DEF f
<1>9. Len(buf) >= Len(encode_into(f))
  <2> DEFINE h == HEADER_LEN
             m == MAX_PAYLOAD
             y == Len(f.payload)
  <2>1. h \in Nat /\ m \in Nat /\ y \in 0..m /\ Len(buf) >= h + m
      BY <1>3, <1>7, WidthFacts
  <2> HIDE DEF h, m, y
  <2>2. Len(buf) >= h + y
      BY <1>2, <2>1
  <2> QED
      BY <1>6, <2>2 DEF h, y
<1> QED
    BY <1>2, <1>6, <1>8, <1>9, FrameIsFound

\* At the end of the stream the buffer is left as it is.
LEMMA CodecInvEnd == ASSUME CodecInv, End PROVE CodecInv'
<1> USE DEF End
<1>1. ~AtLimit
    BY LimitHoldsFrame
<1>2. ~open /\ wire = <<>> /\ ~HasFrame(buf)
    BY <1>1
<1>3. status' = IF buf = <<>> /\ ~reset THEN "eof" ELSE "error"
    BY <1>1
<1>4. Ended' /\ status' # "overflow"
    BY <1>2, <1>3 DEF Ended
<1>5. TypeOK'
    BY <1>3 DEF CodecInv, TypeOK
<1>6. StreamFaithful' /\ Accounted'
    BY DEF CodecInv, StreamFaithful, Accounted
<1> QED
    BY <1>4, <1>5, <1>6 DEF CodecInv

\* A frame decoded is the next one sent, and the rest starts with the one after.
LEMMA CodecInvDecode == ASSUME CodecInv, Decode PROVE CodecInv'
<1> USE DEF Decode
<1>1. TypeOK /\ StreamFaithful /\ Accounted /\ Continues(buf \o wire, SizeOf(got), sent)
      /\ Ended /\ status # "overflow"
    BY DEF CodecInv
<1>2. /\ buf \in Seq(Byte) /\ wire \in Seq(Byte) /\ Len(buf) \in Nat /\ Len(wire) \in Nat
      /\ got \in Seq(FrameType) /\ Len(got) \in Nat /\ Len(sent) \in Nat
      /\ sent \in Seq(FrameType)
    BY <1>1, LenProperties, SentFacts DEF TypeOK
<1>3. Len(buf) # 0
    BY <1>2, WidthFacts DEF HasFrame
<1>4. Len(got) < Len(sent) /\ Begins(buf, sent[Len(got) + 1])
  <2>1. Len(got) # Len(sent)
      BY <1>1, <1>3, NextFrame
  <2>2. Len(got) < Len(sent)
      BY <1>1, <1>2, <2>1 DEF StreamFaithful
  <2> QED
      BY <1>1, <2>2, NextFrame
<1> DEFINE f == sent[Len(got) + 1]
           d == HEADER_LEN + Len(f.payload)
<1>5. Len(got) + 1 \in 1..Len(sent) /\ (Len(got) + 1) - 1 = Len(got)
    BY <1>2, <1>4
<1>6. f \in FrameType /\ Encodable(f) /\ Len(encode_into(f)) = d /\ d \in Nat
    BY <1>1, <1>5, SentFacts
<1>7. Begins(buf, f)
    BY <1>4
<1> HIDE DEF f
<1>8. FirstFrame(buf) = f /\ Len(buf) >= d /\ payload_len(buf) = Len(f.payload)
  <2>1. Len(buf) >= HEADER_LEN
      BY DEF HasFrame
  <2> QED
      BY <1>2, <1>6, <1>7, <2>1, FrameIsFound
<1>9. buf' = SubSeq(buf, d + 1, Len(buf)) /\ got' = Append(got, f)
    BY <1>8 DEF Rest
<1> HIDE DEF d
<1>10. /\ buf' \in Seq(Byte) /\ Len(buf') = Len(buf) - d
       /\ \A i \in 1..(Len(buf) - d) : buf'[i] = buf[d + i]
  <2>1. d <= Len(buf) /\ Len(buf) <= Len(buf)
      BY <1>2, <1>6, <1>8
  <2> QED
      BY <1>2, <1>6, <1>9, <2>1, PieceFacts
<1>11. got' \in Seq(FrameType) /\ Len(got') = Len(got) + 1
    BY <1>2, <1>6, <1>9, AppendFacts
<1>12. TypeOK'
    BY <1>1, <1>10, <1>11 DEF TypeOK
<1>13. StreamFaithful'
  <2>1. SubSeq(sent, 1, Len(got) + 1) = Append(SubSeq(sent, 1, (Len(got) + 1) - 1), f)
      BY <1>2, <1>5, PrefixGrows DEF f
  <2>2. got' = SubSeq(sent, 1, Len(got) + 1)
      BY <1>1, <1>5, <1>9, <2>1 DEF StreamFaithful
  <2>3. Len(got') <= Len(sent')
      BY <1>2, <1>4, <1>11
  <2> QED
      BY <1>11, <2>2, <2>3 DEF StreamFaithful
<1>14. SizeOf(got) \in Nat /\ SizeOf(sent) \in Nat /\ lost \in Nat
    BY <1>1, <1>2, SizeFacts DEF TypeOK
<1>15. SizeOf(got') = SizeOf(got) + d
  <2>1. SizeOf(got') = SizeOf(got) + HEADER_LEN + Len(f.payload)
      BY <1>2, <1>6, <1>9, SizeFacts
  <2>2. f.payload \in Seq(Byte)
      BY <1>6 DEF FrameType
  <2> DEFINE x == SizeOf(got)
             h == HEADER_LEN
             y == Len(f.payload)
  <2>3. x \in Nat /\ h \in Nat /\ y \in Nat
      BY <1>14, <2>2, WidthFacts, LenProperties
  <2> HIDE DEF x, h, y
  <2>4. x + h + y = x + (h + y)
      BY <2>3
  <2> QED
      BY <2>1, <2>4 DEF x, h, y, d
<1>16. Accounted'
  <2> DEFINE x == SizeOf(sent)
             g == SizeOf(got)
             w == Len(wire)
             b == Len(buf)
  <2>1. x \in Nat /\ g \in Nat /\ w \in Nat /\ b \in Nat /\ g + b + w + lost = x
      BY <1>1, <1>2, <1>14 DEF Accounted
  <2>2. SizeOf(got') = g + d /\ Len(buf') = b - d /\ d \in Nat
      BY <1>6, <1>10, <1>15
  <2> HIDE DEF x, g, w, b
  <2>3. (g + d) + (b - d) + w + lost = x
      BY <1>14, <2>1, <2>2
  <2>4. SizeOf(got') + Len(buf') + Len(wire') + lost' = SizeOf(sent')
      BY <2>2, <2>3 DEF w, x
  <2> QED
      BY <1>1, <2>4 DEF Accounted
<1>17. Continues(buf' \o wire', SizeOf(got'), sent')
  <2> DEFINE left == buf \o wire
             cut == buf'
             rest == cut \o wire
  <2>1. /\ left \in Seq(Byte) /\ Len(left) = Len(buf) + Len(wire)
        /\ \A p \in 1..Len(buf) : left[p] = buf[p]
        /\ \A p \in 1..Len(wire) : left[Len(buf) + p] = wire[p]
      BY <1>2, JoinFacts
  <2>2. /\ cut \in Seq(Byte) /\ Len(cut) = Len(buf) - d
        /\ \A i \in 1..(Len(buf) - d) : cut[i] = buf[d + i]
      BY <1>10
  <2>3. buf' \o wire' = rest
      OBVIOUS
  <2> HIDE DEF cut
  <2>4. /\ rest \in Seq(Byte) /\ Len(rest) = Len(cut) + Len(wire)
        /\ \A p \in 1..Len(cut) : rest[p] = cut[p]
        /\ \A p \in 1..Len(wire) : rest[Len(cut) + p] = wire[p]
    <3>1. cut \in Seq(Byte) /\ wire \in Seq(Byte)
        BY <1>2, <2>2
    <3> QED
        BY <3>1, JoinFacts
  <2>5. Continues(left, SizeOf(got), sent)
      BY <1>1
  <2> HIDE DEF left, rest
  <2>6. ASSUME NEW p \in 1..Len(rest) PROVE rest[p] = left[d + p]
    <3>1. CASE p \in 1..Len(cut)
      <4>1. d + p \in 1..Len(buf) /\ p \in 1..(Len(buf) - d)
          BY <1>2, <1>6, <1>8, <2>2, <3>1
      <4> QED
          BY <2>1, <2>2, <2>4, <3>1, <4>1
    <3>2. CASE p \notin 1..Len(cut)
      <4> DEFINE q == p - Len(cut)
      <4>1. q \in 1..Len(wire) /\ Len(cut) + q = p /\ Len(buf) + q = d + p
          BY <1>2, <1>6, <1>8, <2>2, <2>4, <3>2
      <4> HIDE DEF q
      <4>2. rest[Len(cut) + q] = wire[q] /\ left[Len(buf) + q] = wire[q]
          BY <2>1, <2>4, <4>1
      <4> QED
          BY <4>1, <4>2
    <3> QED
        BY <3>1, <3>2
  <2>7. Len(rest) + d <= Len(left)
      BY <1>2, <1>6, <1>8, <2>1, <2>2, <2>4
  <2>8. Continues(rest, SizeOf(got) + d, sent)
      BY <1>6, <1>14, <2>1, <2>4, <2>5, <2>6, <2>7, ContinuesCut
  <2> QED
      BY <1>15, <2>3, <2>8
<1>18. Ended' /\ status' # "overflow"
    BY <1>1 DEF Ended
<1> QED
    BY <1>12, <1>13, <1>16, <1>17, <1>18 DEF CodecInv

\* The invariant is inductive.
LEMMA CodecInvStep == CodecInv /\ [Next]_vars => CodecInv'
<1> SUFFICES ASSUME CodecInv, [Next]_vars PROVE CodecInv'
    OBVIOUS
<1>1. CASE \E f \in Frames : Send(f)
    BY <1>1, CodecInvSend
<1>2. CASE \E n \in 0..Len(wire) : Close(n)
    BY <1>2, CodecInvClose
<1>3. CASE Decode
    BY <1>3, CodecInvDecode
<1>4. CASE End
    BY <1>4, CodecInvEnd
<1>5. CASE \E n \in 1..Len(wire) : Read(n)
    BY <1>5, CodecInvRead
<1>6. CASE UNCHANGED vars
    BY <1>6 DEF vars, CodecInv, TypeOK, StreamFaithful, Accounted, Ended
<1> QED
    BY <1>1, <1>2, <1>3, <1>4, <1>5, <1>6 DEF Next, ReadStep

\* The invariant holds the honesty of the stream's end: what is left in the
\* buffer is shorter than the next frame.
LEMMA CodecInvEndIsHonest == CodecInv => EndIsHonest
<1> SUFFICES ASSUME CodecInv, status \in {"eof", "error"}
             PROVE  LET arrived == SizeOf(sent) - lost
                    IN  /\ SizeOf(got) <= arrived
                        /\ Len(got) < Len(sent) =>
                              arrived < SizeOf(SubSeq(sent, 1, Len(got) + 1))
                        /\ status = "eof" <=> SizeOf(got) = arrived /\ ~reset
    BY DEF EndIsHonest
<1>1. TypeOK /\ StreamFaithful /\ Accounted /\ Continues(buf \o wire, SizeOf(got), sent)
    BY DEF CodecInv
<1>2. wire = <<>> /\ ~HasFrame(buf) /\ (status = "eof" <=> (buf = <<>> /\ ~reset))
    BY DEF CodecInv, Ended
<1>3. /\ SizeOf(got) \in Nat /\ SizeOf(sent) \in Nat /\ lost \in Nat
      /\ Len(buf) \in Nat /\ Len(wire) = 0 /\ Len(got) \in Nat /\ Len(sent) \in Nat
    BY <1>1, <1>2, SizeFacts, SentFacts, LenProperties, EmptySeq DEF TypeOK
<1>4. SizeOf(sent) - lost = SizeOf(got) + Len(buf)
  <2> DEFINE x == SizeOf(sent)
             g == SizeOf(got)
             b == Len(buf)
  <2>1. x \in Nat /\ g \in Nat /\ b \in Nat /\ g + b + 0 + lost = x
      BY <1>1, <1>3 DEF Accounted
  <2> HIDE DEF x, g, b
  <2>2. x - lost = g + b
      BY <1>3, <2>1
  <2> QED
      BY <2>2 DEF x, g, b
<1>5. buf = <<>> <=> Len(buf) = 0
    BY <1>1, EmptySeq DEF TypeOK
<1>6. ASSUME Len(got) < Len(sent)
      PROVE  SizeOf(got) + Len(buf) < SizeOf(SubSeq(sent, 1, Len(got) + 1))
  <2> DEFINE f == sent[Len(got) + 1]
             c == Len(encode_into(f))
  <2>1. Len(got) + 1 \in 1..Len(sent) /\ (Len(got) + 1) - 1 = Len(got)
      BY <1>3, <1>6
  <2>2. f \in FrameType /\ Encodable(f) /\ c \in Nat
        /\ Offset(sent, Len(got) + 1) = Offset(sent, (Len(got) + 1) - 1) + c
      BY <1>1, <2>1, SentFacts
  <2>3. Begins(buf, f) /\ SizeOf(got) = Offset(sent, Len(got))
      BY <1>1, <1>6, NextFrame
  <2>4. ~(Len(buf) >= c)
    <3> HIDE DEF f
    <3>1. buf \in Seq(Byte)
        BY <1>1 DEF TypeOK
    <3> QED
        BY <1>2, <2>2, <2>3, <3>1, FrameIsFound
  <2>5. Offset(sent, Len(got) + 1) = SizeOf(got) + c
      BY <2>1, <2>2, <2>3
  <2> HIDE DEF c
  <2>6. SizeOf(got) + Len(buf) < SizeOf(got) + c
      BY <1>3, <2>2, <2>4
  <2> QED
      BY <2>5, <2>6 DEF Offset
<1> QED
    BY <1>2, <1>3, <1>4, <1>5, <1>6

\* The invariant holds in every reachable state.
THEOREM CodecInvariant == Spec => []CodecInv
<1>1. Init => CodecInv
    BY CodecInvInit
<1>2. CodecInv /\ [Next]_vars => CodecInv'
    BY CodecInvStep
<1> QED
    BY <1>1, <1>2, PTL DEF Spec

\* try_next yields the frames that were encoded, each with its fields and its
\* payload, in their order, for every radix, width and cut of the stream into
\* reads, and whether or not the connection breaks off (FrameDecoder::try_next).
THEOREM StreamIsFaithful == Spec => []StreamFaithful
<1>1. CodecInv => StreamFaithful
    BY DEF CodecInv
<1> QED
    BY <1>1, CodecInvariant, PTL

\* When try_next reports the end, every frame that arrived whole has been
\* decoded; the end is clean exactly when nothing arrived beyond those frames and
\* the read did not fail.
THEOREM EndingIsHonest == Spec => []EndIsHonest
<1>1. CodecInv => EndIsHonest
    BY CodecInvEndIsHonest
<1> QED
    BY <1>1, CodecInvariant, PTL

\* The limit on the buffer is never what ends a stream of encoded frames: a
\* buffer of that many bytes begins with a whole frame, which is taken first.
THEOREM LimitIsNeverHit == Spec => [](status # "overflow")
<1>1. CodecInv => status # "overflow"
    BY DEF CodecInv
<1> QED
    BY <1>1, CodecInvariant, PTL

------------------------------------------------------------------------------
(* SYN targets *)

\* Bytes are numbers.
LEMMA ByteIsNat == Byte \subseteq Nat /\ \A s \in Seq(Byte) : s \in Seq(Nat)
<1>1. Byte \subseteq Nat
    BY WidthFacts DEF Byte
<1> QED
    BY <1>1, SeqMonotonic

\* The sequences of MCAlgorithms are sequences.
LEMMA SeqsUpToFacts ==
    ASSUME NEW S, NEW n \in Nat, NEW a \in SeqsUpTo(S, n)
    PROVE  a \in Seq(S) /\ Len(a) \in 0..n
<1>1. PICK k \in 0..n : a \in [1..k -> S]
    BY DEF SeqsUpTo
<1>2. k \in Nat
    OBVIOUS
<1>3. a \in Seq(S)
    BY <1>1, <1>2, SeqDef
<1>4. Len(a) = k
    BY <1>1, <1>2, <1>3, LenProperties
<1> QED
    BY <1>3, <1>4

\* v is made of the four sequences, one behind the other.
Joined(v, a, b, c, d) ==
    /\ v \in Seq(Nat) /\ Len(v) = Len(a) + Len(b) + Len(c) + Len(d)
    /\ \A i \in 1..Len(a) : v[i] = a[i]
    /\ \A i \in 1..Len(b) : v[Len(a) + i] = b[i]
    /\ \A i \in 1..Len(c) : v[Len(a) + Len(b) + i] = c[i]
    /\ \A i \in 1..Len(d) : v[Len(a) + Len(b) + Len(c) + i] = d[i]

\* A sequence of four parts, by its elements.
LEMMA JoinFour ==
    ASSUME NEW a \in Seq(Nat), NEW b \in Seq(Nat), NEW c \in Seq(Nat), NEW d \in Seq(Nat)
    PROVE  Joined(a \o b \o c \o d, a, b, c, d)
<1> DEFINE ab == a \o b
           abc == ab \o c
           v == abc \o d
           k == Len(a)
           l == Len(b)
           m == Len(c)
           n == Len(d)
<1>1. ab \in Seq(Nat) /\ Len(ab) = k + l /\ k \in Nat /\ l \in Nat
      /\ (\A i \in 1..k : ab[i] = a[i]) /\ \A i \in 1..l : ab[k + i] = b[i]
    BY JoinFacts
<1> HIDE DEF ab
<1>2. abc \in Seq(Nat) /\ Len(abc) = Len(ab) + m /\ m \in Nat
      /\ (\A i \in 1..Len(ab) : abc[i] = ab[i]) /\ \A i \in 1..m : abc[Len(ab) + i] = c[i]
  <2>1. ab \in Seq(Nat)
      BY <1>1
  <2> QED
      BY <2>1, JoinFacts
<1> HIDE DEF abc
<1>3. v \in Seq(Nat) /\ Len(v) = Len(abc) + n /\ n \in Nat
      /\ (\A i \in 1..Len(abc) : v[i] = abc[i]) /\ \A i \in 1..n : v[Len(abc) + i] = d[i]
  <2>1. abc \in Seq(Nat)
      BY <1>2
  <2> QED
      BY <2>1, JoinFacts
<1> HIDE DEF v, k, l, m, n
<1>4. Len(abc) = k + l + m /\ Len(v) = k + l + m + n
    BY <1>1, <1>2, <1>3
<1>5. ASSUME NEW i \in 1..k PROVE v[i] = a[i]
  <2>1. i \in 1..Len(ab) /\ i \in 1..Len(abc)
      BY <1>1, <1>2
  <2> QED
      BY <1>1, <1>2, <1>3, <2>1
<1>6. ASSUME NEW i \in 1..l PROVE v[k + i] = b[i]
  <2>1. k + i \in 1..Len(ab) /\ k + i \in 1..Len(abc)
      BY <1>1, <1>2
  <2> QED
      BY <1>1, <1>2, <1>3, <2>1
<1>7. ASSUME NEW i \in 1..m PROVE v[k + l + i] = c[i]
  <2>1. k + l + i \in 1..Len(abc) /\ k + l + i = Len(ab) + i
      BY <1>1, <1>2
  <2> QED
      BY <1>2, <1>3, <2>1
<1>8. \A i \in 1..n : v[k + l + m + i] = d[i]
    BY <1>3, <1>4
<1> QED
    BY <1>1, <1>2, <1>3, <1>4, <1>5, <1>6, <1>7, <1>8 DEF Joined, v, k, l, m, n, abc, ab

\* As far as s goes it is what the target of a SYN is encoded to.
BeginsTarget(s, t) ==
    /\ Len(s) >= 1 => s[1] = t.proto
    /\ \A i \in 1..LEN_WIDTH :
          1 + i <= Len(s) => s[1 + i] = BigEndian(Len(t.address), LEN_WIDTH)[i]
    /\ \A i \in 1..Len(t.address) :
          1 + LEN_WIDTH + i <= Len(s) => s[1 + LEN_WIDTH + i] = t.address[i]
    /\ \A i \in 1..LEN_WIDTH :
          1 + LEN_WIDTH + Len(t.address) + i <= Len(s) =>
              s[1 + LEN_WIDTH + Len(t.address) + i] = BigEndian(t.port, LEN_WIDTH)[i]

\* Such a payload is decoded to its target if it holds it to the last byte, and
\* is refused if it does not.
LEMMA TargetIsFound ==
    ASSUME NEW k \in Nat, NEW a \in Seq(Byte), NEW p \in Uint(LEN_WIDTH),
           Len(a) <= MAX_PAYLOAD, NEW s \in Seq(Nat), BeginsTarget(s, Target(k, a, p))
    PROVE  /\ Len(s) >= 1 + 2 * LEN_WIDTH + Len(a) => decode(s) = Ok(Target(k, a, p))
           /\ Len(s) < 1 + 2 * LEN_WIDTH + Len(a) => decode(s) = Error
<1> DEFINE t == Target(k, a, p)
           w == LEN_WIDTH
           n == Len(a)
           m == Len(s)
           c == Field(s, 1, w)
<1>1. t.proto = k /\ t.address = a /\ t.port = p
    BY DEF Target
<1>2. w \in Nat \ {0} /\ n \in Nat /\ m \in Nat /\ n \in Uint(w)
    BY LenProperties, WidthFacts
<1>3. /\ m >= 1 => s[1] = k
      /\ \A i \in 1..w : 1 + i <= m => s[1 + i] = BigEndian(n, w)[i]
      /\ \A i \in 1..n : 1 + w + i <= m => s[1 + w + i] = a[i]
      /\ \A i \in 1..w : 1 + w + n + i <= m => s[1 + w + n + i] = BigEndian(p, w)[i]
    BY <1>1 DEF BeginsTarget
<1>4. decode(s) = IF m < 1 + 2 * w \/ m < (1 + 2 * w) + c THEN Error
                  ELSE Ok(Target(s[1], SubSeq(s, (1 + w) + 1, (1 + w) + c),
                                 Field(s, (1 + w) + c, w)))
    BY DEF decode
<1>5. ASSUME m >= 1 + 2 * w PROVE c = n
  <2> HIDE DEF w, n, m, c
  <2>1. \A i \in 1..w : s[1 + i] = BigEndian(n, w)[i]
      BY <1>2, <1>3, <1>5
  <2> QED
      BY <1>2, <2>1, FieldReads DEF c
<1> HIDE DEF w, n, m, c
<1>6. ASSUME m >= 1 + 2 * w + n PROVE decode(s) = Ok(t)
  <2>1. m >= 1 + 2 * w /\ ~(m < 1 + 2 * w) /\ ~(m < (1 + 2 * w) + n)
      BY <1>2, <1>6
  <2>2. c = n /\ s[1] = k
      BY <1>2, <1>3, <1>5, <2>1
  <2>3. SubSeq(s, (1 + w) + 1, (1 + w) + n) = a
    <3> DEFINE u == SubSeq(s, (1 + w) + 1, (1 + w) + n)
    <3>1. 1 + w \in Nat /\ (1 + w) + n \in Nat /\ 1 + w <= (1 + w) + n /\ (1 + w) + n <= m
          /\ ((1 + w) + n) - (1 + w) = n
        BY <1>2, <1>6
    <3>2. u \in Seq(Nat) /\ Len(u) = n /\ \A i \in 1..n : u[i] = s[(1 + w) + i]
      <4>1. u \in Seq(Nat) /\ Len(u) = ((1 + w) + n) - (1 + w)
            /\ \A i \in 1..(((1 + w) + n) - (1 + w)) : u[i] = s[(1 + w) + i]
          BY <3>1, PieceFacts DEF m
      <4> QED
          BY <3>1, <4>1
    <3> HIDE DEF u
    <3>3. ASSUME NEW i \in 1..n PROVE u[i] = a[i]
      <4>1. 1 + w + i <= m /\ 1 + w + i = (1 + w) + i
          BY <1>2, <1>6
      <4> QED
          BY <1>3, <3>2, <4>1
    <3>4. a \in Seq(Nat) /\ Len(a) = n
        BY ByteIsNat DEF n
    <3>5. u = a
        BY <3>2, <3>3, <3>4, SeqEqual
    <3> QED
        BY <3>5 DEF u
  <2>4. Field(s, (1 + w) + n, w) = p
    <3>1. ASSUME NEW i \in 1..w PROVE s[((1 + w) + n) + i] = BigEndian(p, w)[i]
      <4>1. 1 + w + n + i <= m /\ 1 + w + n + i = ((1 + w) + n) + i
          BY <1>2, <1>6
      <4> QED
          BY <1>3, <4>1
    <3>2. (1 + w) + n \in Nat /\ p \in Uint(w)
        BY <1>2 DEF w
    <3> QED
        BY <1>2, <3>1, <3>2, FieldReads
  <2> QED
      BY <1>4, <2>1, <2>2, <2>3, <2>4
<1>7. ASSUME m < 1 + 2 * w + n PROVE decode(s) = Error
  <2>1. CASE m < 1 + 2 * w
      BY <1>4, <2>1
  <2>2. CASE ~(m < 1 + 2 * w)
    <3>1. c = n
        BY <1>2, <1>5, <2>2
    <3>2. m < (1 + 2 * w) + n
        BY <1>2, <1>7
    <3> QED
        BY <1>4, <3>1, <3>2
  <2> QED
      BY <2>1, <2>2
<1> QED
    BY <1>6, <1>7 DEF m, w, n

\* A target goes through encode and decode unchanged, and no part of it is taken
\* for another.
LEMMA TargetRoundTrip ==
    ASSUME NEW k \in Nat, NEW a \in Seq(Byte), NEW p \in Uint(LEN_WIDTH),
           Len(a) <= MAX_PAYLOAD
    PROVE  /\ encode(Target(k, a, p)).ok
           /\ decode(encode(Target(k, a, p)).value) = Ok(Target(k, a, p))
           /\ \A q \in ProperPrefixes(encode(Target(k, a, p)).value) : decode(q) = Error
<1> DEFINE t == Target(k, a, p)
           w == LEN_WIDTH
           x == <<k>>
           b == BigEndian(Len(a), w)
           d == BigEndian(p, w)
           v == x \o b \o a \o d
           n == Len(a)
<1>1. t.proto = k /\ t.address = a /\ t.port = p
    BY DEF Target
<1>2. w \in Nat \ {0} /\ n \in Nat /\ n \in Uint(w)
    BY LenProperties, WidthFacts
<1>3. encode(t) = Ok(v)
  <2>1. ~(Len(a) >= Power(LEN_WIDTH))
      BY <1>2, WidthFacts, PowerFacts DEF MAX_PAYLOAD
  <2> QED
      BY <1>1, <2>1 DEF encode
<1>4. x \in Seq(Nat) /\ Len(x) = 1 /\ x[1] = k
    OBVIOUS
<1>5. b \in Seq(Nat) /\ Len(b) = w /\ d \in Seq(Nat) /\ Len(d) = w /\ a \in Seq(Nat)
    BY <1>2, BytesOfNumber, ByteIsNat
<1> HIDE DEF x, b, d
<1>6. Joined(v, x, b, a, d)
    BY <1>4, <1>5, JoinFour
<1> HIDE DEF v
<1>7. Len(v) = 1 + 2 * w + n
    BY <1>2, <1>4, <1>5, <1>6 DEF Joined
<1>8. v[1] = k /\ (\A i \in 1..w : v[1 + i] = b[i])
      /\ (\A i \in 1..n : v[1 + w + i] = a[i]) /\ \A i \in 1..w : v[1 + w + n + i] = d[i]
    BY <1>4, <1>5, <1>6 DEF Joined
<1>9. ASSUME NEW q \in Seq(Nat), \A i \in 1..Len(v) : i <= Len(q) => q[i] = v[i]
      PROVE  BeginsTarget(q, t)
  <2> HIDE DEF w, n
  <2>1. 1 \in 1..Len(v) /\ (\A i \in 1..w : 1 + i \in 1..Len(v))
        /\ (\A i \in 1..n : 1 + w + i \in 1..Len(v)) /\ \A i \in 1..w : 1 + w + n + i \in 1..Len(v)
      BY <1>2, <1>7
  <2>2. /\ 1 <= Len(q) => q[1] = k
        /\ \A i \in 1..w : 1 + i <= Len(q) => q[1 + i] = b[i]
        /\ \A i \in 1..n : 1 + w + i <= Len(q) => q[1 + w + i] = a[i]
        /\ \A i \in 1..w : 1 + w + n + i <= Len(q) => q[1 + w + n + i] = d[i]
      BY <1>8, <1>9, <2>1
  <2>3. Len(q) >= 1 => 1 <= Len(q)
      BY LenProperties
  <2> QED
      BY <1>1, <2>2, <2>3 DEF BeginsTarget, w, n, b, d
<1>10. decode(v) = Ok(t)
  <2>1. v \in Seq(Nat) /\ BeginsTarget(v, t)
      BY <1>6, <1>9 DEF Joined
  <2>2. Len(v) >= 1 + 2 * LEN_WIDTH + Len(a)
      BY <1>2, <1>7
  <2> QED
      BY <2>1, <2>2, TargetIsFound
<1>11. ASSUME NEW q \in ProperPrefixes(v) PROVE decode(q) = Error
  <2>1. PICK j \in 0..Len(v) - 1 : q = SubSeq(v, 1, j)
      BY DEF ProperPrefixes
  <2>2. j \in 0..Len(v) /\ j < Len(v) /\ j \in Nat
      BY <1>2, <1>7
  <2>3. q \in Seq(Nat) /\ Len(q) = j /\ \A i \in 1..j : q[i] = v[i]
    <3>1. v \in Seq(Nat)
        BY <1>6 DEF Joined
    <3> QED
        BY <2>1, <2>2, <3>1, PrefixFacts
  <2>4. \A i \in 1..Len(v) : i <= Len(q) => q[i] = v[i]
      BY <2>2, <2>3
  <2>5. BeginsTarget(q, t)
      BY <1>9, <2>3, <2>4
  <2>6. Len(q) < 1 + 2 * LEN_WIDTH + Len(a)
      BY <1>7, <2>2, <2>3
  <2> QED
      BY <2>3, <2>5, <2>6, TargetIsFound
<1>12. encode(t).ok /\ encode(t).value = v
    BY <1>3 DEF Ok
<1> QED
    BY <1>10, <1>11, <1>12

------------------------------------------------------------------------------
(* SOCKS5 addresses *)

\* An address whose host has the length of its kind.
IsHost(t) ==
    /\ t \in [kind : ATYPS, address : Seq(Byte), port : Uint(LEN_WIDTH)]
    /\ t.kind = ATYP_IPV4 => Len(t.address) = V4_LEN
    /\ t.kind = ATYP_IPV6 => Len(t.address) = V6_LEN

\* The bytes after ATYP, which the readers are given.
HostSize(t) == HostStart(t.kind) + Len(t.address) + LEN_WIDTH

\* As far as s goes it is what the address is encoded to, or goes on behind it.
BeginsHost(s, t) ==
    /\ t.kind = ATYP_DOMAIN /\ Len(s) >= 1 => s[1] = Len(t.address)
    /\ \A i \in 1..Len(t.address) :
          HostStart(t.kind) + i <= Len(s) => s[HostStart(t.kind) + i] = t.address[i]
    /\ \A i \in 1..LEN_WIDTH :
          HostStart(t.kind) + Len(t.address) + i <= Len(s) =>
              s[HostStart(t.kind) + Len(t.address) + i] = BigEndian(t.port, LEN_WIDTH)[i]

\* The parts of a SOCKS5 host.
LEMMA HostFacts ==
    ASSUME NEW t, IsHost(t)
    PROVE  /\ t.kind \in ATYPS /\ t.address \in Seq(Byte) /\ t.port \in Uint(LEN_WIDTH)
           /\ t = TargetAddr(t.kind, t.address, t.port)
           /\ Len(t.address) \in Nat /\ HostStart(t.kind) \in {0, 1}
           /\ t.kind = ATYP_DOMAIN <=> HostStart(t.kind) = 1
           /\ HostSize(t) \in Nat \ {0}
<1>1. t.kind \in ATYPS /\ t.address \in Seq(Byte) /\ t.port \in Uint(LEN_WIDTH)
      /\ t = TargetAddr(t.kind, t.address, t.port)
    BY DEF IsHost, TargetAddr
<1>2. Len(t.address) \in Nat
    BY <1>1, LenProperties
<1>3. HostStart(t.kind) \in {0, 1} /\ (t.kind = ATYP_DOMAIN <=> HostStart(t.kind) = 1)
    BY DEF HostStart
<1>4. HostSize(t) \in Nat \ {0}
    BY <1>2, <1>3, WidthFacts DEF HostSize
<1> QED
    BY <1>1, <1>2, <1>3, <1>4

\* The readers find such an address exactly when it is there to its last byte,
\* find where it ends, and find that address.
LEMMA AddressIsFound ==
    ASSUME NEW t, IsHost(t), NEW s \in Seq(Nat), BeginsHost(s, t)
    PROVE  /\ Complete(t.kind, s) <=> Len(s) >= HostSize(t)
           /\ Complete(t.kind, s) =>
                 /\ HostEnd(t.kind, s) = HostStart(t.kind) + Len(t.address)
                 /\ AddressOf(t.kind, s) = t
<1> DEFINE h == HostStart(t.kind)
           n == Len(t.address)
           w == LEN_WIDTH
           m == Len(s)
<1>1. n \in Nat /\ h \in {0, 1} /\ w \in Nat \ {0} /\ m \in Nat /\ t.kind \in ATYPS
      /\ HostSize(t) = h + n + w
    BY HostFacts, WidthFacts, LenProperties DEF HostSize
<1>2. /\ \A i \in 1..n : h + i <= m => s[h + i] = t.address[i]
      /\ \A i \in 1..w : h + n + i <= m => s[h + n + i] = BigEndian(t.port, w)[i]
    BY DEF BeginsHost
<1>3. ASSUME m > 0 PROVE HostEnd(t.kind, s) = h + n
  <2>1. CASE t.kind = ATYP_DOMAIN
    <3>1. s[1] = n /\ h = 1 /\ s # <<>>
      <4>1. m >= 1
          BY <1>1, <1>3
      <4>2. s # <<>>
          BY <1>3, EmptySeq
      <4> QED
          BY <2>1, <4>1, <4>2, HostFacts DEF BeginsHost
    <3>2. HostEnd(ATYP_DOMAIN, s) = 1 + s[1]
        BY <3>1 DEF HostEnd, ATYP_IPV4, ATYP_IPV6, ATYP_DOMAIN
    <3> QED
        BY <2>1, <3>1, <3>2
  <2>2. CASE t.kind = ATYP_IPV4
    <3>1. h = 0 /\ n = V4_LEN
        BY <2>2 DEF HostStart, IsHost, ATYP_IPV4, ATYP_DOMAIN
    <3>2. HostEnd(t.kind, s) = V4_LEN
        BY <2>2 DEF HostEnd, ATYP_IPV4, ATYP_IPV6
    <3> QED
        BY <1>1, <3>1, <3>2
  <2>3. CASE t.kind = ATYP_IPV6
    <3>1. h = 0 /\ n = V6_LEN
        BY <2>3 DEF HostStart, IsHost, ATYP_IPV6, ATYP_DOMAIN
    <3>2. HostEnd(t.kind, s) = V6_LEN
        BY <2>3 DEF HostEnd, ATYP_IPV4, ATYP_IPV6
    <3> QED
        BY <1>1, <3>1, <3>2
  <2> QED
      BY <1>1, <2>1, <2>2, <2>3 DEF ATYPS
<1>4. Complete(t.kind, s) <=> m > 0 /\ m >= HostEnd(t.kind, s) + w
    BY <1>1 DEF Complete
<1> HIDE DEF h, n, w, m
<1>5. Complete(t.kind, s) <=> m >= HostSize(t)
  <2>1. m >= h + n + w => m > 0
      BY <1>1
  <2>2. m > 0 => (m >= HostEnd(t.kind, s) + w <=> m >= h + n + w)
      BY <1>3
  <2> QED
      BY <1>1, <1>4, <2>1, <2>2
<1>6. ASSUME Complete(t.kind, s) PROVE HostEnd(t.kind, s) = h + n /\ AddressOf(t.kind, s) = t
  <2>1. HostEnd(t.kind, s) = h + n /\ m >= h + n + w
      BY <1>1, <1>3, <1>4, <1>5, <1>6
  <2>2. SubSeq(s, h + 1, h + n) = t.address
    <3> DEFINE u == SubSeq(s, h + 1, h + n)
    <3>1. h \in Nat /\ h + n \in Nat /\ h <= h + n /\ h + n <= m /\ (h + n) - h = n
        BY <1>1, <2>1
    <3>2. u \in Seq(Nat) /\ Len(u) = (h + n) - h
          /\ \A i \in 1..((h + n) - h) : u[i] = s[h + i]
        BY <3>1, PieceFacts DEF m
    <3> HIDE DEF u
    <3>3. ASSUME NEW i \in 1..n PROVE u[i] = t.address[i]
      <4>1. h + i <= m
          BY <1>1, <2>1
      <4> QED
          BY <1>2, <3>1, <3>2, <4>1
    <3>4. t.address \in Seq(Nat) /\ Len(t.address) = n
        BY HostFacts, ByteIsNat DEF n
    <3>5. u = t.address
        BY <3>1, <3>2, <3>3, <3>4, SeqEqual
    <3> QED
        BY <3>5 DEF u
  <2>3. Field(s, h + n, w) = t.port
    <3>1. ASSUME NEW i \in 1..w PROVE s[(h + n) + i] = BigEndian(t.port, w)[i]
      <4>1. h + n + i <= m /\ h + n + i = (h + n) + i
          BY <1>1, <2>1
      <4> QED
          BY <1>2, <4>1
    <3>2. h + n \in Nat /\ t.port \in Uint(w)
        BY <1>1, HostFacts DEF w
    <3> QED
        BY <1>1, <3>1, <3>2, FieldReads
  <2> QED
      BY <2>1, <2>2, <2>3, HostFacts DEF AddressOf, h, w
<1> QED
    BY <1>5, <1>6 DEF h, n, m

\* What encode_address writes after ATYP is such an address, and so is all that
\* goes on behind it.
LEMMA AddressIsWritten ==
    ASSUME NEW t, IsHost(t), encode_address(t).ok
    PROVE  LET v == encode_address(t).value
           IN  /\ v \in Seq(Nat) /\ Len(v) = HostSize(t) + 1 /\ v[1] = t.kind
               /\ Tail(v) \in Seq(Nat) /\ Len(Tail(v)) = HostSize(t)
               /\ \A i \in 1..HostSize(t) : Tail(v)[i] = v[i + 1]
               /\ \A s \in Seq(Nat) :
                     (\A i \in 1..HostSize(t) : i <= Len(s) => s[i] = Tail(v)[i])
                        => BeginsHost(s, t)
<1> DEFINE h == HostStart(t.kind)
           n == Len(t.address)
           w == LEN_WIDTH
           a == t.address
           x == <<t.kind>>
           l == IF t.kind = ATYP_DOMAIN THEN <<n>> ELSE <<>>
           d == BigEndian(t.port, w)
           v == x \o l \o a \o d
           b == Tail(v)
<1>1. n \in Nat /\ h \in {0, 1} /\ w \in Nat \ {0} /\ t.kind \in ATYPS
      /\ HostSize(t) = h + n + w /\ (t.kind = ATYP_DOMAIN <=> h = 1)
    BY HostFacts, WidthFacts DEF HostSize
<1>2. encode_address(t).value = v
    BY DEF encode_address, Ok, Error
<1>3. x \in Seq(Nat) /\ Len(x) = 1 /\ x[1] = t.kind
    BY <1>1 DEF ATYPS, ATYP_IPV4, ATYP_DOMAIN, ATYP_IPV6
<1>4. l \in Seq(Nat) /\ Len(l) = h /\ (t.kind = ATYP_DOMAIN => l[1] = n)
  <2>1. CASE t.kind = ATYP_DOMAIN
      BY <1>1, <2>1
  <2>2. CASE t.kind # ATYP_DOMAIN
    <3>1. l = <<>> /\ h = 0
        BY <1>1, <2>2
    <3> HIDE DEF l
    <3> QED
        BY <2>2, <3>1, EmptySeq
  <2> QED
      BY <2>1, <2>2
<1>5. a \in Seq(Nat) /\ Len(a) = n
    BY HostFacts, ByteIsNat
<1>6. d \in Seq(Nat) /\ Len(d) = w
    BY <1>1, HostFacts, BytesOfNumber, ByteIsNat
<1> HIDE DEF x, l, a, d
<1>7. Joined(v, x, l, a, d)
    BY <1>3, <1>4, <1>5, <1>6, JoinFour
<1> HIDE DEF v, n, h, w
<1>8. v \in Seq(Nat) /\ Len(v) = h + n + w + 1 /\ v[1] = t.kind
      /\ (\A i \in 1..h : v[1 + i] = l[i]) /\ (\A i \in 1..n : v[1 + h + i] = a[i])
      /\ \A i \in 1..w : v[1 + h + n + i] = d[i]
  <2>1. /\ v \in Seq(Nat) /\ Len(v) = 1 + h + n + w /\ v[1] = x[1]
        /\ (\A i \in 1..h : v[1 + i] = l[i]) /\ (\A i \in 1..n : v[1 + h + i] = a[i])
        /\ \A i \in 1..w : v[1 + h + n + i] = d[i]
    <3>1. /\ v \in Seq(Nat) /\ Len(v) = Len(x) + Len(l) + Len(a) + Len(d)
          /\ \A i \in 1..Len(x) : v[i] = x[i]
          /\ \A i \in 1..Len(l) : v[Len(x) + i] = l[i]
          /\ \A i \in 1..Len(a) : v[Len(x) + Len(l) + i] = a[i]
          /\ \A i \in 1..Len(d) : v[Len(x) + Len(l) + Len(a) + i] = d[i]
        BY <1>7, Zenon DEF Joined
    <3>2. Len(x) = 1 /\ Len(l) = h /\ Len(a) = n /\ Len(d) = w
        BY <1>3, <1>4, <1>5, <1>6
    <3>3. /\ v \in Seq(Nat) /\ Len(v) = 1 + h + n + w
          /\ \A i \in 1..1 : v[i] = x[i]
          /\ \A i \in 1..h : v[1 + i] = l[i]
          /\ \A i \in 1..n : v[1 + h + i] = a[i]
          /\ \A i \in 1..w : v[1 + h + n + i] = d[i]
        BY <3>1, <3>2, Zenon
    <3>4. 1 \in 1..1
        OBVIOUS
    <3> QED
        BY <3>3, <3>4, Zenon
  <2>2. 1 + h + n + w = h + n + w + 1
      BY <1>1
  <2> QED
      BY <1>3, <2>1, <2>2, Zenon
<1>9. b \in Seq(Nat) /\ Len(b) = h + n + w /\ \A i \in 1..(h + n + w) : b[i] = v[i + 1]
  <2>1. v # <<>>
    <3>1. Len(v) # 0
        BY <1>1, <1>8
    <3> QED
        BY <3>1, EmptySeq
  <2>2. v \in Seq(Nat)
      BY <1>8
  <2>3. b \in Seq(Nat) /\ Len(b) = Len(v) - 1 /\ \A i \in 1..(Len(v) - 1) : b[i] = v[i + 1]
      BY <2>1, <2>2, TailFacts
  <2>4. Len(v) - 1 = h + n + w
      BY <1>1, <1>8
  <2> QED
      BY <2>3, <2>4
<1> HIDE DEF b
<1>10. ASSUME NEW s \in Seq(Nat), \A i \in 1..(h + n + w) : i <= Len(s) => s[i] = b[i]
       PROVE  BeginsHost(s, t)
  <2>1. Len(s) \in Nat
      BY LenProperties
  <2>2. ASSUME t.kind = ATYP_DOMAIN, Len(s) >= 1 PROVE s[1] = n
    <3>1. h = 1 /\ 1 \in 1..h /\ 1 \in 1..(h + n + w) /\ 1 <= Len(s)
        BY <1>1, <2>1, <2>2
    <3>2. s[1] = v[1 + 1] /\ v[1 + 1] = l[1]
        BY <1>8, <1>9, <1>10, <3>1
    <3> QED
        BY <1>4, <2>2, <3>2
  <2>3. ASSUME NEW i \in 1..n, h + i <= Len(s) PROVE s[h + i] = a[i]
    <3>1. h + i \in 1..(h + n + w) /\ (h + i) + 1 = 1 + h + i
        BY <1>1
    <3>2. s[h + i] = v[(h + i) + 1]
        BY <1>9, <1>10, <2>3, <3>1
    <3> QED
        BY <1>8, <3>1, <3>2
  <2>4. ASSUME NEW i \in 1..w, h + n + i <= Len(s) PROVE s[h + n + i] = d[i]
    <3>1. h + n + i \in 1..(h + n + w) /\ (h + n + i) + 1 = 1 + h + n + i
        BY <1>1
    <3>2. s[h + n + i] = v[(h + n + i) + 1]
        BY <1>9, <1>10, <2>4, <3>1
    <3> QED
        BY <1>8, <3>1, <3>2
  <2> QED
      BY <2>2, <2>3, <2>4 DEF BeginsHost, h, n, w, a, d
<1> QED
    BY <1>1, <1>2, <1>8, <1>9, <1>10 DEF b

\* What is behind the address is left when it has been read.
LEMMA RestIsLeft ==
    ASSUME NEW b \in Seq(Nat), NEW c \in Seq(Nat)
    PROVE  After(b \o c, Len(b)) = c
<1> DEFINE s == b \o c
           m == Len(b)
           n == Len(c)
           u == SubSeq(s, m + 1, m + n)
<1>1. s \in Seq(Nat) /\ m \in Nat /\ n \in Nat /\ Len(s) = m + n
      /\ \A i \in 1..n : s[m + i] = c[i]
    BY JoinFacts
<1> HIDE DEF s, m, n
<1>2. m + n \in Nat /\ m <= m + n /\ m + n <= Len(s) /\ (m + n) - m = n
    BY <1>1
<1>3. u \in Seq(Nat) /\ Len(u) = (m + n) - m /\ \A i \in 1..((m + n) - m) : u[i] = s[m + i]
  <2>1. s \in Seq(Nat) /\ m \in Nat
      BY <1>1
  <2> QED
      BY <1>2, <2>1, PieceFacts
<1> HIDE DEF u
<1>4. \A i \in 1..Len(u) : u[i] = c[i]
    BY <1>1, <1>2, <1>3
<1>5. u = c
    BY <1>2, <1>3, <1>4, SeqEqual DEF n
<1> QED
    BY <1>1, <1>5 DEF After, u, s, m

\* read_address and drain_address end exactly where encode_address ended.
LEMMA StreamStaysInStep ==
    ASSUME NEW t, IsHost(t), encode_address(t).ok, NEW c \in Seq(Nat)
    PROVE  LET bytes == Tail(encode_address(t).value)
           IN  /\ read_address(t.kind, bytes \o c) = Ok([target |-> t, rest |-> c])
               /\ drain_address(t.kind, bytes \o c) = Ok(c)
               /\ \A q \in ProperPrefixes(bytes) : read_address(t.kind, q) = Error
<1> DEFINE b == Tail(encode_address(t).value)
           s == b \o c
           n == HostSize(t)
<1>1. /\ b \in Seq(Nat) /\ Len(b) = n
      /\ \A q \in Seq(Nat) :
            (\A i \in 1..n : i <= Len(q) => q[i] = b[i]) => BeginsHost(q, t)
    BY AddressIsWritten
<1> HIDE DEF b
<1>2. n \in Nat \ {0} /\ n = HostStart(t.kind) + Len(t.address) + LEN_WIDTH
      /\ HostStart(t.kind) \in Nat /\ Len(t.address) \in Nat /\ LEN_WIDTH \in Nat
    BY HostFacts, WidthFacts DEF HostSize
<1>3. s \in Seq(Nat) /\ Len(s) = n + Len(c) /\ Len(c) \in Nat
      /\ \A i \in 1..n : s[i] = b[i]
  <2>1. b \in Seq(Nat) /\ c \in Seq(Nat)
      BY <1>1
  <2>2. b \o c \in Seq(Nat) /\ Len(b \o c) = Len(b) + Len(c) /\ Len(c) \in Nat
        /\ \A i \in 1..Len(b) : (b \o c)[i] = b[i]
      BY <2>1, JoinFacts
  <2> QED
      BY <1>1, <2>2
<1> HIDE DEF n, s
<1>4. BeginsHost(s, t)
    BY <1>1, <1>3
<1>5. Complete(t.kind, s)
  <2>1. Len(s) >= n
      BY <1>2, <1>3
  <2> QED
      BY <1>3, <1>4, <2>1, AddressIsFound DEF n
<1>6. HostEnd(t.kind, s) + LEN_WIDTH = Len(b) /\ AddressOf(t.kind, s) = t
    BY <1>1, <1>2, <1>3, <1>4, <1>5, AddressIsFound
<1>7. After(s, Len(b)) = c
    BY <1>1, RestIsLeft DEF s
<1>8. read_address(t.kind, s) = Ok([target |-> t, rest |-> c]) /\ drain_address(t.kind, s) = Ok(c)
    BY <1>5, <1>6, <1>7 DEF read_address, drain_address
<1>9. ASSUME NEW q \in ProperPrefixes(b) PROVE read_address(t.kind, q) = Error
  <2>1. PICK j \in 0..Len(b) - 1 : q = SubSeq(b, 1, j)
      BY DEF ProperPrefixes
  <2>2. j \in 0..Len(b) /\ j < n /\ j \in Nat
      BY <1>1, <1>2
  <2>3. q \in Seq(Nat) /\ Len(q) = j /\ \A i \in 1..j : q[i] = b[i]
      BY <1>1, <2>1, <2>2, PrefixFacts
  <2>4. \A i \in 1..n : i <= Len(q) => q[i] = b[i]
      BY <1>2, <2>2, <2>3
  <2>5. BeginsHost(q, t)
      BY <1>1, <2>3, <2>4
  <2>6. ~(Len(q) >= n)
      BY <1>2, <2>2, <2>3
  <2>7. ~Complete(t.kind, q)
      BY <2>3, <2>5, <2>6, AddressIsFound DEF n
  <2> QED
      BY <2>7 DEF read_address
<1> QED
    BY <1>8, <1>9 DEF b, s

\* decode_udp_datagram undoes encode_udp_datagram, but for an empty host.
LEMMA DatagramRoundTrip ==
    ASSUME NEW t, IsHost(t), NEW c \in Seq(Nat), encode_udp_datagram(t, c).ok
    PROVE  decode_udp_datagram(encode_udp_datagram(t, c).value) =
               IF t.address = <<>> THEN Error ELSE Ok([target |-> t, data |-> c])
<1> DEFINE v == encode_address(t).value
           z == <<0, 0, 0>>
           zv == z \o v
           u == zv \o c
           b == Tail(v)
           s == b \o c
           n == HostSize(t)
           h == HostStart(t.kind)
           k == Len(t.address)
<1>1. encode_address(t).ok /\ encode_udp_datagram(t, c).value = u
    BY DEF encode_udp_datagram, Ok, Error
<1>2. /\ v \in Seq(Nat) /\ Len(v) = n + 1 /\ v[1] = t.kind
      /\ b \in Seq(Nat) /\ Len(b) = n /\ \A i \in 1..n : b[i] = v[i + 1]
    BY <1>1, AddressIsWritten
<1>3. \A q \in Seq(Nat) :
          (\A i \in 1..n : i <= Len(q) => q[i] = b[i]) => BeginsHost(q, t)
    BY <1>1, AddressIsWritten
<1>4. n \in Nat \ {0} /\ n = h + k + LEN_WIDTH /\ h \in Nat /\ k \in Nat /\ LEN_WIDTH \in Nat
    BY HostFacts, WidthFacts DEF HostSize
<1>5. z \in Seq(Nat) /\ Len(z) = 3 /\ z[3] = 0
    OBVIOUS
<1> HIDE DEF v, z, b, n, h, k
<1>6. /\ zv \in Seq(Nat) /\ Len(zv) = Len(z) + Len(v)
      /\ \A i \in 1..Len(z) : zv[i] = z[i]
      /\ \A i \in 1..Len(v) : zv[Len(z) + i] = v[i]
  <2>1. z \in Seq(Nat) /\ v \in Seq(Nat)
      BY <1>2, <1>5
  <2> QED
      BY <2>1, JoinFacts
<1> HIDE DEF zv
<1>7. /\ u \in Seq(Nat) /\ Len(u) = Len(zv) + Len(c) /\ Len(c) \in Nat
      /\ \A i \in 1..Len(zv) : u[i] = zv[i]
      /\ \A i \in 1..Len(c) : u[Len(zv) + i] = c[i]
  <2>1. zv \in Seq(Nat) /\ c \in Seq(Nat)
      BY <1>6
  <2> QED
      BY <2>1, JoinFacts
<1>8. /\ s \in Seq(Nat) /\ Len(s) = Len(b) + Len(c)
      /\ \A i \in 1..Len(b) : s[i] = b[i]
      /\ \A i \in 1..Len(c) : s[Len(b) + i] = c[i]
  <2>1. b \in Seq(Nat) /\ c \in Seq(Nat)
      BY <1>2
  <2> QED
      BY <2>1, JoinFacts
<1>9. After(s, Len(b)) = c
    BY <1>2, RestIsLeft
<1> HIDE DEF u, s
<1>10. Len(zv) = n + 4 /\ Len(u) = n + 4 + Len(c) /\ Len(s) = n + Len(c)
    BY <1>2, <1>4, <1>5, <1>6, <1>7, <1>8
<1>11. u[3] = 0 /\ u[4] = t.kind
  <2>1. 3 \in 1..Len(z) /\ 1 \in 1..Len(v) /\ Len(z) + 1 = 4 /\ 3 \in 1..Len(zv) /\ 4 \in 1..Len(zv)
      BY <1>2, <1>4, <1>5, <1>10
  <2>2. u[3] = zv[3] /\ zv[3] = z[3] /\ u[4] = zv[4]
      BY <1>6, <1>7, <2>1
  <2>3. zv[Len(z) + 1] = v[1]
      BY <1>6, <2>1
  <2> QED
      BY <1>2, <1>5, <2>1, <2>2, <2>3
<1>12. After(u, 4) = s
  <2> DEFINE r == SubSeq(u, 4 + 1, Len(u))
  <2>1. 4 \in Nat /\ Len(u) \in Nat /\ 4 <= Len(u) /\ Len(u) <= Len(u)
        /\ Len(u) - 4 = Len(s)
      BY <1>4, <1>7, <1>10
  <2>2. r \in Seq(Nat) /\ Len(r) = Len(u) - 4 /\ \A i \in 1..(Len(u) - 4) : r[i] = u[4 + i]
    <3> DEFINE f == 4
               m == Len(u)
    <3>1. u \in Seq(Nat) /\ f \in Nat /\ m \in Nat /\ f <= m /\ m <= Len(u)
        BY <1>7, <2>1
    <3> HIDE DEF f, m
    <3>2. /\ SubSeq(u, f + 1, m) \in Seq(Nat) /\ Len(SubSeq(u, f + 1, m)) = m - f
          /\ \A i \in 1..(m - f) : SubSeq(u, f + 1, m)[i] = u[f + i]
        BY <3>1, PieceFacts
    <3> QED
        BY <3>2 DEF f, m
  <2> HIDE DEF r
  <2>3. ASSUME NEW i \in 1..Len(s) PROVE r[i] = s[i]
    <3>1. r[i] = u[4 + i]
        BY <2>1, <2>2
    <3>2. CASE i \in 1..n
      <4>1. 4 + i \in 1..Len(zv) /\ i + 1 \in 1..Len(v) /\ Len(z) + (i + 1) = 4 + i
            /\ i \in 1..Len(b)
          BY <1>2, <1>4, <1>5, <1>10, <3>2
      <4>2. u[4 + i] = zv[4 + i]
          BY <1>7, <4>1
      <4>3. zv[Len(z) + (i + 1)] = v[i + 1]
          BY <1>6, <4>1
      <4>4. b[i] = v[i + 1] /\ s[i] = b[i]
          BY <1>2, <1>8, <3>2, <4>1
      <4> QED
          BY <3>1, <4>1, <4>2, <4>3, <4>4
    <3>3. CASE i \notin 1..n
      <4> DEFINE j == i - n
      <4>1. j \in 1..Len(c) /\ Len(zv) + j = 4 + i /\ Len(b) + j = i
          BY <1>2, <1>4, <1>7, <1>10, <3>3
      <4> HIDE DEF j
      <4>2. u[Len(zv) + j] = c[j] /\ s[Len(b) + j] = c[j]
          BY <1>7, <1>8, <4>1
      <4> QED
          BY <3>1, <4>1, <4>2
    <3> QED
        BY <3>2, <3>3
  <2>4. r = s
      BY <1>8, <2>1, <2>2, <2>3, SeqEqual
  <2> QED
      BY <2>4 DEF After, r
<1>13. BeginsHost(s, t)
    BY <1>2, <1>3, <1>8
<1>14. Complete(t.kind, s)
  <2>1. Len(s) >= n
      BY <1>4, <1>7, <1>10
  <2> QED
      BY <1>8, <1>13, <2>1, AddressIsFound DEF n
<1>15. HostEnd(t.kind, s) = h + k /\ AddressOf(t.kind, s) = t
    BY <1>8, <1>13, <1>14, AddressIsFound DEF h, k
<1>16. h + k > h <=> t.address # <<>>
  <2>1. k = 0 <=> t.address = <<>>
      BY HostFacts, EmptySeq DEF k
  <2> QED
      BY <1>4, <2>1
<1>17. parse_udp_address(t.kind, s) =
           IF t.address # <<>> THEN Ok([target |-> t, consumed |-> Len(b)]) ELSE Error
  <2>1. h + k + LEN_WIDTH = Len(b)
      BY <1>2, <1>4
  <2> QED
      BY <1>14, <1>15, <1>16, <2>1 DEF parse_udp_address, h
<1>18. ~(Len(u) < 4)
    BY <1>4, <1>7, <1>10
<1>19. decode_udp_datagram(u) =
           IF t.address = <<>> THEN Error ELSE Ok([target |-> t, data |-> c])
  <2> DEFINE p == parse_udp_address(t.kind, s)
  <2>1. decode_udp_datagram(u) = IF p.ok THEN Ok([target |-> p.value.target,
                                                  data |-> After(s, p.value.consumed)])
                                 ELSE Error
      BY <1>11, <1>12, <1>18 DEF decode_udp_datagram
  <2>2. CASE t.address = <<>>
    <3>1. p = Error
        BY <1>17, <2>2
    <3> QED
        BY <2>1, <2>2, <3>1 DEF Error
  <2>3. CASE t.address # <<>>
    <3>1. p = Ok([target |-> t, consumed |-> Len(b)])
        BY <1>17, <2>3
    <3>2. p.ok /\ p.value.target = t /\ p.value.consumed = Len(b)
        BY <3>1 DEF Ok
    <3> QED
        BY <1>9, <2>1, <2>3, <3>2
  <2> QED
      BY <2>2, <2>3
<1> QED
    BY <1>1, <1>19

------------------------------------------------------------------------------
(* The answers *)

\* An answer is what the operator says of the question.
Answers ==
    /\ question.about = "pick" =>
          /\ question.links \in Pools
          /\ answered => answer = Counts(question.links)
    /\ question.about = "ports" =>
          /\ question.ports \in Configurations
          /\ answered => answer = parse_ports(question.ports)
    /\ question.about = "date" =>
          /\ question.day \in Days
          /\ answered => answer = <<days_to_civil(question.day), days_to_civil(question.day + 1)>>
    /\ question.about = "log" =>
          /\ question.day \in Days /\ question.keep \in Keeps
          /\ question.events \in [1..MaxEvents -> Events]
          /\ answered => answer = LogAfter(question.day, question.keep, question.events)
    /\ question.about = "target" =>
          /\ question.target \in Targets
          /\ answered => answer = encode(question.target)
    /\ question.about = "address" =>
          /\ question.target \in Hosts /\ question.data \in Contents
          /\ answered =>
                answer = [stream |-> encode_address(question.target),
                          datagram |-> encode_udp_datagram(question.target, question.data)]

\* Nothing is answered at first.
LEMMA AnswersAsked == Asked => Answers
BY DEF Asked, Answers

\* Every answer is that of its operator.
LEMMA AnswersReply ==
    ASSUME Answers, [Reply]_<<question, answer, answered>>
    PROVE  Answers'
<1>1. CASE Pick
    BY <1>1 DEF Pick, Answer, Answers
<1>2. CASE Parse
    BY <1>2 DEF Parse, Answer, Answers
<1>3. CASE Date
    BY <1>3 DEF Date, Answer, Answers
<1>4. CASE Log
    BY <1>4 DEF Log, Answer, Answers
<1>5. CASE Syn
    BY <1>5 DEF Syn, Answer, Answers
<1>6. CASE Address
    BY <1>6 DEF Address, Answer, Answers
<1>7. CASE UNCHANGED <<question, answer, answered>>
    BY <1>7 DEF Answers
<1> QED
    BY <1>1, <1>2, <1>3, <1>4, <1>5, <1>6, <1>7 DEF Reply

\* Every answer is what the code computes for a question of the instance: the fact
\* from which the answers' properties follow.
THEOREM AnswersRight == Questions => []Answers
<1>1. Answers /\ [Reply]_<<question, answer, answered>> => Answers'
    BY AnswersReply
<1> QED
    BY <1>1, AnswersAsked, PTL DEF Questions

\* The hosts of MCAlgorithms are ones the program can hold.
LEMMA HostsAreHosts == ASSUME NEW t \in Hosts PROVE IsHost(t)
<1>1. CASE \E a \in SeqsUpTo(Bytes, MaxAddress), p \in PortValues :
              t = TargetAddr(ATYP_DOMAIN, a, p)
  <2>1. PICK a \in SeqsUpTo(Bytes, MaxAddress), p \in PortValues : t = TargetAddr(ATYP_DOMAIN, a, p)
      BY <1>1
  <2>2. a \in Seq(Byte) /\ p \in Uint(LEN_WIDTH)
      BY SeqsUpToFacts, AlgorithmsAssumption, SeqMonotonic
  <2> QED
      BY <2>1, <2>2 DEF IsHost, TargetAddr, ATYPS, ATYP_IPV4, ATYP_IPV6, ATYP_DOMAIN
<1>2. CASE \E a \in [1..V4_LEN -> Bytes], p \in PortValues : t = TargetAddr(ATYP_IPV4, a, p)
  <2>1. PICK a \in [1..V4_LEN -> Bytes], p \in PortValues : t = TargetAddr(ATYP_IPV4, a, p)
      BY <1>2
  <2>2. V4_LEN \in Nat
      BY AddressAssumption
  <2>3. a \in Seq(Byte)
      BY <2>2, AlgorithmsAssumption, SeqDef, SeqMonotonic
  <2>4. Len(a) = V4_LEN /\ p \in Uint(LEN_WIDTH)
      BY <2>2, <2>3, AlgorithmsAssumption, LenProperties
  <2> QED
      BY <2>1, <2>3, <2>4 DEF IsHost, TargetAddr, ATYPS, ATYP_IPV4, ATYP_IPV6, ATYP_DOMAIN
<1>3. CASE \E a \in [1..V6_LEN -> Bytes], p \in PortValues : t = TargetAddr(ATYP_IPV6, a, p)
  <2>1. PICK a \in [1..V6_LEN -> Bytes], p \in PortValues : t = TargetAddr(ATYP_IPV6, a, p)
      BY <1>3
  <2>2. V6_LEN \in Nat
      BY AddressAssumption
  <2>3. a \in Seq(Byte)
      BY <2>2, AlgorithmsAssumption, SeqDef, SeqMonotonic
  <2>4. Len(a) = V6_LEN /\ p \in Uint(LEN_WIDTH)
      BY <2>2, <2>3, AlgorithmsAssumption, LenProperties
  <2> QED
      BY <2>1, <2>3, <2>4 DEF IsHost, TargetAddr, ATYPS, ATYP_IPV4, ATYP_IPV6, ATYP_DOMAIN
<1> QED
    BY <1>1, <1>2, <1>3 DEF Hosts

\* The round trips, for the answers.
LEMMA AnswersTarget == Answers => TargetIntact
<1> SUFFICES ASSUME Answers PROVE TargetArrives /\ StreamInStep /\ DatagramIntact
    BY DEF TargetIntact
<1>1. TargetArrives
  <2> SUFFICES ASSUME Answered("target")
               PROVE  IF Len(question.target.address) > MAX_PAYLOAD THEN ~answer.ok
                      ELSE /\ decode(answer.value) = Ok(question.target)
                           /\ \A p \in ProperPrefixes(answer.value) : ~decode(p).ok
      BY DEF TargetArrives
  <2>1. question.target \in Targets /\ answer = encode(question.target)
      BY DEF Answered, Answers
  <2>2. PICK a \in SeqsUpTo(Bytes, MaxAddress), p \in PortValues :
            question.target = Target(6, a, p)
      BY <2>1 DEF Targets
  <2>3. a \in Seq(Byte) /\ p \in Uint(LEN_WIDTH)
      BY SeqsUpToFacts, AlgorithmsAssumption, SeqMonotonic
  <2>4. question.target.address = a
      BY <2>2 DEF Target
  <2>5. Len(a) \in Nat /\ MAX_PAYLOAD \in Nat /\ Power(LEN_WIDTH) = MAX_PAYLOAD + 1
    <3>1. Power(LEN_WIDTH) \in Nat
        BY WidthFacts, PowerFacts
    <3> QED
        BY <2>3, <3>1, LenProperties, WidthFacts DEF MAX_PAYLOAD
  <2>6. CASE Len(a) > MAX_PAYLOAD
    <3>1. Len(a) >= Power(LEN_WIDTH)
        BY <2>5, <2>6
    <3>2. answer = Error
        BY <2>1, <2>4, <3>1 DEF encode
    <3> QED
        BY <2>4, <2>6, <3>2 DEF Error
  <2>7. CASE ~(Len(a) > MAX_PAYLOAD)
    <3>1. Len(a) <= MAX_PAYLOAD /\ 6 \in Nat
        BY <2>5, <2>7
    <3>2. decode(answer.value) = Ok(question.target)
          /\ \A q \in ProperPrefixes(answer.value) : decode(q) = Error
        BY <2>1, <2>2, <2>3, <3>1, TargetRoundTrip
    <3>3. ~Error.ok
        BY DEF Error
    <3> QED
        BY <2>4, <2>7, <3>2, <3>3
  <2> QED
      BY <2>6, <2>7
<1>2. ASSUME Answered("address")
      PROVE  /\ IsHost(question.target) /\ question.data \in Seq(Nat)
             /\ answer.stream = encode_address(question.target)
             /\ answer.datagram = encode_udp_datagram(question.target, question.data)
  <2>1. question.target \in Hosts /\ question.data \in Contents
        /\ answer = [stream |-> encode_address(question.target),
                     datagram |-> encode_udp_datagram(question.target, question.data)]
      BY <1>2 DEF Answered, Answers
  <2>2. question.data \in Seq(Nat)
      BY <2>1, AlgorithmsAssumption, ByteIsNat
  <2> QED
      BY <2>1, <2>2, HostsAreHosts
<1>3. StreamInStep
  <2> SUFFICES ASSUME Answered("address"), answer.stream.ok
               PROVE  LET bytes == Tail(answer.stream.value)
                          atyp == question.target.kind
                      IN  /\ read_address(atyp, bytes \o question.data)
                                 = Ok([target |-> question.target, rest |-> question.data])
                          /\ drain_address(atyp, bytes \o question.data) = Ok(question.data)
                          /\ \A p \in ProperPrefixes(bytes) : ~read_address(atyp, p).ok
      BY DEF StreamInStep
  <2> DEFINE t == question.target
             c == question.data
  <2>1. IsHost(t) /\ c \in Seq(Nat) /\ answer.stream = encode_address(t)
      BY <1>2
  <2>2. encode_address(t).ok
      BY <2>1
  <2> HIDE DEF t, c
  <2> DEFINE b == Tail(encode_address(t).value)
  <2>3. /\ read_address(t.kind, b \o c) = Ok([target |-> t, rest |-> c])
        /\ drain_address(t.kind, b \o c) = Ok(c)
        /\ \A q \in ProperPrefixes(b) : read_address(t.kind, q) = Error
      BY <2>1, <2>2, StreamStaysInStep
  <2>4. b = Tail(answer.stream.value)
      BY <2>1
  <2> HIDE DEF b
  <2>5. ~Error.ok
      BY DEF Error
  <2> QED
      BY <2>3, <2>4, <2>5 DEF t, c
<1>4. DatagramIntact
  <2> SUFFICES ASSUME Answered("address"), answer.datagram.ok
               PROVE  decode_udp_datagram(answer.datagram.value) =
                          IF question.target.address = <<>> THEN Error
                          ELSE Ok([target |-> question.target, data |-> question.data])
      BY DEF DatagramIntact
  <2> QED
      BY <1>2, DatagramRoundTrip
<1> QED
    BY <1>1, <1>3, <1>4

\* The target a client asks for is the one the reassembler connects or sends to:
\* SynTarget::encode and decode, read_address and drain_address, and the UDP
\* datagrams, for every address, port and data.
THEOREM TargetsIntact == Questions => []TargetIntact
BY AnswersRight, AnswersTarget, PTL

------------------------------------------------------------------------------
(* The ports of a configuration *)

DedupUpTo(v) ==
    CHOOSE out : out = [i \in 0..Len(v) |->
                           IF i = 0 THEN <<>>
                           ELSE IF v[i] \in ToSet(out[i - 1]) THEN out[i - 1]
                           ELSE Append(out[i - 1], v[i])]

\* The function behind Dedup is the one its equation asks for.
LEMMA DedupIs ==
    ASSUME NEW v \in Seq(Int)
    PROVE  \E g \in [0..Len(v) -> Seq(Int)] :
              /\ g[0] = <<>>
              /\ \A i \in 1..Len(v) :
                    g[i] = IF v[i] \in ToSet(g[i - 1]) THEN g[i - 1] ELSE Append(g[i - 1], v[i])
              /\ Dedup(v) = g[Len(v)]
<1> DEFINE k == Len(v)
           Then(s, x) == IF x \in ToSet(s) THEN s ELSE Append(s, x)
           step == [i \in 1..k |-> [s \in Seq(Int) |-> Then(s, v[i])]]
           Eqn(p) == p = [i \in 0..k |-> IF i = 0 THEN <<>> ELSE Then(p[i - 1], v[i])]
           P == DedupUpTo(v)
<1>1. k \in Nat /\ \A i \in 1..k : v[i] \in Int
    BY LenProperties, ElementOfSeq
<1>2. Dedup(v) = P[k]
    BY DEF Dedup, DedupUpTo
<1> HIDE DEF k
<1>3. step \in [1..k -> [Seq(Int) -> Seq(Int)]]
  <2>1. ASSUME NEW i \in 1..k, NEW s \in Seq(Int) PROVE Then(s, v[i]) \in Seq(Int)
      BY <1>1, AppendFacts
  <2> HIDE DEF Then
  <2> QED
      BY <2>1
<1>4. PICK g \in [0..k -> Seq(Int)] : Follows(g, k, <<>>, step)
  <2>1. <<>> \in Seq(Int)
      BY EmptySeq
  <2> HIDE DEF step
  <2> QED
      BY <1>1, <1>3, <2>1, RecursionExists
<1>5. g[0] = <<>>
    BY <1>4 DEF Follows
<1>6. ASSUME NEW i \in 1..k PROVE g[i] = Then(g[i - 1], v[i])
  <2>1. i - 1 \in 0..k
      BY <1>1
  <2>2. g[i - 1] \in Seq(Int)
      BY <2>1
  <2>3. g[i] = step[i][g[i - 1]]
      BY <1>4 DEF Follows
  <2> HIDE DEF Then
  <2> QED
      BY <2>2, <2>3
<1> HIDE DEF Then
<1>7. Eqn(g)
  <2>1. ASSUME NEW i \in 0..k PROVE g[i] = IF i = 0 THEN <<>> ELSE Then(g[i - 1], v[i])
    <3>1. i # 0 => i \in 1..k
        BY <1>1
    <3> QED
        BY <1>5, <1>6, <3>1
  <2>2. g = [i \in 0..k |-> g[i]]
      OBVIOUS
  <2> QED
      BY <2>1, <2>2, Zenon
<1>8. Eqn(P)
    BY <1>7, Zenon DEF DedupUpTo, k, Then
<1> HIDE DEF P
<1>9. P[0] = <<>> /\ \A i \in 1..k : P[i] = Then(P[i - 1], v[i])
  <2>1. \A i \in 0..k : P[i] = IF i = 0 THEN <<>> ELSE Then(P[i - 1], v[i])
      BY <1>8, Zenon
  <2>2. 0 \in 0..k /\ \A i \in 1..k : i \in 0..k /\ i # 0
      BY <1>1
  <2> QED
      BY <2>1, <2>2, Zenon
<1>10. P[k] = g[k]
  <2>1. P[0] = g[0] /\ \A i \in 1..k : P[i - 1] = g[i - 1] => P[i] = g[i]
      BY <1>5, <1>6, <1>9
  <2>2. Agree(P, g, k)
      BY <2>1 DEF Agree
  <2>3. \A i \in 0..k : P[i] = g[i]
      BY <1>1, <2>2, RecursionUnique
  <2> QED
      BY <1>1, <2>3
<1> QED
    BY <1>2, <1>5, <1>6, <1>10 DEF k, Then

\* x is in v at m and not before.
FirstAt(v, x, m) == v[m] = x /\ \A q \in 1..(m - 1) : v[q] # x

\* d holds each of the first n elements of v once, in the order in which they
\* come first.
Distinct(d, v, n) ==
    /\ d \in Seq(Int) /\ Len(d) <= n
    /\ \A m \in 1..n : \E j \in 1..Len(d) : d[j] = v[m]
    /\ \A j \in 1..Len(d) : \E m \in 1..n : FirstAt(v, d[j], m)
    /\ \A j, k \in 1..Len(d) : \A m, l \in 1..n :
          j < k /\ FirstAt(v, d[j], m) /\ FirstAt(v, d[k], l) => m < l

\* There is one first place.
LEMMA FirstUnique ==
    ASSUME NEW v, NEW x, NEW m \in Nat \ {0}, NEW l \in Nat \ {0},
           FirstAt(v, x, m), FirstAt(v, x, l)
    PROVE  m = l
<1>1. ~(m < l)
  <2>1. m < l => m \in 1..(l - 1)
      OBVIOUS
  <2> QED
      BY <2>1 DEF FirstAt
<1>2. ~(l < m)
  <2>1. l < m => l \in 1..(m - 1)
      OBVIOUS
  <2> QED
      BY <2>1 DEF FirstAt
<1> QED
    BY <1>1, <1>2

\* The elements of a sequence, as a set.
LEMMA ToSetFacts ==
    ASSUME NEW s \in Seq(Int)
    PROVE  /\ ToSet(s) = {s[i] : i \in 1..Len(s)} /\ ToSet(s) \subseteq Int
           /\ s = <<>> <=> ToSet(s) = {}
<1>1. Len(s) \in Nat /\ DOMAIN s = 1..Len(s) /\ \A i \in 1..Len(s) : s[i] \in Int
    BY LenProperties, ElementOfSeq
<1>2. ToSet(s) = {s[i] : i \in 1..Len(s)}
    BY <1>1 DEF ToSet
<1>3. ASSUME s # <<>> PROVE ToSet(s) # {}
  <2>1. 1 \in 1..Len(s)
      BY <1>1, <1>3, EmptySeq
  <2> QED
      BY <1>2, <2>1
<1>4. ASSUME s = <<>> PROVE ToSet(s) = {}
  <2>1. Len(s) = 0
      BY <1>4, EmptySeq
  <2> QED
      BY <1>1, <1>2, <2>1
<1> QED
    BY <1>1, <1>2, <1>3, <1>4

\* Dedup keeps the first mention of every port, by that invariant of its loop.
LEMMA DedupDistinct ==
    ASSUME NEW v \in Seq(Int)
    PROVE  Distinct(Dedup(v), v, Len(v))
<1> DEFINE n == Len(v)
<1>1. PICK g \in [0..n -> Seq(Int)] :
          /\ g[0] = <<>>
          /\ \A i \in 1..n :
                g[i] = IF v[i] \in ToSet(g[i - 1]) THEN g[i - 1] ELSE Append(g[i - 1], v[i])
          /\ Dedup(v) = g[n]
    BY DedupIs
<1>2. n \in Nat /\ \A i \in 1..n : v[i] \in Int
    BY LenProperties, ElementOfSeq
<1> HIDE DEF n
<1> DEFINE T == {i \in 0..n : Distinct(g[i], v, i)}
<1>3. 0 \in T
  <2>1. g[0] \in Seq(Int) /\ Len(g[0]) = 0
      BY <1>1, EmptySeq
  <2>2. 0 \in 0..n
      BY <1>2
  <2> QED
      BY <2>1, <2>2 DEF Distinct
<1>4. ASSUME NEW i \in 1..n, i - 1 \in T PROVE i \in T
  <2> DEFINE d == g[i - 1]
             x == v[i]
  <2>1. i \in 0..n /\ i - 1 \in 0..n /\ i \in Nat \ {0} /\ i - 1 \in Nat /\ x \in Int
      BY <1>2
  <2>2. Distinct(d, v, i - 1)
      BY <1>4
  <2>3. g[i] = IF x \in ToSet(d) THEN d ELSE Append(d, x)
      BY <1>1
  <2> HIDE DEF d, x
  <2>4. d \in Seq(Int) /\ Len(d) \in Nat /\ Len(d) <= i - 1
      BY <2>2, LenProperties DEF Distinct
  <2>5. \A m \in 1..i : m = i \/ m \in 1..(i - 1)
      BY <2>1
  <2>6. x \in ToSet(d) <=> \E j \in 1..Len(d) : d[j] = x
      BY <2>4, ToSetFacts
  <2>7. CASE x \in ToSet(d)
    <3>1. PICK j0 \in 1..Len(d) : d[j0] = x
        BY <2>6, <2>7
    <3>2. PICK m0 \in 1..(i - 1) : FirstAt(v, x, m0)
        BY <2>2, <3>1 DEF Distinct
    <3>3. \A y : ~(FirstAt(v, y, i))
      <4>1. SUFFICES ASSUME NEW y, FirstAt(v, y, i) PROVE FALSE
          OBVIOUS
      <4>2. y = x /\ v[m0] = x
          BY <3>2, <4>1 DEF FirstAt, x
      <4> QED
          BY <3>2, <4>1, <4>2 DEF FirstAt
    <3>4. Len(d) <= i
        BY <2>1, <2>4
    <3>5. \A m \in 1..i : \E j \in 1..Len(d) : d[j] = v[m]
      <4>1. SUFFICES ASSUME NEW m \in 1..i PROVE \E j \in 1..Len(d) : d[j] = v[m]
          OBVIOUS
      <4>2. CASE m = i
          BY <3>1, <4>2 DEF x
      <4>3. CASE m \in 1..(i - 1)
          BY <2>2, <4>3 DEF Distinct
      <4> QED
          BY <2>5, <4>2, <4>3
    <3>6. \A j \in 1..Len(d) : \E m \in 1..i : FirstAt(v, d[j], m)
      <4>1. \A m \in 1..(i - 1) : m \in 1..i
          BY <2>1
      <4> QED
          BY <2>2, <4>1 DEF Distinct
    <3>7. ASSUME NEW j \in 1..Len(d), NEW k \in 1..Len(d), NEW m \in 1..i, NEW l \in 1..i,
                 j < k, FirstAt(v, d[j], m), FirstAt(v, d[k], l)
          PROVE  m < l
      <4>1. m \in 1..(i - 1) /\ l \in 1..(i - 1)
          BY <2>5, <3>3, <3>7
      <4> QED
          BY <2>2, <3>7, <4>1 DEF Distinct
    <3>8. Distinct(d, v, i)
        BY <2>4, <3>4, <3>5, <3>6, <3>7 DEF Distinct
    <3> QED
        BY <2>1, <2>3, <2>7, <3>8
  <2>8. CASE x \notin ToSet(d)
    <3> DEFINE e == Append(d, x)
               k0 == Len(d) + 1
    <3>1. e \in Seq(Int) /\ Len(e) = k0 /\ e[k0] = x /\ \A j \in 1..Len(d) : e[j] = d[j]
        BY <2>1, <2>4, AppendFacts
    <3> HIDE DEF e
    <3>2. k0 \in 1..Len(e) /\ \A j \in 1..Len(e) : j = k0 \/ j \in 1..Len(d)
        BY <2>4, <3>1
    <3>3. \A q \in 1..(i - 1) : v[q] # x
      <4>1. SUFFICES ASSUME NEW q \in 1..(i - 1), v[q] = x PROVE FALSE
          OBVIOUS
      <4>2. \E j \in 1..Len(d) : d[j] = v[q]
          BY <2>2 DEF Distinct
      <4> QED
          BY <2>6, <2>8, <4>1, <4>2
    <3>4. FirstAt(v, x, i)
        BY <3>3 DEF FirstAt, x
    <3>5. ASSUME NEW j \in 1..Len(d), NEW m \in 1..i, FirstAt(v, d[j], m) PROVE m \in 1..(i - 1)
      <4>1. m # i
        <5>1. SUFFICES ASSUME m = i PROVE FALSE
            OBVIOUS
        <5>2. d[j] = x
            BY <3>5, <5>1 DEF FirstAt, x
        <5> QED
            BY <2>6, <2>8, <5>2
      <4> QED
          BY <2>5, <4>1
    <3>6. Len(e) <= i
        BY <2>1, <2>4, <3>1
    <3>7. \A m \in 1..i : \E j \in 1..Len(e) : e[j] = v[m]
      <4>1. SUFFICES ASSUME NEW m \in 1..i PROVE \E j \in 1..Len(e) : e[j] = v[m]
          OBVIOUS
      <4>2. CASE m = i
          BY <3>1, <3>2, <4>2 DEF x
      <4>3. CASE m \in 1..(i - 1)
        <5>1. PICK j \in 1..Len(d) : d[j] = v[m]
            BY <2>2, <4>3 DEF Distinct
        <5>2. j \in 1..Len(e)
            BY <2>4, <3>1
        <5> QED
            BY <3>1, <5>1, <5>2
      <4> QED
          BY <2>5, <4>2, <4>3
    <3>8. ASSUME NEW j \in 1..Len(e) PROVE \E m \in 1..i : FirstAt(v, e[j], m)
      <4>1. CASE j = k0
        <5>1. i \in 1..i
            BY <2>1
        <5> QED
            BY <3>1, <3>4, <4>1, <5>1
      <4>2. CASE j \in 1..Len(d)
        <5>1. PICK m \in 1..(i - 1) : FirstAt(v, d[j], m)
            BY <2>2, <4>2 DEF Distinct
        <5>2. m \in 1..i /\ e[j] = d[j]
            BY <2>1, <3>1, <4>2
        <5> QED
            BY <5>1, <5>2
      <4> QED
          BY <3>2, <4>1, <4>2
    <3>9. ASSUME NEW j \in 1..Len(e), NEW k \in 1..Len(e), NEW m \in 1..i, NEW l \in 1..i,
                 j < k, FirstAt(v, e[j], m), FirstAt(v, e[k], l)
          PROVE  m < l
      <4>1. j \in 1..Len(d)
          BY <2>4, <3>1, <3>9
      <4>2. m \in 1..(i - 1) /\ FirstAt(v, d[j], m)
          BY <3>1, <3>5, <3>9, <4>1
      <4>3. CASE k = k0
        <5>1. e[k] = x
            BY <3>1, <4>3
        <5>2. l = i
            BY <2>1, <3>4, <3>9, <5>1, FirstUnique
        <5> QED
            BY <2>1, <4>2, <5>2
      <4>4. CASE k \in 1..Len(d)
        <5>1. l \in 1..(i - 1) /\ FirstAt(v, d[k], l)
            BY <3>1, <3>5, <3>9, <4>4
        <5> QED
            BY <2>2, <3>9, <4>1, <4>2, <4>4, <5>1 DEF Distinct
      <4> QED
          BY <3>2, <4>3, <4>4
    <3>10. Distinct(e, v, i)
        BY <3>1, <3>6, <3>7, <3>8, <3>9 DEF Distinct
    <3> QED
        BY <2>1, <2>3, <2>8, <3>10 DEF e
  <2> QED
      BY <2>7, <2>8
<1>5. n \in T
  <2> HIDE DEF T
  <2>1. \A i \in 0..n : i \in T
      BY <1>2, <1>3, <1>4, UpTo
  <2> QED
      BY <1>2, <2>1
<1> QED
    BY <1>1, <1>5 DEF n

\* What PortsUsable needs of the ports that are left.
LEMMA DedupFacts ==
    ASSUME NEW v \in Seq(Int)
    PROVE  LET d == Dedup(v)
           IN  /\ d \in Seq(Int) /\ Len(d) \in Nat /\ Len(d) <= Len(v)
               /\ ToSet(d) = ToSet(v) /\ Cardinality(ToSet(d)) = Len(d)
               /\ \A j, k \in 1..Len(d) : j < k =>
                     \E m, l \in 1..Len(v) :
                         m < l /\ FirstAt(v, d[j], m) /\ FirstAt(v, d[k], l)
<1> DEFINE d == Dedup(v)
           n == Len(v)
<1>1. Distinct(d, v, n)
    BY DedupDistinct
<1> HIDE DEF d
<1>2. d \in Seq(Int) /\ Len(d) \in Nat /\ Len(d) <= n /\ n \in Nat
    BY <1>1, LenProperties DEF Distinct
<1>3. ToSet(d) = {d[j] : j \in 1..Len(d)} /\ ToSet(v) = {v[m] : m \in 1..n}
    BY <1>2, ToSetFacts
<1>4. ToSet(d) = ToSet(v)
  <2>1. ASSUME NEW m \in 1..n PROVE v[m] \in ToSet(d)
      BY <1>1, <1>3 DEF Distinct
  <2>2. ASSUME NEW j \in 1..Len(d) PROVE d[j] \in ToSet(v)
    <3>1. PICK m \in 1..n : FirstAt(v, d[j], m)
        BY <1>1 DEF Distinct
    <3> QED
        BY <1>3, <3>1 DEF FirstAt
  <2> QED
      BY <1>3, <2>1, <2>2
<1>5. ASSUME NEW j \in 1..Len(d), NEW k \in 1..Len(d), j < k
      PROVE  \E m, l \in 1..n : m < l /\ FirstAt(v, d[j], m) /\ FirstAt(v, d[k], l)
  <2>1. PICK m \in 1..n : FirstAt(v, d[j], m)
      BY <1>1 DEF Distinct
  <2>2. PICK l \in 1..n : FirstAt(v, d[k], l)
      BY <1>1 DEF Distinct
  <2>3. m < l
      BY <1>1, <1>5, <2>1, <2>2 DEF Distinct
  <2> QED
      BY <2>1, <2>2, <2>3
<1>6. ASSUME NEW j \in 1..Len(d), NEW k \in 1..Len(d), j < k PROVE d[j] # d[k]
  <2>1. PICK m \in 1..n, l \in 1..n : m < l /\ FirstAt(v, d[j], m) /\ FirstAt(v, d[k], l)
      BY <1>5, <1>6
  <2>2. m \in Nat \ {0} /\ l \in Nat \ {0} /\ m # l
      BY <1>2, <2>1
  <2> QED
      BY <2>1, <2>2, FirstUnique
<1>7. Cardinality(ToSet(d)) = Len(d)
  <2>1. DOMAIN d = 1..Len(d) /\ d \in [1..Len(d) -> ToSet(d)]
    <3>1. DOMAIN d = 1..Len(d) /\ d = [j \in 1..Len(d) |-> d[j]]
        BY <1>2, LenProperties
    <3> QED
        BY <1>3, <3>1
  <2>2. \A j, k \in 1..Len(d) : d[j] = d[k] => j = k
    <3>1. \A j, k \in 1..Len(d) : j < k \/ k < j \/ j = k
        BY <1>2
    <3> QED
        BY <1>6, <3>1
  <2>3. d \in Injection(1..Len(d), ToSet(d))
      BY <2>1, <2>2 DEF Injection, IsInjective
  <2>4. d \in Surjection(1..Len(d), ToSet(d))
      BY <1>3, <2>1 DEF Surjection
  <2>5. ExistsBijection(1..Len(d), ToSet(d))
      BY <2>3, <2>4 DEF ExistsBijection, Bijection
  <2>6. IsFiniteSet(1..Len(d)) /\ Cardinality(1..Len(d)) = Len(d)
    <3>1. 1 \in Int /\ Len(d) \in Int /\ (IF 1 > Len(d) THEN 0 ELSE Len(d) - 1 + 1) = Len(d)
        BY <1>2
    <3>2. /\ IsFiniteSet(1..Len(d))
          /\ Cardinality(1..Len(d)) = IF 1 > Len(d) THEN 0 ELSE Len(d) - 1 + 1
        BY <3>1, FS_Interval
    <3> QED
        BY <3>1, <3>2
  <2> QED
      BY <2>5, <2>6, FS_Bijection
<1> QED
    BY <1>2, <1>4, <1>5, <1>7 DEF d

\* What a configuration names, and what is left to be checked.
LEMMA NamedFacts ==
    ASSUME NEW c \in Configurations
    PROVE  LET v == c.ports
               out == Expand(c)
           IN  /\ v \in Seq(Int) /\ Len(v) \in Nat
               /\ c.form = "range" =>
                     /\ Len(v) = 2 /\ v[1] \in Int /\ v[2] \in Int
                     /\ \A i \in 1..2 : v[i] \in Nat \/ v[i] = NotANumber
                     /\ v[1] <= v[2] =>
                           /\ out \in Seq(Int) /\ Len(out) = v[2] - v[1] + 1
                           /\ \A i \in 1..Len(out) : out[i] = v[1] + i - 1
                           /\ ToSet(out) = v[1]..v[2]
                           /\ Cardinality(v[1]..v[2]) = Len(out)
               /\ c.form # "range" => out = v
<1> DEFINE v == c.ports
           out == Expand(c)
<1>1. CASE \E u \in SeqsUpTo(PortNumbers, MaxList) : c = List(u)
  <2>1. PICK u \in SeqsUpTo(PortNumbers, MaxList) : c = List(u)
      BY <1>1
  <2>2. u \in Seq(PortNumbers) /\ PortNumbers \subseteq Int
      BY SeqsUpToFacts, AlgorithmsAssumption
  <2>3. u \in Seq(Int)
      BY <2>2, SeqMonotonic
  <2>4. c.ports = u /\ c.form = "list"
      BY <2>1 DEF List
  <2> QED
      BY <2>3, <2>4, LenProperties DEF Expand
<1>2. CASE \E a \in PortNumbers \cup {NotANumber} : c = Single(a)
  <2>1. PICK a \in PortNumbers \cup {NotANumber} : c = Single(a)
      BY <1>2
  <2>2. a \in Int
      BY AlgorithmsAssumption DEF NotANumber
  <2>3. c.ports = <<a>> /\ c.form = "single"
      BY <2>1 DEF Single
  <2>4. <<a>> \in Seq(Int)
      BY <2>2
  <2> QED
      BY <2>3, <2>4, LenProperties DEF Expand
<1>3. CASE \E a, b \in PortNumbers \cup {NotANumber} : c = Span(a, b)
  <2>1. PICK a \in PortNumbers \cup {NotANumber}, b \in PortNumbers \cup {NotANumber} :
            c = Span(a, b)
      BY <1>3
  <2>2. a \in Int /\ b \in Int /\ (a \in Nat \/ a = NotANumber) /\ (b \in Nat \/ b = NotANumber)
      BY AlgorithmsAssumption DEF NotANumber
  <2>3. v = <<a, b>> /\ c.form = "range"
      BY <2>1 DEF Span
  <2>4. v \in Seq(Int) /\ Len(v) = 2 /\ v[1] = a /\ v[2] = b
      BY <2>2, <2>3
  <2>5. ASSUME a <= b
        PROVE  /\ out \in Seq(Int) /\ Len(out) = b - a + 1
               /\ \A i \in 1..Len(out) : out[i] = a + i - 1
               /\ ToSet(out) = a..b /\ Cardinality(a..b) = Len(out)
    <3> DEFINE n == b - a + 1
               s == [i \in 1..n |-> a + i - 1]
    <3>1. out = s
        BY <2>3, <2>4 DEF Expand
    <3>2. n \in Nat
        BY <2>2, <2>5
    <3> HIDE DEF n
    <3>3. s \in [1..n -> Int]
        BY <2>2, <3>2
    <3>4. s \in Seq(Int) /\ \A i \in 1..n : s[i] = a + i - 1
        BY <3>2, <3>3, SeqDef
    <3> HIDE DEF s
    <3>5. Len(s) = n
        BY <3>2, <3>3, <3>4, LenProperties
    <3>6. ToSet(s) = a..b
      <4>1. ToSet(s) = {s[i] : i \in 1..n}
          BY <3>4, <3>5, ToSetFacts
      <4>2. ASSUME NEW x \in a..b PROVE x \in ToSet(s)
        <5>1. x - a + 1 \in 1..n /\ a + (x - a + 1) - 1 = x
            BY <2>2 DEF n
        <5> QED
            BY <3>4, <4>1, <5>1
      <4>3. ASSUME NEW i \in 1..n PROVE s[i] \in a..b
        <5>1. a + i - 1 \in a..b
            BY <2>2 DEF n
        <5> QED
            BY <3>4, <5>1
      <4> QED
          BY <4>1, <4>2, <4>3
    <3>7. Cardinality(a..b) = n
      <4>1. Cardinality(a..b) = IF a > b THEN 0 ELSE b - a + 1
          BY <2>2, FS_Interval
      <4>2. ~(a > b)
          BY <2>2, <2>5
      <4> QED
          BY <4>1, <4>2 DEF n
    <3> QED
        BY <3>1, <3>4, <3>5, <3>6, <3>7 DEF n
  <2>6. \A i \in 1..2 : v[i] \in Nat \/ v[i] = NotANumber
    <3>1. \A i \in 1..2 : i = 1 \/ i = 2
        OBVIOUS
    <3> QED
        BY <2>2, <2>4, <3>1
  <2> HIDE DEF v, out
  <2>7. v[1] <= v[2] =>
            /\ out \in Seq(Int) /\ Len(out) = v[2] - v[1] + 1
            /\ \A i \in 1..Len(out) : out[i] = v[1] + i - 1
            /\ ToSet(out) = v[1]..v[2]
            /\ Cardinality(v[1]..v[2]) = Len(out)
      BY <2>4, <2>5
  <2>8. Len(v) \in Nat /\ v[1] \in Int /\ v[2] \in Int
      BY <2>2, <2>4
  <2> QED
      BY <2>3, <2>4, <2>6, <2>7, <2>8 DEF v, out
<1> QED
    BY <1>1, <1>2, <1>3 DEF Configurations

\* PortsUsable, case by case of the configuration.
LEMMA AnswersPorts == Answers => PortsUsable
<1> SUFFICES ASSUME Answers, Answered("ports") PROVE PortsUsable
    BY DEF PortsUsable
<1> DEFINE c == question.ports
           v == c.ports
           out == Expand(c)
           d == Dedup(out)
           named == IF c.form = "range" THEN v[1]..v[2] ELSE ToSet(v)
           first(p) == CHOOSE i \in 1..Len(v) : v[i] = p /\ \A j \in 1..(i - 1) : v[j] # p
           Bad == \/ NotANumber \in ToSet(v)
                  \/ c.form = "range" /\ v[1] > v[2]
                  \/ Len(out) > MAX_PORTS \/ 0 \in ToSet(out) \/ d = <<>>
<1>1. c \in Configurations /\ answer = parse_ports(c)
    BY DEF Answered, Answers
<1>2. answer = IF Bad THEN Rejected ELSE [ok |-> TRUE, value |-> d]
    BY <1>1 DEF parse_ports
<1>3. v \in Seq(Int) /\ Len(v) \in Nat
    BY <1>1, NamedFacts
<1>4. c.form = "range" =>
          /\ Len(v) = 2 /\ v[1] \in Int /\ v[2] \in Int
          /\ \A i \in 1..2 : v[i] \in Nat \/ v[i] = NotANumber
          /\ v[1] <= v[2] =>
                /\ out \in Seq(Int) /\ Len(out) = v[2] - v[1] + 1
                /\ \A i \in 1..Len(out) : out[i] = v[1] + i - 1
                /\ ToSet(out) = v[1]..v[2]
                /\ Cardinality(v[1]..v[2]) = Len(out)
    BY <1>1, NamedFacts
<1>5. c.form # "range" => out = v
    BY <1>1, NamedFacts
<1>6. PortsUsable <=>
          IF answer.ok
          THEN /\ ToSet(answer.value) = named /\ named # {} /\ named \cap {0, NotANumber} = {}
               /\ Len(answer.value) = Cardinality(named) /\ Len(answer.value) <= MAX_PORTS
               /\ \A i, j \in 1..Len(answer.value) : i < j =>
                      IF c.form = "range" THEN answer.value[i] < answer.value[j]
                      ELSE first(answer.value[i]) < first(answer.value[j])
          ELSE \/ named = {} \/ named \cap {0, NotANumber} # {}
               \/ Cardinality(named) > MAX_PORTS \/ Len(v) > MAX_PORTS
               \/ NotANumber \in ToSet(v)
    BY DEF PortsUsable
<1> HIDE DEF c, v, out, d
<1>7. ASSUME c.form = "range", v[1] > v[2] PROVE named = {}
    BY <1>4, <1>7
<1>8. ASSUME ~(c.form = "range" /\ v[1] > v[2])
      PROVE  /\ out \in Seq(Int) /\ Len(out) \in Nat /\ ToSet(out) = named
             /\ d \in Seq(Int) /\ Len(d) \in Nat /\ Len(d) <= Len(out)
             /\ ToSet(d) = named /\ Cardinality(named) = Len(d)
             /\ \A j, k \in 1..Len(d) : j < k =>
                   \E m, l \in 1..Len(out) :
                       m < l /\ FirstAt(out, d[j], m) /\ FirstAt(out, d[k], l)
  <2>1. out \in Seq(Int) /\ ToSet(out) = named
      BY <1>3, <1>4, <1>5, <1>8
  <2>2. Len(out) \in Nat
      BY <2>1, LenProperties
  <2>3. /\ d \in Seq(Int) /\ Len(d) \in Nat /\ Len(d) <= Len(out)
        /\ ToSet(d) = ToSet(out) /\ Cardinality(ToSet(d)) = Len(d)
        /\ \A j, k \in 1..Len(d) : j < k =>
              \E m, l \in 1..Len(out) :
                  m < l /\ FirstAt(out, d[j], m) /\ FirstAt(out, d[k], l)
      BY <2>1, DedupFacts DEF d
  <2> HIDE DEF named
  <2> QED
      BY <2>1, <2>2, <2>3
<1>9. CASE Bad
  <2>1. ~answer.ok
      BY <1>2, <1>9 DEF Rejected
  <2>2. \/ named = {} \/ named \cap {0, NotANumber} # {}
        \/ Cardinality(named) > MAX_PORTS \/ Len(v) > MAX_PORTS
        \/ NotANumber \in ToSet(v)
    <3>1. CASE NotANumber \in ToSet(v)
        BY <3>1
    <3>2. CASE c.form = "range" /\ v[1] > v[2]
        BY <1>7, <3>2
    <3>3. CASE ~(c.form = "range" /\ v[1] > v[2]) /\ Len(out) > MAX_PORTS
      <4>1. CASE c.form = "range"
        <5>1. Cardinality(named) = Len(out)
            BY <1>4, <3>3, <4>1
        <5> QED
            BY <3>3, <5>1
      <4>2. CASE c.form # "range"
          BY <1>5, <3>3, <4>2
      <4> QED
          BY <4>1, <4>2
    <3>4. CASE ~(c.form = "range" /\ v[1] > v[2]) /\ 0 \in ToSet(out)
      <4>1. 0 \in named
          BY <1>8, <3>4
      <4> HIDE DEF named
      <4> QED
          BY <4>1
    <3>5. CASE ~(c.form = "range" /\ v[1] > v[2]) /\ d = <<>>
      <4>1. ToSet(d) = {}
          BY <1>8, <3>5, ToSetFacts
      <4> QED
          BY <1>8, <3>5, <4>1
    <3> HIDE DEF named
    <3> QED
        BY <1>9, <3>1, <3>2, <3>3, <3>4, <3>5
  <2> HIDE DEF named
  <2> QED
      BY <1>6, <2>1, <2>2
<1>10. CASE ~Bad
  <2>1. answer.ok /\ answer.value = d
      BY <1>2, <1>10
  <2>2. ~(c.form = "range" /\ v[1] > v[2]) /\ NotANumber \notin ToSet(v)
        /\ ~(Len(out) > MAX_PORTS) /\ 0 \notin ToSet(out) /\ d # <<>>
      BY <1>10
  <2>3. ToSet(d) = named /\ named # {} /\ 0 \notin named
      BY <1>8, <2>2, ToSetFacts
  <2>4. NotANumber \notin named
    <3>1. CASE c.form = "range"
      <4>1. v[1] \in ToSet(v) /\ v[1] \in Int
        <5>1. 1 \in 1..Len(v)
            BY <1>4, <3>1
        <5> QED
            BY <1>3, <1>4, <3>1, <5>1, ToSetFacts
      <4>2. v[1] \in Nat
          BY <1>4, <2>2, <3>1, <4>1
      <4> QED
          BY <3>1, <4>2 DEF NotANumber
    <3>2. CASE c.form # "range"
        BY <2>2, <3>2
    <3> QED
        BY <3>1, <3>2
  <2>5. Len(d) = Cardinality(named) /\ Len(d) <= MAX_PORTS
    <3>1. MAX_PORTS \in Nat
        BY PortsAssumption
    <3>2. Len(d) \in Nat /\ Len(out) \in Nat /\ Len(d) <= Len(out) /\ Cardinality(named) = Len(d)
        BY <1>8, <2>2
    <3> QED
        BY <2>2, <3>1, <3>2
  <2>6. ASSUME NEW i \in 1..Len(d), NEW j \in 1..Len(d), i < j
        PROVE  IF c.form = "range" THEN d[i] < d[j] ELSE first(d[i]) < first(d[j])
    <3>1. PICK m \in 1..Len(out), l \in 1..Len(out) :
              m < l /\ FirstAt(out, d[i], m) /\ FirstAt(out, d[j], l)
        BY <1>8, <2>2, <2>6
    <3>2. CASE c.form = "range"
      <4>1. d[i] = v[1] + m - 1 /\ d[j] = v[1] + l - 1 /\ v[1] \in Int
          BY <1>4, <2>2, <3>1, <3>2 DEF FirstAt
      <4>2. d[i] < d[j]
          BY <3>1, <4>1
      <4> QED
          BY <3>2, <4>2
    <3>3. CASE c.form # "range"
      <4>1. out = v
          BY <1>5, <3>3
      <4>2. ASSUME NEW x, NEW k \in 1..Len(v), FirstAt(v, x, k) PROVE first(x) = k
        <5>1. \A q \in 1..Len(v) :
                  (v[q] = x /\ \A r \in 1..(q - 1) : v[r] # x) <=> FirstAt(v, x, q)
            BY DEF FirstAt
        <5>2. first(x) \in 1..Len(v) /\ FirstAt(v, x, first(x))
            BY <4>2, <5>1
        <5> HIDE DEF first
        <5>3. k \in Nat \ {0} /\ first(x) \in Nat \ {0}
            BY <1>3, <5>2
        <5> QED
            BY <4>2, <5>2, <5>3, FirstUnique
      <4>3. first(d[i]) = m /\ first(d[j]) = l
          BY <3>1, <4>1, <4>2
      <4> HIDE DEF first
      <4> QED
          BY <3>1, <3>3, <4>3
    <3> QED
        BY <3>2, <3>3
  <2> HIDE DEF named, first
  <2>7. named \cap {0, NotANumber} = {}
      BY <2>3, <2>4
  <2> QED
      BY <1>6, <2>1, <2>3, <2>5, <2>6, <2>7
<1> QED
    BY <1>9, <1>10

\* parse_ports yields one listener for each distinct port named, in the order of
\* the first mention, never port 0 and never more than the limit, and refuses
\* only what cannot be served so, for every list, range and limit.
THEOREM PortsAreUsable == Questions => []PortsUsable
BY AnswersRight, AnswersPorts, PTL

------------------------------------------------------------------------------
(* The calendar *)

\* The parts of days_to_civil: the year of the era, which starts in March, the
\* day of that year, and its month.
YearOf(doe) == (doe - doe \div 1460 + doe \div 36524 - doe \div 146096) \div 365
DayOf(doe) == doe - (365 * YearOf(doe) + YearOf(doe) \div 4 - YearOf(doe) \div 100)
MonthOf(doy) == (5 * doy + 2) \div 153
DateOf(doy) == doy - (153 * MonthOf(doy) + 2) \div 5 + 1

\* The last day of a year of the era.
LeapEra(y) == (y + 1) % 4 = 0 /\ ((y + 1) % 100 # 0 \/ (y + 1) % 400 = 0)
LastDay(y) == IF LeapEra(y) THEN 365 ELSE 364

\* The quotients in them, by their bounds.
LEMMA QuotientBounds ==
    ASSUME NEW x \in Nat, NEW k \in Nat \ {0}
    PROVE  x \div k \in Nat /\ k * (x \div k) <= x /\ x < k * (x \div k) + k
OBVIOUS

Fours(doe) == doe \div 1460
Centuries(doe) == doe \div 36524
Eras(doe) == doe \div 146096
Leaps(y) == y \div 4
Skips(y) == y \div 100

\* The three corrections of the year, by their bounds.
LEMMA YearIs ==
    ASSUME NEW doe \in Nat, doe <= 146096
    PROVE  /\ Fours(doe) \in Nat /\ 1460 * Fours(doe) <= doe /\ doe < 1460 * Fours(doe) + 1460
           /\ Centuries(doe) \in Nat /\ 36524 * Centuries(doe) <= doe
           /\ doe < 36524 * Centuries(doe) + 36524
           /\ Eras(doe) \in Nat /\ 146096 * Eras(doe) <= doe /\ doe < 146096 * Eras(doe) + 146096
<1>1. Fours(doe) \in Nat /\ 1460 * Fours(doe) <= doe /\ doe < 1460 * Fours(doe) + 1460
    BY QuotientBounds DEF Fours
<1>2. Centuries(doe) \in Nat /\ 36524 * Centuries(doe) <= doe
      /\ doe < 36524 * Centuries(doe) + 36524
    BY QuotientBounds DEF Centuries
<1>3. Eras(doe) \in Nat /\ 146096 * Eras(doe) <= doe /\ doe < 146096 * Eras(doe) + 146096
    BY QuotientBounds DEF Eras
<1> QED
    BY <1>1, <1>2, <1>3

\* The year, and the leap days before it.
LEMMA YearBounds ==
    ASSUME NEW doe \in Nat, doe <= 146096
    PROVE  LET y == YearOf(doe)
               x == doe - Fours(doe) + Centuries(doe) - Eras(doe)
           IN  /\ y \in Nat /\ y <= 399 /\ 365 * y <= x /\ x < 365 * y + 365
               /\ Leaps(y) \in Nat /\ 4 * Leaps(y) <= y /\ y < 4 * Leaps(y) + 4
               /\ Skips(y) \in Nat /\ 100 * Skips(y) <= y /\ y < 100 * Skips(y) + 100
               /\ DayOf(doe) = doe - (365 * y + Leaps(y) - Skips(y))
<1> DEFINE a == Fours(doe)
           b == Centuries(doe)
           c == Eras(doe)
           x == doe - a + b - c
           y == x \div 365
<1>1. YearOf(doe) = y
    BY DEF YearOf, Fours, Centuries, Eras
<1>2. a \in Nat /\ 1460 * a <= doe /\ doe < 1460 * a + 1460
    BY YearIs
<1>3. b \in Nat /\ 36524 * b <= doe /\ doe < 36524 * b + 36524
    BY YearIs
<1>4. c \in Nat /\ 146096 * c <= doe /\ doe < 146096 * c + 146096
    BY YearIs
<1> HIDE DEF a, b, c
<1>5. x \in Nat /\ x < 146000
    BY <1>2, <1>3, <1>4
<1> HIDE DEF x
<1>6. y \in Nat /\ 365 * y <= x /\ x < 365 * y + 365
    BY <1>5, QuotientBounds
<1> HIDE DEF y
<1>7. y <= 399
    BY <1>5, <1>6
<1>8. Leaps(y) \in Nat /\ 4 * Leaps(y) <= y /\ y < 4 * Leaps(y) + 4
    BY <1>6, QuotientBounds DEF Leaps
<1>9. Skips(y) \in Nat /\ 100 * Skips(y) <= y /\ y < 100 * Skips(y) + 100
    BY <1>6, QuotientBounds DEF Skips
<1>10. DayOf(doe) = doe - (365 * y + Leaps(y) - Skips(y))
    BY <1>1 DEF DayOf, Leaps, Skips
<1> QED
    BY <1>1, <1>6, <1>7, <1>8, <1>9, <1>10 DEF x, a, b, c

\* Leap years by the same quotients.
LEMMA LastDayIs ==
    ASSUME NEW y \in Nat, y <= 399
    PROVE  LastDay(y) = IF y = 4 * Leaps(y) + 3 /\ (y # 100 * Skips(y) + 99 \/ y = 399)
                        THEN 365 ELSE 364
<1>1. (y + 1) % 4 = 0 <=> y = 4 * Leaps(y) + 3
    BY DEF Leaps
<1>2. (y + 1) % 100 = 0 <=> y = 100 * Skips(y) + 99
    BY DEF Skips
<1>3. (y + 1) % 400 = 0 <=> y = 399
    OBVIOUS
<1> QED
    BY <1>1, <1>2, <1>3 DEF LastDay, LeapEra

\* The day of the year is one of that year: the corrections are exact.
LEMMA EraFacts ==
    ASSUME NEW doe \in Nat, doe <= 146096
    PROVE  /\ YearOf(doe) \in Nat /\ YearOf(doe) <= 399
           /\ DayOf(doe) \in Nat /\ DayOf(doe) <= LastDay(YearOf(doe))
<1> DEFINE y == YearOf(doe)
           a == Fours(doe)
           b == Centuries(doe)
           c == Eras(doe)
           p == Leaps(y)
           q == Skips(y)
           d == DayOf(doe)
           l == LastDay(y)
<1>1. a \in Nat /\ 1460 * a <= doe /\ doe < 1460 * a + 1460
    BY YearIs
<1>2. b \in Nat /\ 36524 * b <= doe /\ doe < 36524 * b + 36524
    BY YearIs
<1>3. c \in Nat /\ 146096 * c <= doe /\ doe < 146096 * c + 146096
    BY YearIs
<1>4. y \in Nat /\ y <= 399 /\ 365 * y <= doe - a + b - c /\ doe - a + b - c < 365 * y + 365
    BY YearBounds
<1>5. p \in Nat /\ 4 * p <= y /\ y < 4 * p + 4
    BY YearBounds
<1>6. q \in Nat /\ 100 * q <= y /\ y < 100 * q + 100
    BY YearBounds
<1>7. d = doe - (365 * y + p - q)
    BY YearBounds
<1>8. l = IF y = 4 * p + 3 /\ (y # 100 * q + 99 \/ y = 399) THEN 365 ELSE 364
    BY <1>4, LastDayIs
<1> HIDE DEF y, a, b, c, p, q, d, l
<1>9. d \in Nat /\ d <= l
    BY <1>1, <1>2, <1>3, <1>4, <1>5, <1>6, <1>7, <1>8, SMTT(60)
<1> QED
    BY <1>4, <1>9 DEF y, d, l

\* The next day is in the same year, or the first of the next.
LEMMA EraNext ==
    ASSUME NEW doe \in Nat, doe <= 146095
    PROVE  \/ YearOf(doe + 1) = YearOf(doe) /\ DayOf(doe + 1) = DayOf(doe) + 1
           \/ /\ YearOf(doe + 1) = YearOf(doe) + 1 /\ DayOf(doe + 1) = 0
              /\ DayOf(doe) = LastDay(YearOf(doe))
<1> DEFINE y == YearOf(doe)
           p == Leaps(y)
           q == Skips(y)
           d == DayOf(doe)
           l == LastDay(y)
           z == YearOf(doe + 1)
           r == Leaps(z)
           s == Skips(z)
           e == DayOf(doe + 1)
           k == LastDay(z)
<1>1. doe + 1 \in Nat /\ doe + 1 <= 146096 /\ doe <= 146096
    OBVIOUS
<1>2. y \in Nat /\ y <= 399 /\ d \in Nat /\ d <= l
    BY <1>1, EraFacts
<1>3. z \in Nat /\ z <= 399 /\ e \in Nat /\ e <= k
    BY <1>1, EraFacts
<1>4. p \in Nat /\ 4 * p <= y /\ y < 4 * p + 4 /\ q \in Nat /\ 100 * q <= y /\ y < 100 * q + 100
    BY <1>1, YearBounds
<1>5. r \in Nat /\ 4 * r <= z /\ z < 4 * r + 4 /\ s \in Nat /\ 100 * s <= z /\ z < 100 * s + 100
    BY <1>1, YearBounds
<1>6. d = doe - (365 * y + p - q)
    BY <1>1, YearBounds
<1>7. e = (doe + 1) - (365 * z + r - s)
    BY <1>1, YearBounds
<1>8. l = IF y = 4 * p + 3 /\ (y # 100 * q + 99 \/ y = 399) THEN 365 ELSE 364
    BY <1>2, LastDayIs
<1>9. k = IF z = 4 * r + 3 /\ (z # 100 * s + 99 \/ z = 399) THEN 365 ELSE 364
    BY <1>3, LastDayIs
<1> HIDE DEF y, p, q, d, l, z, r, s, e, k
<1>10. z = y \/ z = y + 1
    BY <1>2, <1>3, <1>4, <1>5, <1>6, <1>7, <1>8, <1>9, SMTT(60)
<1>11. z = y => e = d + 1
    BY <1>2, <1>3, <1>4, <1>5, <1>6, <1>7
<1>12. z = y + 1 => e = 0 /\ d = l
    BY <1>2, <1>3, <1>4, <1>5, <1>6, <1>7, <1>8, <1>9, SMTT(60)
<1> QED
    BY <1>10, <1>11, <1>12 DEF y, d, l, z, e

\* The first and the last day of the era.
LEMMA EraEnds ==
    /\ YearOf(0) = 0 /\ DayOf(0) = 0
    /\ YearOf(146096) = 399 /\ DayOf(146096) = 365 /\ LeapEra(399)
BY SMTT(60) DEF YearOf, DayOf, LeapEra

\* The months from March on, but for February, which is the last.
MonthLength(mp) == IF mp \in {1, 3, 6, 8} THEN 30 ELSE 31

\* The month and the day of the month; 336 days are before February 1.
LEMMA MonthFacts ==
    ASSUME NEW doy \in Nat, doy <= 365
    PROVE  /\ MonthOf(doy) \in 0..11 /\ DateOf(doy) \in 1..31
           /\ MonthOf(doy) = 11 <=> doy >= 337
           /\ MonthOf(doy) = 11 => DateOf(doy) = doy - 336
           /\ MonthOf(doy) # 11 => DateOf(doy) <= MonthLength(MonthOf(doy))
BY SMTT(60) DEF MonthOf, DateOf, MonthLength

\* The next day is in the same month, or the first of the next.
LEMMA MonthNext ==
    ASSUME NEW doy \in Nat, doy <= 364
    PROVE  \/ /\ MonthOf(doy + 1) = MonthOf(doy) /\ DateOf(doy + 1) = DateOf(doy) + 1
              /\ MonthOf(doy) # 11 => DateOf(doy) < MonthLength(MonthOf(doy))
           \/ /\ MonthOf(doy) # 11 /\ MonthOf(doy + 1) = MonthOf(doy) + 1
              /\ DateOf(doy + 1) = 1 /\ DateOf(doy) = MonthLength(MonthOf(doy))
BY SMTT(60) DEF MonthOf, DateOf, MonthLength

\* The year starts on March 1.
LEMMA MonthStart == MonthOf(0) = 0 /\ DateOf(0) = 1
BY SMTT(60) DEF MonthOf, DateOf
\* A day by its era, the year of the era and the day of that year.
EraOf(d) == (d + 719468) \div 146097
InEra(d) == d + 719468 - EraOf(d) * 146097
MonthNumber(mp) == IF mp < 10 THEN mp + 3 ELSE mp - 9
Civil(era, y, doy) ==
    <<y + era * 400 + (IF MonthNumber(MonthOf(doy)) <= 2 THEN 1 ELSE 0),
      MonthNumber(MonthOf(doy)), DateOf(doy)>>

\* days_to_civil in these parts.
LEMMA CivilIs ==
    ASSUME NEW d \in Nat
    PROVE  days_to_civil(d) = Civil(EraOf(d), YearOf(InEra(d)), DayOf(InEra(d)))
BY SMT DEF days_to_civil, Civil, MonthNumber, MonthOf, DateOf, DayOf, YearOf, InEra, EraOf

\* The era, and the day in it.
LEMMA EraIs ==
    ASSUME NEW d \in Nat
    PROVE  EraOf(d) \in Nat /\ InEra(d) \in Nat /\ InEra(d) <= 146096
<1> DEFINE z == d + 719468
           w == 146097
           k == z \div w
<1>1. z \in Nat /\ w \in Nat \ {0}
    OBVIOUS
<1> HIDE DEF z, w, k
<1>2. k \in Nat /\ w * k <= z /\ z < w * k + w
    BY <1>1, QuotientBounds DEF k
<1>3. k \in Nat /\ z - k * 146097 \in Nat /\ z - k * 146097 <= 146096
    BY <1>1, <1>2 DEF w
<1> QED
    BY <1>3 DEF EraOf, InEra, k, w, z

\* The next day is in the same era, or the first of the next.
LEMMA EraOfNext ==
    ASSUME NEW d \in Nat
    PROVE  \/ EraOf(d + 1) = EraOf(d) /\ InEra(d + 1) = InEra(d) + 1 /\ InEra(d) <= 146095
           \/ EraOf(d + 1) = EraOf(d) + 1 /\ InEra(d + 1) = 0 /\ InEra(d) = 146096
<1> DEFINE a == EraOf(d)
           b == EraOf(d + 1)
           x == InEra(d)
           y == InEra(d + 1)
<1>1. a \in Nat /\ x \in Nat /\ x <= 146096
    BY EraIs
<1>2. b \in Nat /\ y \in Nat /\ y <= 146096
    BY EraIs
<1>3. x = d + 719468 - a * 146097
    BY DEF InEra
<1>4. y = d + 1 + 719468 - b * 146097
    BY DEF InEra
<1> HIDE DEF a, b, x, y
<1>5. b = a \/ b = a + 1
    BY <1>1, <1>2, <1>3, <1>4
<1>6. b = a => y = x + 1 /\ x <= 146095
    BY <1>1, <1>2, <1>3, <1>4
<1>7. b = a + 1 => y = 0 /\ x = 146096
    BY <1>1, <1>2, <1>3, <1>4
<1> QED
    BY <1>5, <1>6, <1>7 DEF a, b, x, y

\* The year of the era that ends with a leap day is before a leap year.
LEMMA LeapIs ==
    ASSUME NEW y \in Nat, NEW era \in Nat
    PROVE  Leap(y + era * 400 + 1) <=> LeapEra(y)
<1>1. (y + era * 400 + 1) % 4 = (y + 1) % 4
    OBVIOUS
<1>2. (y + era * 400 + 1) % 100 = (y + 1) % 100
    OBVIOUS
<1>3. (y + era * 400 + 1) % 400 = (y + 1) % 400
    OBVIOUS
<1> QED
    BY <1>1, <1>2, <1>3 DEF Leap, LeapEra

\* DaysIn by the month counted from March.
LEMMA MonthEnds ==
    ASSUME NEW mp \in 0..11, NEW y \in Nat
    PROVE  /\ mp # 11 => DaysIn(y, MonthNumber(mp)) = MonthLength(mp)
           /\ mp = 11 => DaysIn(y, MonthNumber(mp)) = IF Leap(y) THEN 29 ELSE 28
           /\ MonthNumber(mp) \in 1..12
           /\ MonthNumber(mp) <= 2 <=> mp \in {10, 11}
           /\ mp \notin {9, 11} => MonthNumber(mp + 1) = MonthNumber(mp) + 1
           /\ MonthNumber(mp) = 12 <=> mp = 9
<1>1. mp \in {0, 1, 2, 3, 4, 5, 6, 7, 8, 9, 10, 11}
    OBVIOUS
<1>2. /\ MonthNumber(mp) \in 1..12
      /\ MonthNumber(mp) <= 2 <=> mp \in {10, 11}
      /\ mp \notin {9, 11} => MonthNumber(mp + 1) = MonthNumber(mp) + 1
      /\ MonthNumber(mp) = 12 <=> mp = 9
      /\ MonthNumber(mp) = 2 <=> mp = 11
      /\ MonthNumber(mp) \in {4, 6, 9, 11} <=> mp \in {1, 3, 6, 8}
    BY <1>1 DEF MonthNumber
<1> DEFINE m == MonthNumber(mp)
<1>3. DaysIn(y, m) = IF m = 2 THEN (IF Leap(y) THEN 29 ELSE 28)
                     ELSE IF m \in {4, 6, 9, 11} THEN 30 ELSE 31
  <2> HIDE DEF m
  <2> QED
      BY DEF DaysIn
<1> QED
    BY <1>2, <1>3 DEF MonthLength

\* The day after a date.
LEMMA DayAfterIs ==
    ASSUME NEW y \in Nat, NEW m \in 1..12, NEW n \in 1..31, n <= DaysIn(y, m)
    PROVE  DayAfter(<<y, m, n>>) =
              IF n < DaysIn(y, m) THEN <<y, m, n + 1>>
              ELSE IF m < 12 THEN <<y, m + 1, 1>> ELSE <<y + 1, 1, 1>>
<1>1. DaysIn(y, m) \in Nat
    BY DEF DaysIn
<1> DEFINE l == DaysIn(y, m)
<1> HIDE DEF l
<1>2. l \in Nat /\ n <= l
    BY <1>1 DEF l
<1>3. DayAfter(<<y, m, n>>) =
          CASE n < l -> <<y, m, n + 1>> [] m < 12 /\ n = l -> <<y, m + 1, 1>>
            [] OTHER -> <<y + 1, 1, 1>>
    BY DEF DayAfter, l
<1> QED
    BY <1>2, <1>3 DEF l

\* A date of the year, in its parts.
YearAt(era, y, doy) == y + era * 400 + (IF MonthOf(doy) \in {10, 11} THEN 1 ELSE 0)
MonthAt(doy) == MonthNumber(MonthOf(doy))
LengthAt(era, y, doy) == DaysIn(YearAt(era, y, doy), MonthAt(doy))

DateIs(era, y, doy) ==
    /\ Civil(era, y, doy) = <<YearAt(era, y, doy), MonthAt(doy), DateOf(doy)>>
    /\ MonthOf(doy) \in 0..11 /\ MonthAt(doy) \in 1..12 /\ YearAt(era, y, doy) \in Nat
    /\ DateOf(doy) \in 1..31 /\ DateOf(doy) <= LengthAt(era, y, doy)
    /\ doy = LastDay(y) <=> MonthOf(doy) = 11 /\ DateOf(doy) = LengthAt(era, y, doy)

\* These are the parts, and only the last day of the year is the last of February.
LEMMA CivilFacts ==
    ASSUME NEW era \in Nat, NEW y \in Nat, NEW doy \in Nat, doy <= LastDay(y)
    PROVE  DateIs(era, y, doy)
<1> DEFINE mp == MonthOf(doy)
           m == MonthNumber(mp)
           n == DateOf(doy)
           yy == y + era * 400 + (IF mp \in {10, 11} THEN 1 ELSE 0)
           l == DaysIn(yy, m)
<1>1. doy <= 365 /\ LastDay(y) \in {364, 365}
    BY DEF LastDay
<1>2. /\ mp \in 0..11 /\ n \in 1..31
      /\ mp = 11 <=> doy >= 337
      /\ mp = 11 => n = doy - 336
      /\ mp # 11 => n <= MonthLength(mp)
    BY <1>1, MonthFacts
<1> HIDE DEF mp, n
<1>3. yy \in Nat
    BY <1>2
<1>4. /\ m \in 1..12
      /\ m <= 2 <=> mp \in {10, 11}
      /\ mp # 11 => l = MonthLength(mp)
      /\ mp = 11 => l = IF Leap(yy) THEN 29 ELSE 28
  <2> HIDE DEF yy
  <2> QED
      BY <1>2, <1>3, MonthEnds
<1>5. mp = 11 => (Leap(yy) <=> LeapEra(y))
  <2>1. mp = 11 => yy = y + era * 400 + 1
      BY <1>2
  <2> HIDE DEF yy
  <2> QED
      BY <2>1, LeapIs
<1>6. Civil(era, y, doy) = <<yy, m, n>>
  <2>1. Civil(era, y, doy) = <<y + era * 400 + (IF m <= 2 THEN 1 ELSE 0), m, n>>
      BY DEF Civil, mp, n
  <2>2. (IF m <= 2 THEN 1 ELSE 0) = (IF mp \in {10, 11} THEN 1 ELSE 0)
    <3> HIDE DEF m
    <3> QED
        BY <1>4
  <2> HIDE DEF m
  <2> QED
      BY <2>1, <2>2
<1> HIDE DEF m, yy, l
<1>7. n <= l /\ (doy = LastDay(y) <=> mp = 11 /\ n = l)
    BY <1>1, <1>2, <1>4, <1>5 DEF LastDay
<1> QED
    BY <1>2, <1>3, <1>4, <1>6, <1>7, Zenon
    DEF mp, m, n, yy, l, YearAt, MonthAt, LengthAt, DateIs
\* Within the year.
LEMMA DayInYear ==
    ASSUME NEW era \in Nat, NEW y \in Nat, NEW doy \in Nat, doy < LastDay(y)
    PROVE  Civil(era, y, doy + 1) = DayAfter(Civil(era, y, doy))
<1> DEFINE mp == MonthOf(doy)
           m == MonthAt(doy)
           n == DateOf(doy)
           yy == YearAt(era, y, doy)
           mq == MonthOf(doy + 1)
           k == MonthAt(doy + 1)
           o == DateOf(doy + 1)
           zz == YearAt(era, y, doy + 1)
           l == LengthAt(era, y, doy)
<1>1. LastDay(y) \in {364, 365} /\ doy <= 364 /\ doy + 1 \in Nat /\ doy <= LastDay(y)
      /\ doy + 1 <= LastDay(y) /\ doy # LastDay(y)
    BY DEF LastDay
<1>2. /\ Civil(era, y, doy) = <<yy, m, n>> /\ mp \in 0..11 /\ m \in 1..12 /\ yy \in Nat
      /\ n \in 1..31 /\ n <= l /\ ~(mp = 11 /\ n = l)
  <2>1. DateIs(era, y, doy)
      BY <1>1, CivilFacts
  <2> QED
      BY <1>1, <2>1 DEF DateIs
<1>3. /\ Civil(era, y, doy + 1) = <<zz, k, o>>
  <2>1. DateIs(era, y, doy + 1)
      BY <1>1, CivilFacts
  <2> QED
      BY <2>1 DEF DateIs
<1>4. \/ mq = mp /\ o = n + 1 /\ (mp # 11 => n < MonthLength(mp))
      \/ mp # 11 /\ mq = mp + 1 /\ o = 1 /\ n = MonthLength(mp)
    BY <1>1, MonthNext
<1>5. /\ mp # 11 => l = MonthLength(mp)
      /\ mp \notin {9, 11} => MonthNumber(mp + 1) = m + 1
      /\ m = 12 <=> mp = 9
  <2>1. m = MonthNumber(mp) /\ l = DaysIn(yy, m)
      BY DEF MonthAt, LengthAt
  <2> HIDE DEF mp, yy, m, l
  <2> QED
      BY <1>2, <2>1, MonthEnds
<1>6. DayAfter(<<yy, m, n>>) =
          IF n < l THEN <<yy, m, n + 1>>
          ELSE IF m < 12 THEN <<yy, m + 1, 1>> ELSE <<yy + 1, 1, 1>>
  <2>1. l = DaysIn(yy, m)
      BY DEF LengthAt
  <2> HIDE DEF yy, m, n, l
  <2> QED
      BY <1>2, <2>1, DayAfterIs
<1>7. l \in Nat
    BY DEF DaysIn, LengthAt
<1> HIDE DEF n, l, o
<1>8. CASE mq = mp
  <2>1. zz = yy /\ k = m
      BY <1>8 DEF YearAt, MonthAt
  <2> HIDE DEF zz, yy, m, k, mp, mq
  <2>2. o = n + 1 /\ n < l
      BY <1>2, <1>4, <1>5, <1>7, <1>8
  <2> QED
      BY <1>2, <1>3, <1>6, <2>1, <2>2
<1>9. CASE mq = mp + 1
  <2>1. mp # 11 /\ o = 1 /\ n = l
    <3> HIDE DEF mp, mq
    <3> QED
        BY <1>2, <1>4, <1>5, <1>9
  <2>2. k = MonthNumber(mp + 1) /\ m = MonthNumber(mp)
      BY <1>9 DEF MonthAt
  <2>5. /\ yy = y + era * 400 + (IF mp \in {10, 11} THEN 1 ELSE 0)
        /\ zz = y + era * 400 + (IF mq \in {10, 11} THEN 1 ELSE 0)
      BY DEF YearAt
  <2>3. CASE mp = 9
    <3>1. mq = 10 /\ m = 12
        BY <1>5, <1>9, <2>3
    <3>2. k = 1
        BY <2>2, <2>3 DEF MonthNumber
    <3>3. zz = yy + 1
      <4> HIDE DEF mp, mq, yy, zz
      <4> QED
          BY <2>3, <2>5, <3>1
    <3> HIDE DEF yy, zz, m, k
    <3> QED
        BY <1>2, <1>3, <1>6, <2>1, <3>1, <3>2, <3>3
  <2>4. CASE mp # 9
    <3>1. k = m + 1 /\ m # 12
      <4> HIDE DEF mp, mq, m, k
      <4> QED
          BY <1>5, <2>1, <2>2, <2>4
    <3>2. zz = yy
      <4> HIDE DEF mp, mq, yy, zz
      <4> QED
          BY <1>2, <1>9, <2>1, <2>4, <2>5
    <3> HIDE DEF yy, zz, m, k
    <3> QED
        BY <1>2, <1>3, <1>6, <2>1, <3>1, <3>2
  <2> QED
      BY <2>3, <2>4
<1> QED
    BY <1>4, <1>8, <1>9

\* From the last day of February to the first of March.
LEMMA DayAfterYear ==
    ASSUME NEW era \in Nat, NEW y \in Nat
    PROVE  Civil(era, y + 1, 0) = DayAfter(Civil(era, y, LastDay(y)))
<1> DEFINE doy == LastDay(y)
           mp == MonthOf(doy)
           m == MonthAt(doy)
           n == DateOf(doy)
           yy == YearAt(era, y, doy)
           l == LengthAt(era, y, doy)
<1>1. doy \in Nat /\ doy <= LastDay(y)
    BY DEF LastDay
<1>2. /\ Civil(era, y, doy) = <<yy, m, n>> /\ m \in 1..12 /\ yy \in Nat
      /\ n \in 1..31 /\ n <= l /\ mp = 11 /\ n = l /\ l = DaysIn(yy, m)
  <2>1. doy = LastDay(y)
      OBVIOUS
  <2> HIDE DEF doy
  <2>2. DateIs(era, y, doy)
      BY <1>1, CivilFacts
  <2> QED
      BY <2>1, <2>2 DEF DateIs, LengthAt
<1>3. m = 2
    BY <1>2 DEF MonthNumber, MonthAt
<1>4. yy = y + 1 + era * 400
    BY <1>2 DEF YearAt
<1>5. DayAfter(<<yy, m, n>>) =
          IF n < l THEN <<yy, m, n + 1>>
          ELSE IF m < 12 THEN <<yy, m + 1, 1>> ELSE <<yy + 1, 1, 1>>
  <2> HIDE DEF yy, m, n, l
  <2> QED
      BY <1>2, DayAfterIs
<1>6. DayAfter(<<yy, m, n>>) = <<yy, 3, 1>>
  <2> HIDE DEF yy, m, n, l
  <2> QED
      BY <1>2, <1>3, <1>5
<1>7. Civil(era, y + 1, 0) = <<y + 1 + era * 400, 3, 1>>
    BY MonthStart DEF Civil, MonthNumber
<1> HIDE DEF yy, m, n, l, doy
<1> QED
    BY <1>2, <1>4, <1>6, <1>7 DEF doy
\* The calendar of days_to_civil goes on by one day at a time, from the epoch.
LEMMA CivilNext ==
    ASSUME NEW d \in Nat
    PROVE  days_to_civil(d + 1) = DayAfter(days_to_civil(d))
<1> DEFINE era == EraOf(d)
           doe == InEra(d)
           y == YearOf(doe)
           doy == DayOf(doe)
<1>1. era \in Nat /\ doe \in Nat /\ doe <= 146096
    BY EraIs
<1>2. days_to_civil(d) = Civil(era, y, doy)
    BY CivilIs
<1>3. days_to_civil(d + 1) = Civil(EraOf(d + 1), YearOf(InEra(d + 1)), DayOf(InEra(d + 1)))
    BY CivilIs
<1>4. \/ EraOf(d + 1) = era /\ InEra(d + 1) = doe + 1 /\ doe <= 146095
      \/ EraOf(d + 1) = era + 1 /\ InEra(d + 1) = 0 /\ doe = 146096
    BY EraOfNext
<1> HIDE DEF era, doe
<1>5. y \in Nat /\ y <= 399 /\ doy \in Nat /\ doy <= LastDay(y)
    BY <1>1, EraFacts
<1>6. CASE doe <= 146095
  <2>1. \/ YearOf(doe + 1) = y /\ DayOf(doe + 1) = doy + 1
        \/ YearOf(doe + 1) = y + 1 /\ DayOf(doe + 1) = 0 /\ doy = LastDay(y)
      BY <1>1, <1>6, EraNext
  <2>2. days_to_civil(d + 1) = Civil(era, YearOf(doe + 1), DayOf(doe + 1))
      BY <1>1, <1>3, <1>4, <1>6
  <2>3. DayOf(doe + 1) <= LastDay(YearOf(doe + 1)) /\ DayOf(doe + 1) \in Nat
      BY <1>1, <1>6, EraFacts
  <2>4. LastDay(y) \in Nat
      BY DEF LastDay
  <2> HIDE DEF y, doy
  <2>5. CASE YearOf(doe + 1) = y /\ DayOf(doe + 1) = doy + 1
    <3>1. doy < LastDay(y)
        BY <1>5, <2>3, <2>4, <2>5
    <3> QED
        BY <1>1, <1>2, <1>5, <2>2, <2>5, <3>1, DayInYear
  <2>6. CASE YearOf(doe + 1) = y + 1 /\ DayOf(doe + 1) = 0 /\ doy = LastDay(y)
      BY <1>1, <1>2, <1>5, <2>2, <2>6, DayAfterYear
  <2> QED
      BY <2>1, <2>5, <2>6
<1>7. CASE doe = 146096
  <2>1. y = 399 /\ doy = 365 /\ YearOf(0) = 0 /\ DayOf(0) = 0 /\ LastDay(399) = 365
      BY <1>7, EraEnds DEF LastDay
  <2>2. EraOf(d + 1) = era + 1 /\ InEra(d + 1) = 0
      BY <1>4, <1>7
  <2>3. days_to_civil(d + 1) = Civil(era + 1, 0, 0)
      BY <1>3, <2>1, <2>2
  <2>4. Civil(era + 1, 0, 0) = Civil(era, 399 + 1, 0)
    <3>1. 0 + (era + 1) * 400 = 399 + 1 + era * 400
        BY <1>1
    <3> QED
        BY <3>1 DEF Civil
  <2>5. Civil(era, 399 + 1, 0) = DayAfter(Civil(era, 399, LastDay(399)))
      BY <1>1, DayAfterYear
  <2> HIDE DEF y, doy
  <2> QED
      BY <1>2, <2>1, <2>3, <2>4, <2>5
<1> QED
    BY <1>1, <1>4, <1>6, <1>7

\* Day 0.
LEMMA Epoch == days_to_civil(0) = <<1970, 1, 1>>
BY SMTT(60) DEF days_to_civil

\* A date is a year, a month and a day of that month.
LEMMA CivilType ==
    ASSUME NEW d \in Nat
    PROVE  \E y \in Nat, m \in 1..12, n \in 1..31 :
              days_to_civil(d) = <<y, m, n>> /\ n <= DaysIn(y, m)
<1> DEFINE era == EraOf(d)
           doe == InEra(d)
           y == YearOf(doe)
           doy == DayOf(doe)
<1>1. era \in Nat /\ doe \in Nat /\ doe <= 146096
    BY EraIs
<1>2. days_to_civil(d) = Civil(era, y, doy)
    BY CivilIs
<1> HIDE DEF era, doe
<1>3. y \in Nat /\ doy \in Nat /\ doy <= LastDay(y)
    BY <1>1, EraFacts
<1> HIDE DEF y, doy
<1>4. DateIs(era, y, doy)
    BY <1>1, <1>3, CivilFacts
<1> QED
    BY <1>2, <1>4, Zenon DEF DateIs, LengthAt
\* The order of the names is the lexicographic one.
Dated(t) == t[1] \in Int /\ t[2] \in Int /\ t[3] \in Int

\* Earlier, field by field.
LEMMA EarlierIs ==
    ASSUME NEW a, NEW b
    PROVE  Earlier(a, b) <=> \/ a[1] < b[1]
                             \/ a[1] = b[1] /\ a[2] < b[2]
                             \/ a[1] = b[1] /\ a[2] = b[2] /\ a[3] < b[3]
<1>1. 1..3 = {1, 2, 3} /\ 1..(1 - 1) = {} /\ 1..(2 - 1) = {1} /\ 1..(3 - 1) = {1, 2}
    OBVIOUS
<1> DEFINE D(i) == a[i] < b[i] /\ \A j \in 1..(i - 1) : a[j] = b[j]
<1>2. Earlier(a, b) <=> D(1) \/ D(2) \/ D(3)
  <2>1. Earlier(a, b) <=> \E i \in {1, 2, 3} : D(i)
      BY <1>1, Zenon DEF Earlier
  <2> HIDE DEF D
  <2> QED
      BY <2>1
<1>3. (\A j \in 1..(1 - 1) : a[j] = b[j]) <=> TRUE
    BY <1>1
<1>4. (\A j \in 1..(2 - 1) : a[j] = b[j]) <=> a[1] = b[1]
    BY <1>1
<1>5. (\A j \in 1..(3 - 1) : a[j] = b[j]) <=> a[1] = b[1] /\ a[2] = b[2]
    BY <1>1
<1> QED
    BY <1>2, <1>3, <1>4, <1>5, Zenon

\* It is a strict order.
LEMMA EarlierOrder ==
    ASSUME NEW a, NEW b, NEW c, Dated(a), Dated(b), Dated(c)
    PROVE  /\ Earlier(a, b) /\ Earlier(b, c) => Earlier(a, c)
           /\ ~Earlier(a, a)
<1>1. Earlier(a, b) /\ Earlier(b, c) => Earlier(a, c)
  <2>1. Earlier(a, b) <=> \/ a[1] < b[1]
                          \/ a[1] = b[1] /\ a[2] < b[2]
                          \/ a[1] = b[1] /\ a[2] = b[2] /\ a[3] < b[3]
      BY EarlierIs
  <2>2. Earlier(b, c) <=> \/ b[1] < c[1]
                          \/ b[1] = c[1] /\ b[2] < c[2]
                          \/ b[1] = c[1] /\ b[2] = c[2] /\ b[3] < c[3]
      BY EarlierIs
  <2>3. Earlier(a, c) <=> \/ a[1] < c[1]
                          \/ a[1] = c[1] /\ a[2] < c[2]
                          \/ a[1] = c[1] /\ a[2] = c[2] /\ a[3] < c[3]
      BY EarlierIs
  <2> QED
      BY <2>1, <2>2, <2>3 DEF Dated
<1>2. ~Earlier(a, a)
  <2>1. Earlier(a, a) <=> a[1] < a[1] \/ a[2] < a[2] \/ a[3] < a[3]
      BY EarlierIs
  <2> QED
      BY <2>1 DEF Dated
<1> QED
    BY <1>1, <1>2

\* Dates have numbers for fields.
LEMMA CivilDated ==
    ASSUME NEW d \in Nat
    PROVE  Dated(days_to_civil(d))
<1>1. PICK y \in Nat, m \in 1..12, n \in 1..31 : days_to_civil(d) = <<y, m, n>>
    BY CivilType
<1> QED
    BY <1>1 DEF Dated

\* The name of a day sorts before the next one's.
LEMMA NextIsLater ==
    ASSUME NEW d \in Nat
    PROVE  Earlier(days_to_civil(d), days_to_civil(d + 1))
<1>1. PICK y \in Nat, m \in 1..12, n \in 1..31 :
          days_to_civil(d) = <<y, m, n>> /\ n <= DaysIn(y, m)
    BY CivilType, Zenon
<1> DEFINE t == days_to_civil(d + 1)
           s == days_to_civil(d)
<1>2. t = IF n < DaysIn(y, m) THEN <<y, m, n + 1>>
          ELSE IF m < 12 THEN <<y, m + 1, 1>> ELSE <<y + 1, 1, 1>>
    BY <1>1, CivilNext, DayAfterIs
<1>3. s[1] = y /\ s[2] = m /\ s[3] = n
    BY <1>1
<1> HIDE DEF s, t
<1>4. \/ s[1] < t[1]
      \/ s[1] = t[1] /\ s[2] < t[2]
      \/ s[1] = t[1] /\ s[2] = t[2] /\ s[3] < t[3]
  <2>1. CASE n < DaysIn(y, m)
      BY <1>2, <1>3, <2>1
  <2>2. CASE ~(n < DaysIn(y, m)) /\ m < 12
      BY <1>2, <1>3, <2>2
  <2>3. CASE ~(n < DaysIn(y, m)) /\ ~(m < 12)
      BY <1>2, <1>3, <2>3
  <2> QED
      BY <2>1, <2>2, <2>3
<1> QED
    BY <1>4, EarlierIs DEF s, t

\* Days and dates are in the same order, so that no two days share a date.
LEMMA CivilLater ==
    ASSUME NEW a \in Nat, NEW b \in Nat, a < b
    PROVE  Earlier(days_to_civil(a), days_to_civil(b))
<1> DEFINE n == b - a - 1
           T == {i \in 0..n : Earlier(days_to_civil(a), days_to_civil(a + 1 + i))}
<1>1. n \in Nat
    OBVIOUS
<1>2. 0 \in T
  <2>1. a + 1 + 0 = a + 1 /\ 0 \in 0..n
      BY <1>1
  <2> HIDE DEF n
  <2> QED
      BY <2>1, NextIsLater
<1>3. \A i \in 1..n : i - 1 \in T => i \in T
  <2> SUFFICES ASSUME NEW i \in 1..n, i - 1 \in T PROVE i \in T
      OBVIOUS
  <2> DEFINE c == a + i
  <2>1. c \in Nat /\ a + 1 + (i - 1) = c /\ a + 1 + i = c + 1 /\ i \in 0..n
      OBVIOUS
  <2>2. Earlier(days_to_civil(a), days_to_civil(c))
      BY <2>1
  <2> HIDE DEF c, n
  <2>3. Earlier(days_to_civil(c), days_to_civil(c + 1)) /\ c + 1 \in Nat
      BY <2>1, NextIsLater
  <2>4. Dated(days_to_civil(a)) /\ Dated(days_to_civil(c)) /\ Dated(days_to_civil(c + 1))
      BY <2>1, <2>3, CivilDated
  <2>5. Earlier(days_to_civil(a), days_to_civil(c + 1))
      BY <2>2, <2>3, <2>4, EarlierOrder
  <2> QED
      BY <2>1, <2>5
<1>4. n \in T
  <2> HIDE DEF T, n
  <2>1. \A i \in 0..n : i \in T
      BY <1>1, <1>2, <1>3, UpTo
  <2> QED
      BY <1>1, <2>1
<1>5. a + 1 + n = b
    OBVIOUS
<1> HIDE DEF n
<1> QED
    BY <1>4, <1>5

\* And the other way round.
LEMMA CivilOrder ==
    ASSUME NEW a \in Nat, NEW b \in Nat
    PROVE  /\ Earlier(days_to_civil(a), days_to_civil(b)) <=> a < b
           /\ days_to_civil(a) = days_to_civil(b) <=> a = b
<1>1. Dated(days_to_civil(a)) /\ Dated(days_to_civil(b))
    BY CivilDated
<1>2. ~Earlier(days_to_civil(a), days_to_civil(a))
      /\ ~Earlier(days_to_civil(b), days_to_civil(b))
    BY <1>1, EarlierOrder
<1>3. CASE a < b
    BY <1>2, <1>3, CivilLater
<1>4. CASE b < a
  <2>1. Earlier(days_to_civil(b), days_to_civil(a))
      BY <1>4, CivilLater
  <2>2. ~Earlier(days_to_civil(a), days_to_civil(b))
      BY <1>1, <1>2, <2>1, EarlierOrder
  <2> QED
      BY <1>2, <1>4, <2>1, <2>2
<1>5. CASE a = b
    BY <1>2, <1>5
<1> QED
    BY <1>3, <1>4, <1>5
\* The files of the days in seen that are not older than keep days.
Kept(seen, day, keep) == {days_to_civil(x) : x \in {y \in seen : y >= day - keep}}

\* Opening the log of a later day purges exactly the files that are too old then.
Opens(seen, day, now, keep) ==
    OpenDay(Kept(seen, day, keep), now, keep)
        = [date |-> days_to_civil(now), files |-> Kept(seen \cup {now}, now, keep)]

\* Exactly the files too old on the new day are removed: the order of the names is that of the days.
LEMMA OpenDayKeeps ==
    ASSUME NEW day \in Nat, NEW now \in Nat, day <= now, NEW keep \in Nat,
           NEW seen, \A x \in seen : x \in Nat
    PROVE  Opens(seen, day, now, keep)
<1> DEFINE cut == IF now > keep THEN now - keep ELSE 0
           F == Kept(seen, day, keep) \cup {days_to_civil(now)}
           P == purge_old_logs(F, now, keep)
           K == Kept(seen \cup {now}, now, keep)
<1>1. cut \in Nat /\ \A x \in Nat : x >= now - keep <=> ~(x < cut)
    OBVIOUS
<1>2. P = {f \in F : ~Earlier(f, days_to_civil(cut))}
    BY DEF purge_old_logs
<1> HIDE DEF cut
<1>3. ASSUME NEW f \in P PROVE f \in K
  <2>1. f \in F /\ ~Earlier(f, days_to_civil(cut))
      BY <1>2
  <2>2. PICK x \in seen \cup {now} : f = days_to_civil(x)
      BY <2>1 DEF Kept
  <2>3. x \in Nat
      BY <2>2
  <2>4. x >= now - keep
      BY <1>1, <2>1, <2>2, <2>3, CivilOrder
  <2> QED
      BY <2>2, <2>4 DEF Kept
<1>4. ASSUME NEW f \in K PROVE f \in P
  <2>1. PICK x \in seen \cup {now} : x >= now - keep /\ f = days_to_civil(x)
      BY <1>4 DEF Kept
  <2>2. x \in Nat
      BY <2>1
  <2>3. ~Earlier(f, days_to_civil(cut))
      BY <1>1, <2>1, <2>2, CivilOrder
  <2>4. f \in F
    <3>1. CASE x = now
        BY <2>1, <3>1
    <3>2. CASE x \in seen
      <4>1. x >= day - keep
          BY <2>1, <2>2
      <4> QED
          BY <2>1, <3>2, <4>1 DEF Kept
    <3> QED
        BY <2>1, <3>1, <3>2
  <2> QED
      BY <1>2, <2>3, <2>4
<1>5. P = K
    BY <1>3, <1>4
<1>6. OpenDay(Kept(seen, day, keep), now, keep) = [date |-> days_to_civil(now), files |-> P]
    BY DEF OpenDay
<1> HIDE DEF P, K
<1> QED
    BY <1>5, <1>6 DEF K, Opens

\* The log and the days it was written on, as LogAfter carries them on: the step
\* of an event, and what holds before and after it.
LogStep(s, e, keep) ==
    LET now == s.day + e.gap
    IN  [day |-> now, seen |-> s.seen \cup {now},
         log |-> IF e.restart THEN OpenDay(s.log.files, now, keep) ELSE write(s.log, now, keep)]
LogStates(keep) ==
    {s \in [day : Nat, seen : SUBSET Nat,
            log : [date : {days_to_civil(d) : d \in Nat},
                   files : SUBSET {days_to_civil(d) : d \in Nat}]] :
        /\ s.day \in s.seen /\ \A x \in s.seen : x <= s.day
        /\ s.log = [date |-> days_to_civil(s.day), files |-> Kept(s.seen, s.day, keep)]}

\* How such a state is made.
LEMMA LogStateIs ==
    ASSUME NEW keep \in Nat, NEW day \in Nat, NEW seen \in SUBSET Nat,
           day \in seen, \A x \in seen : x <= day
    PROVE  [day |-> day, seen |-> seen,
            log |-> [date |-> days_to_civil(day), files |-> Kept(seen, day, keep)]]
              \in LogStates(keep)
<1> DEFINE D == {days_to_civil(d) : d \in Nat}
           l == [date |-> days_to_civil(day), files |-> Kept(seen, day, keep)]
           s == [day |-> day, seen |-> seen, log |-> l]
<1>1. days_to_civil(day) \in D
    OBVIOUS
<1>2. Kept(seen, day, keep) \in SUBSET D
    BY DEF Kept
<1> HIDE DEF D
<1>3. l \in [date : D, files : SUBSET D]
    BY <1>1, <1>2
<1>4. s.day = day /\ s.seen = seen /\ s.log = l
    OBVIOUS
<1> HIDE DEF l
<1>5. s \in [day : Nat, seen : SUBSET Nat, log : [date : D, files : SUBSET D]]
    BY <1>3
<1> HIDE DEF s
<1> QED
    BY <1>4, <1>5, Zenon DEF LogStates, D, l, s

\* A write and a restart lead from one such state to the next.
LEMMA LogStepKeeps ==
    ASSUME NEW keep \in Nat, NEW s \in LogStates(keep), NEW e \in [gap : Nat, restart : BOOLEAN]
    PROVE  LogStep(s, e, keep) \in LogStates(keep)
<1> DEFINE now == s.day + e.gap
           seen == s.seen \cup {now}
           K == Kept(seen, now, keep)
           log == IF e.restart THEN OpenDay(s.log.files, now, keep)
                  ELSE write(s.log, now, keep)
<1>1. /\ s.day \in Nat /\ s.seen \in SUBSET Nat
      /\ s.day \in s.seen /\ \A x \in s.seen : x <= s.day
      /\ s.log = [date |-> days_to_civil(s.day), files |-> Kept(s.seen, s.day, keep)]
    BY DEF LogStates
<1>2. s.log.date = days_to_civil(s.day) /\ s.log.files = Kept(s.seen, s.day, keep)
    BY <1>1
<1>3. e.gap \in Nat /\ now \in Nat /\ s.day <= now
    BY <1>1
<1>4. /\ seen \in SUBSET Nat /\ now \in seen /\ \A x \in seen : x <= now
    BY <1>1, <1>3
<1>5. LogStep(s, e, keep) = [day |-> now, seen |-> seen, log |-> log]
    BY Zenon DEF LogStep
<1> HIDE DEF now
<1>6. OpenDay(s.log.files, now, keep) = [date |-> days_to_civil(now), files |-> K]
  <2>1. \A x \in s.seen : x \in Nat
      BY <1>1
  <2> QED
      BY <1>1, <1>2, <1>3, <2>1, OpenDayKeeps DEF Opens
<1>7. log = [date |-> days_to_civil(now), files |-> K]
  <2>1. CASE e.restart \/ days_to_civil(now) # s.log.date
      BY <1>6, <2>1, Zenon DEF write
  <2>2. CASE ~e.restart /\ days_to_civil(now) = s.log.date
    <3>1. log = s.log
        BY <2>2, Zenon DEF write
    <3>2. now = s.day
        BY <1>1, <1>2, <1>3, <2>2, CivilOrder
    <3>3. seen = s.seen
        BY <1>1, <3>2
    <3> QED
        BY <1>1, <3>1, <3>2, <3>3
  <2> QED
      BY <2>1, <2>2
<1> HIDE DEF seen, K, log
<1> QED
    BY <1>3, <1>4, <1>5, <1>7, LogStateIs DEF K
LogUpTo(day, keep, events) ==
    CHOOSE after : after =
        [i \in 0..MaxEvents |->
            IF i = 0 THEN [day |-> day, seen |-> {day}, log |-> OpenDay({}, day, keep)]
            ELSE LogStep(after[i - 1], events[i], keep)]

\* So LogAfter ends in one.
LEMMA LogAfterKeeps ==
    ASSUME NEW day \in Nat, NEW keep \in Nat,
           NEW events \in [1..MaxEvents -> [gap : Nat, restart : BOOLEAN]]
    PROVE  LogAfter(day, keep, events) \in LogStates(keep)
<1> DEFINE n == MaxEvents
           S == LogStates(keep)
           first == [day |-> day, seen |-> {day}, log |-> OpenDay({}, day, keep)]
           Then(s, e) == LogStep(s, e, keep)
           step == [i \in 1..n |-> [s \in S |-> Then(s, events[i])]]
           Eqn(p) == p = [i \in 0..n |-> IF i = 0 THEN first ELSE Then(p[i - 1], events[i])]
           P == LogUpTo(day, keep, events)
<1>1. n \in Nat /\ \A i \in 1..n : events[i] \in [gap : Nat, restart : BOOLEAN]
    BY AlgorithmsAssumption
<1>2. LogAfter(day, keep, events) = P[n]
    BY DEF LogAfter, LogUpTo, LogStep
<1>3. first \in S
  <2> DEFINE none == {}
  <2>1. Kept(none, day, keep) = {} /\ none \cup {day} = {day} /\ \A x \in none : x \in Nat
      BY DEF Kept
  <2>2. {day} \in SUBSET Nat /\ day \in {day} /\ \A x \in {day} : x <= day
      OBVIOUS
  <2> HIDE DEF none
  <2>3. OpenDay({}, day, keep) = [date |-> days_to_civil(day), files |-> Kept({day}, day, keep)]
    <3>1. Opens(none, day, day, keep)
        BY <2>1, OpenDayKeeps
    <3> QED
        BY <2>1, <3>1 DEF Opens
  <2> QED
      BY <2>2, <2>3, LogStateIs
<1>4. ASSUME NEW i \in 1..n, NEW s \in S PROVE Then(s, events[i]) \in S
    BY <1>1, LogStepKeeps
<1> HIDE DEF n, S, first, Then
<1>5. step \in [1..n -> [S -> S]]
    BY <1>4
<1>6. PICK g \in [0..n -> S] : Follows(g, n, first, step)
  <2> HIDE DEF step
  <2> QED
      BY <1>1, <1>3, <1>5, RecursionExists
<1>7. g[0] = first
    BY <1>6 DEF Follows
<1>8. ASSUME NEW i \in 1..n PROVE g[i] = Then(g[i - 1], events[i])
  <2>1. i - 1 \in 0..n
      BY <1>1
  <2>2. g[i - 1] \in S
      BY <2>1
  <2>3. g[i] = step[i][g[i - 1]]
      BY <1>6 DEF Follows
  <2> QED
      BY <2>2, <2>3
<1>9. Eqn(g)
  <2>1. ASSUME NEW i \in 0..n
        PROVE  g[i] = IF i = 0 THEN first ELSE Then(g[i - 1], events[i])
    <3>1. i # 0 => i \in 1..n
        BY <1>1
    <3> QED
        BY <1>7, <1>8, <3>1
  <2>2. g = [i \in 0..n |-> g[i]]
      OBVIOUS
  <2> QED
      BY <2>1, <2>2, Zenon
<1>10. Eqn(P)
    BY <1>9, Zenon DEF LogUpTo, n, first, Then
<1> HIDE DEF P
<1>11. P[0] = first /\ \A i \in 1..n : P[i] = Then(P[i - 1], events[i])
  <2>1. \A i \in 0..n : P[i] = IF i = 0 THEN first ELSE Then(P[i - 1], events[i])
      BY <1>10, Zenon
  <2>2. 0 \in 0..n /\ \A i \in 1..n : i \in 0..n /\ i # 0
      BY <1>1
  <2> QED
      BY <2>1, <2>2, Zenon
<1>12. P[n] = g[n]
  <2>1. P[0] = g[0] /\ \A i \in 1..n : P[i - 1] = g[i - 1] => P[i] = g[i]
      BY <1>7, <1>8, <1>11
  <2>2. Agree(P, g, n)
      BY <2>1 DEF Agree
  <2>3. \A i \in 0..n : P[i] = g[i]
      BY <1>1, <2>2, RecursionUnique
  <2> QED
      BY <1>1, <2>3
<1>13. g[n] \in S
    BY <1>1
<1> QED
    BY <1>2, <1>12, <1>13 DEF S

\* LogsKept of the answers.
LEMMA AnswersLogs == Answers => LogsKept
<1> SUFFICES ASSUME Answers PROVE LogsKept
    OBVIOUS
<1>1. CalendarRight
  <2> SUFFICES ASSUME Answered("date")
               PROVE  /\ question.day = 0 => answer[1] = <<1970, 1, 1>>
                      /\ answer[2] = DayAfter(answer[1])
      BY DEF CalendarRight
  <2>1. question.day \in Nat
      BY AlgorithmsAssumption DEF Answered, Answers
  <2>2. answer[1] = days_to_civil(question.day) /\ answer[2] = days_to_civil(question.day + 1)
      BY DEF Answered, Answers
  <2> QED
      BY <2>1, <2>2, CivilNext, Epoch
<1>2. ASSUME Answered("log")
      PROVE  /\ answer.log.date = days_to_civil(answer.day)
             /\ answer.log.files = Kept(answer.seen, answer.day, question.keep)
  <2>1. /\ question.day \in Days /\ question.keep \in Keeps
        /\ question.events \in [1..MaxEvents -> Events]
        /\ answer = LogAfter(question.day, question.keep, question.events)
      BY <1>2 DEF Answered, Answers
  <2>2. question.day \in Nat /\ question.keep \in Nat
      BY <2>1, AlgorithmsAssumption
  <2>3. question.events \in [1..MaxEvents -> [gap : Nat, restart : BOOLEAN]]
    <3>1. ASSUME NEW e \in Events PROVE e \in [gap : Nat, restart : BOOLEAN]
        BY AlgorithmsAssumption DEF Events
    <3>2. Events \subseteq [gap : Nat, restart : BOOLEAN]
        BY <3>1
    <3> HIDE DEF Events
    <3> QED
        BY <2>1, <3>2
  <2>4. answer \in LogStates(question.keep)
      BY <2>1, <2>2, <2>3, LogAfterKeeps
  <2>5. answer.log = [date |-> days_to_civil(answer.day),
                      files |-> Kept(answer.seen, answer.day, question.keep)]
      BY <2>4 DEF LogStates
  <2> QED
      BY <2>5
<1> QED
    BY <1>1, <1>2 DEF LogsKept, Kept

\* The calendar of the log's names goes on day by day from the epoch, and after
\* any writes and restarts, on whatever days and with any keep_days, the directory
\* holds the logs of exactly the days not older than keep_days.
THEOREM LogsAreKept == Questions => []LogsKept
BY AnswersRight, AnswersLogs, PTL
------------------------------------------------------------------------------
(* The scheduler: candidates and sums *)

\* The function behind Sums is the one its equation asks for.
LEMMA SumsFacts ==
    ASSUME NEW s \in Seq(Nat)
    PROVE  /\ Sums(s) \in [0..Len(s) -> Nat] /\ Sums(s)[0] = 0
           /\ \A i \in 1..Len(s) : Sums(s)[i] = Sums(s)[i - 1] + s[i]
<1> DEFINE k == Len(s)
           step == [i \in 1..k |-> [x \in Nat |-> x + s[i]]]
           Eqn(p) == p = [i \in 0..k |-> IF i = 0 THEN 0 ELSE p[i - 1] + s[i]]
           P == Sums(s)
<1>1. k \in Nat /\ \A i \in 1..k : s[i] \in Nat
    BY LenProperties, ElementOfSeq
<1> HIDE DEF k
<1>2. step \in [1..k -> [Nat -> Nat]]
  <2>1. \A i \in 1..k, x \in Nat : x + s[i] \in Nat
      BY <1>1
  <2> QED
      BY <2>1
<1>3. PICK g \in [0..k -> Nat] : Follows(g, k, 0, step)
  <2>1. 0 \in Nat
      OBVIOUS
  <2> HIDE DEF step
  <2> QED
      BY <1>1, <1>2, <2>1, RecursionExists
<1>4. g[0] = 0
    BY <1>3 DEF Follows
<1>5. ASSUME NEW i \in 1..k PROVE g[i] = g[i - 1] + s[i]
  <2>1. i - 1 \in 0..k
      BY <1>1
  <2>2. g[i - 1] \in Nat
      BY <2>1
  <2> QED
      BY <1>3, <2>2 DEF Follows
<1>6. Eqn(g)
  <2>1. ASSUME NEW i \in 0..k PROVE g[i] = IF i = 0 THEN 0 ELSE g[i - 1] + s[i]
    <3>1. i # 0 => i \in 1..k
        BY <1>1
    <3> QED
        BY <1>4, <1>5, <3>1
  <2>2. g = [i \in 0..k |-> g[i]]
      OBVIOUS
  <2> QED
      BY <2>1, <2>2, Zenon
<1>7. Eqn(P)
    BY <1>6, Zenon DEF Sums, k
<1> HIDE DEF P
<1>8. P[0] = 0 /\ \A i \in 1..k : P[i] = P[i - 1] + s[i]
  <2>1. \A i \in 0..k : P[i] = IF i = 0 THEN 0 ELSE P[i - 1] + s[i]
      BY <1>7, Zenon
  <2>2. 0 \in 0..k /\ \A i \in 1..k : i \in 0..k /\ i # 0
      BY <1>1
  <2> QED
      BY <2>1, <2>2, Zenon
<1>9. \A i \in 0..k : P[i] = g[i]
  <2>1. P[0] = g[0] /\ \A i \in 1..k : P[i - 1] = g[i - 1] => P[i] = g[i]
      BY <1>4, <1>5, <1>8
  <2>2. Agree(P, g, k)
      BY <2>1 DEF Agree
  <2> QED
      BY <1>1, <2>2, RecursionUnique
<1>10. P \in [0..k -> Nat]
  <2>1. P = [i \in 0..k |-> P[i]]
      BY <1>7, Zenon
  <2>2. \A i \in 0..k : P[i] \in Nat
      BY <1>9
  <2> QED
      BY <2>1, <2>2, Zenon
<1> QED
    BY <1>8, <1>10 DEF P, k

\* A link the scheduler may take.
Links == [alive : BOOLEAN, skipped : BOOLEAN, rate_bps : Nat]
Usable(l) == l.alive /\ ~l.skipped

\* c holds the usable links among the first n, in their order.
Chosen(c, links, n) ==
    /\ c \in Seq(Nat) /\ Len(c) <= n
    /\ \A j \in 1..Len(c) : c[j] \in 1..n /\ Usable(links[c[j]])
    /\ \A j, k \in 1..Len(c) : j < k => c[j] < c[k]
    /\ \A m \in 1..n : Usable(links[m]) => \E j \in 1..Len(c) : c[j] = m

CandidatesUpTo(links) ==
    CHOOSE alive : alive = [i \in 0..Len(links) |->
        IF i = 0 THEN <<>>
        ELSE IF links[i].alive /\ ~links[i].skipped THEN Append(alive[i - 1], i)
        ELSE alive[i - 1]]

\* The function behind Candidates is the one its equation asks for.
LEMMA CandidatesIs ==
    ASSUME NEW links \in Seq(Links)
    PROVE  \E g \in [0..Len(links) -> Seq(Nat)] :
              /\ g[0] = <<>>
              /\ \A i \in 1..Len(links) :
                    g[i] = IF Usable(links[i]) THEN Append(g[i - 1], i) ELSE g[i - 1]
              /\ Candidates(links) = g[Len(links)]
<1> DEFINE k == Len(links)
           Then(s, i) == IF links[i].alive /\ ~links[i].skipped THEN Append(s, i) ELSE s
           step == [i \in 1..k |-> [s \in Seq(Nat) |-> Then(s, i)]]
           Eqn(p) == p = [i \in 0..k |-> IF i = 0 THEN <<>> ELSE Then(p[i - 1], i)]
           P == CandidatesUpTo(links)
<1>1. k \in Nat
    BY LenProperties
<1>2. Candidates(links) = P[k]
    BY DEF Candidates, CandidatesUpTo
<1> HIDE DEF k
<1>3. step \in [1..k -> [Seq(Nat) -> Seq(Nat)]]
  <2>1. ASSUME NEW i \in 1..k, NEW s \in Seq(Nat) PROVE Then(s, i) \in Seq(Nat)
    <3>1. i \in Nat
        BY <1>1
    <3> QED
        BY <3>1, AppendFacts
  <2> HIDE DEF Then
  <2> QED
      BY <2>1
<1>4. PICK g \in [0..k -> Seq(Nat)] : Follows(g, k, <<>>, step)
  <2>1. <<>> \in Seq(Nat)
      BY EmptySeq
  <2> HIDE DEF step
  <2> QED
      BY <1>1, <1>3, <2>1, RecursionExists
<1>5. g[0] = <<>>
    BY <1>4 DEF Follows
<1>6. ASSUME NEW i \in 1..k PROVE g[i] = Then(g[i - 1], i)
  <2>1. i - 1 \in 0..k
      BY <1>1
  <2>2. g[i - 1] \in Seq(Nat)
      BY <2>1
  <2>3. g[i] = step[i][g[i - 1]]
      BY <1>4 DEF Follows
  <2> HIDE DEF Then
  <2> QED
      BY <2>2, <2>3
<1> HIDE DEF Then
<1>7. Eqn(g)
  <2>1. ASSUME NEW i \in 0..k PROVE g[i] = IF i = 0 THEN <<>> ELSE Then(g[i - 1], i)
    <3>1. i # 0 => i \in 1..k
        BY <1>1
    <3> QED
        BY <1>5, <1>6, <3>1
  <2>2. g = [i \in 0..k |-> g[i]]
      OBVIOUS
  <2> QED
      BY <2>1, <2>2, Zenon
<1>8. Eqn(P)
    BY <1>7, Zenon DEF CandidatesUpTo, k, Then
<1> HIDE DEF P
<1>9. P[0] = <<>> /\ \A i \in 1..k : P[i] = Then(P[i - 1], i)
  <2>1. \A i \in 0..k : P[i] = IF i = 0 THEN <<>> ELSE Then(P[i - 1], i)
      BY <1>8, Zenon
  <2>2. 0 \in 0..k /\ \A i \in 1..k : i \in 0..k /\ i # 0
      BY <1>1
  <2> QED
      BY <2>1, <2>2, Zenon
<1>10. P[k] = g[k]
  <2>1. P[0] = g[0] /\ \A i \in 1..k : P[i - 1] = g[i - 1] => P[i] = g[i]
      BY <1>5, <1>6, <1>9
  <2>2. Agree(P, g, k)
      BY <2>1 DEF Agree
  <2>3. \A i \in 0..k : P[i] = g[i]
      BY <1>1, <2>2, RecursionUnique
  <2> QED
      BY <1>1, <2>3
<1> QED
    BY <1>2, <1>5, <1>6, <1>10 DEF k, Then, Usable
\* Candidates is the loop's list of usable links.
LEMMA CandidatesFacts ==
    ASSUME NEW links \in Seq(Links)
    PROVE  Chosen(Candidates(links), links, Len(links))
<1> DEFINE n == Len(links)
<1>1. PICK g \in [0..n -> Seq(Nat)] :
          /\ g[0] = <<>>
          /\ \A i \in 1..n : g[i] = IF Usable(links[i]) THEN Append(g[i - 1], i) ELSE g[i - 1]
          /\ Candidates(links) = g[n]
    BY CandidatesIs
<1>2. n \in Nat
    BY LenProperties
<1> HIDE DEF n
<1> DEFINE T == {i \in 0..n : Chosen(g[i], links, i)}
<1>3. 0 \in T
  <2>1. g[0] \in Seq(Nat) /\ Len(g[0]) = 0
      BY <1>1, EmptySeq
  <2>2. 0 \in 0..n
      BY <1>2
  <2> QED
      BY <2>1, <2>2 DEF Chosen
<1>4. ASSUME NEW i \in 1..n, i - 1 \in T PROVE i \in T
  <2> DEFINE d == g[i - 1]
  <2>1. i \in 0..n /\ i \in Nat /\ i - 1 \in Nat
      BY <1>2
  <2>2. Chosen(d, links, i - 1)
      BY <1>4
  <2>3. g[i] = IF Usable(links[i]) THEN Append(d, i) ELSE d
      BY <1>1
  <2> HIDE DEF d
  <2>4. d \in Seq(Nat) /\ Len(d) \in Nat /\ Len(d) <= i - 1
      BY <2>2, LenProperties DEF Chosen
  <2>5. \A m \in 1..i : m = i \/ m \in 1..(i - 1)
      BY <2>1
  <2>6. \A m \in 1..(i - 1) : m \in 1..i /\ m < i
      BY <2>1
  <2>7. CASE ~Usable(links[i])
    <3>1. Chosen(d, links, i)
      <4>1. Len(d) <= i
          BY <2>1, <2>4
      <4>2. \A j \in 1..Len(d) : d[j] \in 1..i /\ Usable(links[d[j]])
          BY <2>2, <2>6 DEF Chosen
      <4>3. \A m \in 1..i : Usable(links[m]) => \E j \in 1..Len(d) : d[j] = m
          BY <2>2, <2>5, <2>7 DEF Chosen
      <4> QED
          BY <2>2, <2>4, <4>1, <4>2, <4>3 DEF Chosen
    <3> QED
        BY <2>1, <2>3, <2>7, <3>1
  <2>8. CASE Usable(links[i])
    <3> DEFINE e == Append(d, i)
               k0 == Len(d) + 1
    <3>1. e \in Seq(Nat) /\ Len(e) = k0 /\ e[k0] = i /\ \A j \in 1..Len(d) : e[j] = d[j]
        BY <2>1, <2>4, AppendFacts
    <3> HIDE DEF e
    <3>2. k0 \in 1..Len(e) /\ (\A j \in 1..Len(e) : j = k0 \/ j \in 1..Len(d))
          /\ (\A j \in 1..Len(d) : j \in 1..Len(e) /\ j < k0) /\ Len(e) <= i
        BY <2>1, <2>4, <3>1
    <3> HIDE DEF k0
    <3>3. \A j \in 1..Len(e) : e[j] \in 1..i /\ Usable(links[e[j]])
      <4>1. SUFFICES ASSUME NEW j \in 1..Len(e) PROVE e[j] \in 1..i /\ Usable(links[e[j]])
          OBVIOUS
      <4>2. CASE j = k0
          BY <2>1, <2>8, <3>1, <4>2
      <4>3. CASE j \in 1..Len(d)
        <5>1. e[j] = d[j] /\ d[j] \in 1..(i - 1) /\ Usable(links[d[j]])
            BY <2>2, <3>1, <4>3 DEF Chosen
        <5> QED
            BY <2>6, <5>1
      <4> QED
          BY <3>2, <4>2, <4>3
    <3>4. ASSUME NEW j \in 1..Len(e), NEW k \in 1..Len(e), j < k PROVE e[j] < e[k]
      <4>1. j \in 1..Len(d)
          BY <2>4, <3>1, <3>2, <3>4
      <4>2. e[j] = d[j] /\ d[j] \in 1..(i - 1)
          BY <2>2, <3>1, <4>1 DEF Chosen
      <4>3. CASE k = k0
          BY <2>6, <3>1, <4>2, <4>3
      <4>4. CASE k \in 1..Len(d)
          BY <2>2, <3>1, <3>4, <4>1, <4>2, <4>4 DEF Chosen
      <4> QED
          BY <3>2, <4>3, <4>4
    <3>5. ASSUME NEW m \in 1..i, Usable(links[m]) PROVE \E j \in 1..Len(e) : e[j] = m
      <4>1. CASE m = i
          BY <3>1, <3>2, <4>1
      <4>2. CASE m \in 1..(i - 1)
        <5>1. PICK j \in 1..Len(d) : d[j] = m
            BY <2>2, <3>5, <4>2 DEF Chosen
        <5> QED
            BY <3>1, <3>2, <5>1
      <4> QED
          BY <2>5, <4>1, <4>2
    <3>6. Chosen(e, links, i)
        BY <3>1, <3>2, <3>3, <3>4, <3>5 DEF Chosen
    <3> QED
        BY <2>1, <2>3, <2>8, <3>6 DEF e
  <2> QED
      BY <2>7, <2>8
<1>5. \A i \in 0..n : i \in T
  <2> HIDE DEF T
  <2> QED
      BY <1>2, <1>3, <1>4, UpTo
<1>6. n \in T
    BY <1>2, <1>5
<1> QED
    BY <1>1, <1>6 DEF n

\* The links a pool's questions are about.
LEMMA PoolsAreLinks ==
    ASSUME NEW l \in Pools
    PROVE  l \in Seq(Links) /\ Len(l) \in 1..MaxLinks
<1> DEFINE A == [alive : BOOLEAN, skipped : {FALSE}, rate_bps : Rates] \cup {Link(TRUE, TRUE, 1)}
<1>1. PICK k \in 1..MaxLinks : l \in [1..k -> A]
    BY DEF Pools
<1>2. A \subseteq Links
  <2>1. [alive : BOOLEAN, skipped : {FALSE}, rate_bps : Rates] \subseteq Links
    <3>1. ASSUME NEW r \in [alive : BOOLEAN, skipped : {FALSE}, rate_bps : Rates]
          PROVE  r \in Links
        BY AlgorithmsAssumption DEF Links
    <3> QED
        BY <3>1
  <2>2. Link(TRUE, TRUE, 1) \in Links
      BY DEF Links, Link
  <2> QED
      BY <2>1, <2>2
<1>3. k \in Nat /\ MaxLinks \in Nat
    BY AlgorithmsAssumption
<1> HIDE DEF A
<1>4. l \in [1..k -> Links]
    BY <1>1, <1>2
<1>5. l \in Seq(Links)
    BY <1>3, <1>4, SeqDef
<1>6. Len(l) = k
    BY <1>3, <1>4, <1>5, LenProperties
<1> QED
    BY <1>5, <1>6
------------------------------------------------------------------------------
(* The scheduler: anchors and shares *)

\* Products keep the order, and a positive factor may be dropped.
LEMMA Times ==
    ASSUME NEW a \in Nat, NEW b \in Nat, NEW s \in Nat
    PROVE  /\ a * s \in Nat
           /\ a <= b => a * s <= b * s
           /\ s > 0 /\ a < b => a * s < b * s
           /\ a * s < b * s => a < b
<1>1. a <= b => a * s <= b * s
  <2> SUFFICES ASSUME a <= b PROVE a * s <= b * s
      OBVIOUS
  <2> DEFINE d == b - a
  <2>1. d \in Nat /\ b = a + d
      OBVIOUS
  <2> HIDE DEF d
  <2>2. b * s = a * s + d * s /\ d * s \in Nat
      BY <2>1
  <2> QED
      BY <2>2
<1>2. s > 0 /\ a < b => a * s < b * s
  <2> SUFFICES ASSUME s > 0, a < b PROVE a * s < b * s
      OBVIOUS
  <2> DEFINE d == b - a - 1
  <2>1. d \in Nat /\ b = a + d + 1
      OBVIOUS
  <2> HIDE DEF d
  <2>2. b * s = a * s + d * s + s /\ d * s \in Nat
      BY <2>1
  <2> QED
      BY <2>2
<1>3. b <= a => b * s <= a * s
  <2> SUFFICES ASSUME b <= a PROVE b * s <= a * s
      OBVIOUS
  <2> DEFINE d == a - b
  <2>1. d \in Nat /\ a = b + d
      OBVIOUS
  <2> HIDE DEF d
  <2>2. a * s = b * s + d * s /\ d * s \in Nat
      BY <2>1
  <2> QED
      BY <2>2
<1>4. a * s \in Nat /\ b * s \in Nat
    OBVIOUS
<1> QED
    BY <1>1, <1>2, <1>3, <1>4

\* The anchors below a sum y, on a grid of step s, are those below some c.
Ceiling(c, y, s) ==
    /\ c \in Nat /\ y <= c * s /\ c * s < y + s
    /\ \A r \in Nat : r * s < y <=> r < c

LEMMA CeilingExists ==
    ASSUME NEW y \in Nat, NEW s \in Nat \ {0}
    PROVE  \E c : Ceiling(c, y, s)
<1> DEFINE q == y \div s
           c == IF q * s = y THEN q ELSE q + 1
<1>1. q \in Nat /\ s * q <= y /\ y < s * q + s
    BY QuotientBounds
<1> HIDE DEF q
<1>2. q * s = s * q /\ (q + 1) * s = q * s + s
    BY <1>1
<1>3. c \in Nat /\ y <= c * s /\ c * s < y + s
    BY <1>1, <1>2
<1> HIDE DEF c
<1>4. ASSUME NEW r \in Nat, r < c PROVE r * s < y
  <2>1. (r + 1) * s <= c * s
      BY <1>3, <1>4, Times
  <2>2. (r + 1) * s = r * s + s
      OBVIOUS
  <2> QED
      BY <1>3, <2>1, <2>2, Times
<1>5. ASSUME NEW r \in Nat, ~(r < c) PROVE ~(r * s < y)
  <2>1. c * s <= r * s
      BY <1>3, <1>5, Times
  <2> QED
      BY <1>3, <2>1, Times
<1>6. Ceiling(c, y, s)
    BY <1>3, <1>4, <1>5 DEF Ceiling
<1> QED
    BY <1>6

\* How many anchors of the grid are from y to below z: their part of it, to
\* less than one.
LEMMA AnchorsBetween ==
    ASSUME NEW g \in Nat \ {0}, NEW s \in Nat \ {0}, NEW y \in Nat, NEW z \in Nat,
           y <= z, z <= g * s,
           NEW C, C = {r \in 0..(g - 1) : y <= r * s /\ r * s < z}
    PROVE  /\ Cardinality(C) \in Nat
           /\ Cardinality(C) * s < (z - y) + s /\ z - y < Cardinality(C) * s + s
<1>1. PICK a : Ceiling(a, y, s)
    BY CeilingExists
<1>2. PICK b : Ceiling(b, z, s)
    BY CeilingExists
<1>3. a \in Nat /\ y <= a * s /\ a * s < y + s /\ \A r \in Nat : r * s < y <=> r < a
    BY <1>1 DEF Ceiling
<1>4. b \in Nat /\ z <= b * s /\ b * s < z + s /\ \A r \in Nat : r * s < z <=> r < b
    BY <1>2 DEF Ceiling
<1>5. b <= g
  <2>1. (g + 1) * s = g * s + s /\ g * s \in Nat
      OBVIOUS
  <2>2. b * s < (g + 1) * s
      BY <1>4, <2>1, Times
  <2>3. b < g + 1
      BY <1>4, <2>2, Times
  <2> QED
      BY <1>4, <2>3
<1>6. a <= b
  <2> SUFFICES ASSUME b < a PROVE FALSE
      BY <1>3, <1>4
  <2>1. b * s < y
      BY <1>3, <1>4
  <2>2. b * s \in Nat
      BY <1>4
  <2> QED
      BY <1>4, <2>1, <2>2
<1>7. C = a..(b - 1)
  <2>1. ASSUME NEW r \in C PROVE r \in a..(b - 1)
    <3>1. r \in Nat /\ r * s \in Nat /\ y <= r * s /\ r * s < z
        BY <2>1
    <3>2. r < b
        BY <1>4, <3>1
    <3>3. ~(r < a)
      <4>1. ~(r * s < y)
          BY <3>1
      <4> QED
          BY <1>3, <3>1, <4>1
    <3> QED
        BY <1>3, <1>4, <3>1, <3>2, <3>3
  <2>2. ASSUME NEW r \in a..(b - 1) PROVE r \in C
    <3>1. r \in Nat /\ r < b /\ ~(r < a) /\ r \in 0..(g - 1)
        BY <1>3, <1>4, <1>5
    <3>2. r * s < z /\ ~(r * s < y) /\ r * s \in Nat
        BY <1>3, <1>4, <3>1, Times
    <3> QED
        BY <3>1, <3>2
  <2> QED
      BY <2>1, <2>2
<1>8. Cardinality(C) = b - a
  <2>1. a \in Int /\ b - 1 \in Int
      BY <1>3, <1>4
  <2>2. Cardinality(a..(b - 1)) = IF a > b - 1 THEN 0 ELSE (b - 1) - a + 1
      BY <2>1, FS_Interval
  <2>3. (IF a > b - 1 THEN 0 ELSE (b - 1) - a + 1) = b - a
      BY <1>3, <1>4, <1>6
  <2> QED
      BY <1>7, <2>2, <2>3, Zenon
<1> DEFINE k == b - a
<1>9. k \in Nat /\ b = a + k
    BY <1>3, <1>4, <1>6
<1> HIDE DEF k
<1>10. b * s = a * s + k * s /\ k * s \in Nat /\ a * s \in Nat
    BY <1>3, <1>9
<1>11. k * s < (z - y) + s /\ z - y < k * s + s
    BY <1>3, <1>4, <1>10
<1> QED
    BY <1>8, <1>9, <1>11 DEF k
\* The sums never fall.
LEMMA SumsRise ==
    ASSUME NEW s \in Seq(Nat), NEW i \in 0..Len(s), NEW j \in 0..Len(s), i <= j
    PROVE  Sums(s)[i] <= Sums(s)[j]
<1> DEFINE k == Len(s)
           P == Sums(s)
           n == j - i
           T == {d \in 0..n : P[i] <= P[i + d]}
<1>1. k \in Nat /\ \A m \in 1..k : s[m] \in Nat
    BY LenProperties, ElementOfSeq
<1>2. P \in [0..k -> Nat] /\ \A m \in 1..k : P[m] = P[m - 1] + s[m]
    BY SumsFacts
<1>3. i \in 0..k /\ j \in 0..k /\ i \in Nat /\ j \in Nat /\ n \in Nat
    BY <1>1
<1> HIDE DEF k, P
<1>4. 0 \in T
  <2>1. i + 0 = i /\ P[i] \in Nat /\ 0 \in 0..n
      BY <1>2, <1>3
  <2> HIDE DEF n
  <2> QED
      BY <2>1
<1>5. \A d \in 1..n : d - 1 \in T => d \in T
  <2> SUFFICES ASSUME NEW d \in 1..n, d - 1 \in T PROVE d \in T
      OBVIOUS
  <2> DEFINE m == i + d
  <2>1. m \in 1..k /\ m \in 0..k /\ m - 1 \in 0..k /\ i + (d - 1) = m - 1 /\ d \in 0..n
    <3>1. d \in Nat /\ d >= 1 /\ i + d <= j /\ j <= k
        BY <1>1, <1>3
    <3> QED
        BY <1>1, <1>3, <3>1
  <2>2. P[i] <= P[m - 1]
      BY <2>1
  <2> HIDE DEF m, n
  <2>3. P[m] = P[m - 1] + s[m] /\ P[m - 1] \in Nat /\ s[m] \in Nat /\ P[i] \in Nat
      BY <1>1, <1>2, <1>3, <2>1
  <2>4. P[i] <= P[m]
      BY <2>2, <2>3
  <2> QED
      BY <2>1, <2>4 DEF m
<1>6. n \in T
  <2> HIDE DEF T, n
  <2>1. \A d \in 0..n : d \in T
      BY <1>3, <1>4, <1>5, UpTo
  <2> QED
      BY <1>3, <2>1
<1>7. i + n = j
    BY <1>3
<1> HIDE DEF n
<1> QED
    BY <1>6, <1>7 DEF P

\* The first of some rising bounds that is above x.
Rises(b, n) == \A i, j \in 0..n : i <= j => b[i] <= b[j]
Above(b, n, x) == {i \in 1..n : x < b[i]}
First(m, b, n, x) ==
    m \in 1..n /\ \A i \in 1..n : m = i <=> b[i - 1] <= x /\ x < b[i]

LEMMA FirstAbove ==
    ASSUME NEW n \in Nat \ {0}, NEW b \in [0..n -> Nat], NEW x \in Nat,
           Rises(b, n), b[0] <= x, x < b[n]
    PROVE  First(Min(Above(b, n, x)), b, n, x)
<1> DEFINE H == Above(b, n, x)
           m == Min(H)
<1> USE DEF Rises, Above
<1>1. n \in H /\ H \in SUBSET Nat
    OBVIOUS
<1>2. \E k \in H : \A l \in H : k <= l
  <2>1. H # {}
      BY <1>1
  <2> QED
      BY <1>1, <2>1, LeastExists
<1>3. m \in H /\ \A l \in H : m <= l
    BY <1>2, Zenon DEF Min
<1> HIDE DEF m
<1>4. m \in 1..n /\ x < b[m] /\ m - 1 \in 0..n /\ m \in 0..n
    BY <1>3
<1>5. b[m - 1] <= x
  <2>1. CASE m = 1
      BY <2>1
  <2>2. CASE m # 1
    <3>1. m - 1 \in 1..n /\ m - 1 \notin H
        BY <1>3, <1>4, <2>2
    <3>2. ~(x < b[m - 1]) /\ b[m - 1] \in Nat
        BY <1>4, <3>1
    <3> QED
        BY <3>2
  <2> QED
      BY <2>1, <2>2
<1>6. ASSUME NEW i \in 1..n, b[i - 1] <= x, x < b[i] PROVE m = i
  <2>1. i \in H /\ m <= i /\ i - 1 \in 0..n
      BY <1>3, <1>6
  <2>2. ~(m <= i - 1)
    <3> SUFFICES ASSUME m <= i - 1 PROVE FALSE
        OBVIOUS
    <3>1. b[m] <= b[i - 1] /\ b[m] \in Nat /\ b[i - 1] \in Nat
        BY <1>4, <2>1
    <3> QED
        BY <1>4, <1>6, <3>1
  <2> QED
      BY <1>4, <2>1, <2>2
<1> QED
    BY <1>4, <1>5, <1>6 DEF m, First

\* The weights are positive; those of the links above the floor are what they
\* are due.
LEMMA WeightsFacts ==
    ASSUME NEW raw \in Seq(Nat)
    PROVE  /\ Total(raw) \in Nat /\ Weights(raw) \in Seq(Nat) /\ Len(Weights(raw)) = Len(raw)
           /\ \A i \in 1..Len(raw) :
                 LET v == IF raw[i] > 0 THEN FLOOR * Len(raw) * raw[i] ELSE FLOOR * Total(raw)
                 IN  /\ Weights(raw)[i] > 0
                     /\ Weights(raw)[i] = IF Total(raw) = 0 THEN 1
                                          ELSE IF v >= Len(raw) * Total(raw) THEN v
                                          ELSE Len(raw) * Total(raw)
<1> DEFINE n == Len(raw)
           t == Total(raw)
           V(i) == IF raw[i] > 0 THEN FLOOR * n * raw[i] ELSE FLOOR * t
           W(i) == IF t = 0 THEN 1 ELSE Largest(V(i), n * t)
           w == [i \in 1..n |-> W(i)]
<1>1. n \in Nat /\ FLOOR \in Nat /\ \A i \in 1..n : raw[i] \in Nat
    BY LenProperties, ElementOfSeq, GridAssumption
<1>2. t \in Nat
  <2>1. Sums(raw) \in [0..n -> Nat] /\ n \in 0..n
      BY <1>1, SumsFacts
  <2> QED
      BY <2>1 DEF Total
<1>3. Weights(raw) = w
  <2>1. CASE t = 0
      BY <2>1, Zenon DEF Weights
  <2>2. CASE t # 0
      BY <2>2, Zenon DEF Weights
  <2> QED
      BY <2>1, <2>2
<1> HIDE DEF n, t
<1>4. n * t \in Nat /\ \A i \in 1..n : V(i) \in Nat
  <2>1. n * t \in Nat /\ FLOOR * n \in Nat /\ FLOOR * t \in Nat
      BY <1>1, <1>2
  <2>2. ASSUME NEW i \in 1..n PROVE FLOOR * n * raw[i] \in Nat
    <3> DEFINE f == FLOOR * n
    <3> HIDE DEF f
    <3>1. f \in Nat /\ raw[i] \in Nat
        BY <1>1, <2>1 DEF f
    <3>2. f * raw[i] \in Nat
        BY <3>1
    <3> QED
        BY <3>2 DEF f
  <2> QED
      BY <2>1, <2>2
<1> HIDE DEF V
<1>5. ASSUME NEW i \in 1..n
      PROVE  /\ W(i) \in Nat
             /\ W(i) > 0
             /\ W(i) = IF t = 0 THEN 1 ELSE IF V(i) >= n * t THEN V(i) ELSE n * t
  <2>1. t # 0 => n * t > 0
    <3>1. n > 0 /\ n \in Nat
        BY <1>1
    <3> QED
        BY <1>2, <3>1
  <2> DEFINE p == n * t
  <2> HIDE DEF p
  <2>2. p \in Nat /\ V(i) \in Nat /\ (t # 0 => p > 0)
      BY <1>4, <2>1 DEF p
  <2> QED
      BY <2>2 DEF Largest, p
<1> HIDE DEF W
<1>6. w \in [1..n -> Nat]
    BY <1>5
<1>7. w \in Seq(Nat) /\ Len(w) = n /\ \A i \in 1..n : w[i] = W(i)
  <2>1. w \in Seq(Nat)
      BY <1>1, <1>6, SeqDef
  <2>2. Len(w) = n
      BY <1>1, <1>6, <2>1, LenProperties
  <2> QED
      BY <2>1, <2>2
<1> HIDE DEF w
<1> QED
    BY <1>2, <1>3, <1>5, <1>7 DEF n, t, V
\* The rates of the candidates, and their weights added up.
RawOf(links) ==
    [i \in 1..Len(Candidates(links)) |-> links[Candidates(links)[i]].rate_bps]
Acc(links) == Sums(Weights(RawOf(links)))
Anchors(links) == Acc(links)[Len(Candidates(links))]

LEMMA RawFacts ==
    ASSUME NEW links \in Seq(Links)
    PROVE  /\ RawOf(links) \in Seq(Nat) /\ Len(RawOf(links)) = Len(Candidates(links))
           /\ \A i \in 1..Len(Candidates(links)) :
                 RawOf(links)[i] = links[Candidates(links)[i]].rate_bps
<1> DEFINE c == Candidates(links)
           n == Len(c)
           raw == RawOf(links)
<1>1. Chosen(c, links, Len(links))
    BY CandidatesFacts
<1> HIDE DEF c
<1>2. n \in Nat /\ \A i \in 1..n : c[i] \in 1..Len(links)
    BY <1>1, LenProperties DEF Chosen
<1>3. \A i \in 1..n : links[c[i]].rate_bps \in Nat
  <2>1. ASSUME NEW i \in 1..n PROVE links[c[i]].rate_bps \in Nat
    <3>1. links[c[i]] \in Links
        BY <1>2, ElementOfSeq
    <3> QED
        BY <3>1 DEF Links
  <2> QED
      BY <2>1
<1>4. raw = [i \in 1..n |-> links[c[i]].rate_bps]
    BY DEF RawOf, c
<1> HIDE DEF raw, n
<1>5. raw \in [1..n -> Nat]
    BY <1>3, <1>4
<1>6. raw \in Seq(Nat)
    BY <1>2, <1>5, SeqDef
<1>7. Len(raw) = n
    BY <1>2, <1>5, <1>6, LenProperties
<1> QED
    BY <1>4, <1>6, <1>7 DEF raw, n, c

\* The weights of the candidates, in the terms of the pool.
LEMMA AccFacts ==
    ASSUME NEW links \in Seq(Links)
    PROVE  LET n == Len(Candidates(links))
               w == Weights(RawOf(links))
           IN  /\ n \in Nat /\ Acc(links) \in [0..n -> Nat] /\ Acc(links)[0] = 0
               /\ \A i \in 1..n : w[i] \in Nat /\ w[i] > 0
                                  /\ Acc(links)[i] = Acc(links)[i - 1] + w[i]
               /\ \A i, j \in 0..n : i <= j => Acc(links)[i] <= Acc(links)[j]
               /\ n > 0 => Anchors(links) \in Nat \ {0}
<1> DEFINE n == Len(Candidates(links))
           raw == RawOf(links)
           w == Weights(raw)
           acc == Acc(links)
<1>1. raw \in Seq(Nat) /\ Len(raw) = n
    BY RawFacts
<1>2. acc = Sums(w) /\ Anchors(links) = acc[n]
    BY DEF Acc, Anchors
<1> HIDE DEF n, raw, acc
<1>3. w \in Seq(Nat) /\ Len(w) = n /\ \A i \in 1..n : w[i] > 0
    BY <1>1, WeightsFacts
<1> HIDE DEF w
<1>4. n \in Nat /\ \A i \in 1..n : w[i] \in Nat
    BY <1>3, LenProperties, ElementOfSeq
<1>5. acc \in [0..n -> Nat] /\ acc[0] = 0 /\ \A i \in 1..n : acc[i] = acc[i - 1] + w[i]
    BY <1>2, <1>3, SumsFacts
<1>6. \A i, j \in 0..n : i <= j => acc[i] <= acc[j]
    BY <1>2, <1>3, SumsRise
<1>7. n > 0 => acc[n] \in Nat \ {0}
  <2> SUFFICES ASSUME n > 0 PROVE acc[n] \in Nat \ {0}
      OBVIOUS
  <2>1. n \in 1..n /\ n - 1 \in 0..n /\ n \in 0..n
      BY <1>4
  <2>2. acc[n] = acc[n - 1] + w[n] /\ w[n] \in Nat /\ w[n] > 0 /\ acc[n - 1] \in Nat
      BY <1>3, <1>4, <1>5, <2>1
  <2> QED
      BY <2>2
<1> QED
    BY <1>2, <1>3, <1>4, <1>5, <1>6, <1>7 DEF n, raw, w, acc

\* The link at place i is picked for the anchors between its sum and the one
\* before it.
Falls(links, r, i) ==
    /\ Acc(links)[i - 1] * WEIGHT_GRID <= r * Anchors(links)
    /\ r * Anchors(links) < Acc(links)[i] * WEIGHT_GRID

LEMMA PickIs ==
    ASSUME NEW links \in Seq(Links), Len(Candidates(links)) > 0,
           NEW r \in 0..(WEIGHT_GRID - 1)
    PROVE  \E h \in 1..Len(Candidates(links)) :
              /\ weighted_pick(links, r) = Candidates(links)[h]
              /\ \A i \in 1..Len(Candidates(links)) : h = i <=> Falls(links, r, i)
<1> DEFINE g == WEIGHT_GRID
           c == Candidates(links)
           n == Len(c)
           acc == Acc(links)
           s == Anchors(links)
           x == r * s
           H == {i \in 1..n : r * acc[n] < acc[i] * g}
           b == [i \in 0..n |-> acc[i] * g]
<1>1. /\ n \in Nat /\ acc \in [0..n -> Nat] /\ acc[0] = 0
      /\ \A i, j \in 0..n : i <= j => acc[i] <= acc[j]
      /\ n > 0 => s \in Nat \ {0}
    BY AccFacts, Zenon
<1>2. g \in Nat \ {0} /\ r \in Nat /\ r < g /\ r % g = r
  <2>1. g \in Nat \ {0} /\ r \in Nat /\ r < g
      BY GridAssumption
  <2> HIDE DEF g
  <2>2. r % g = r
      BY <2>1
  <2> QED
      BY <2>1, <2>2
<1>3. s = acc[n]
    BY DEF Anchors
<1>4. weighted_pick(links, r) = c[Min(H)]
  <2>1. weighted_pick(links, r) =
            IF n = 0 THEN 0 ELSE c[Min({i \in 1..n : (r % g) * acc[n] < acc[i] * g})]
      BY DEF weighted_pick, Acc, RawOf
  <2>2. n # 0
      BY <1>1
  <2> QED
      BY <1>2, <2>1, <2>2, Zenon
<1>5. n \in Nat \ {0} /\ s \in Nat \ {0}
    BY <1>1
<1> HIDE DEF g, c, n, acc, s
<1>6. b \in [0..n -> Nat] /\ \A i \in 0..n : b[i] = acc[i] * g
  <2>1. \A i \in 0..n : acc[i] * g \in Nat
    <3>1. ASSUME NEW i \in 0..n PROVE acc[i] * g \in Nat
      <4>1. acc[i] \in Nat
          BY <1>1
      <4> QED
          BY <1>2, <4>1
    <3> QED
        BY <3>1
  <2> QED
      BY <2>1
<1>7. \A i, j \in 0..n : i <= j => b[i] <= b[j]
  <2>1. ASSUME NEW i \in 0..n, NEW j \in 0..n, i <= j PROVE acc[i] * g <= acc[j] * g
    <3>1. acc[i] \in Nat /\ acc[j] \in Nat /\ acc[i] <= acc[j]
        BY <1>1, <2>1
    <3> QED
        BY <1>2, <3>1, Times
  <2> HIDE DEF b
  <2> QED
      BY <1>6, <2>1
<1>8. x \in Nat
    BY <1>2, <1>5
<1>9. x < b[n] /\ b[0] <= x
  <2>1. r * s < g * s /\ g * s = s * g
      BY <1>2, <1>5, Times
  <2>2. b[n] = s * g /\ b[0] = 0 * g /\ 0 * g = 0
      BY <1>1, <1>2, <1>3, <1>5, <1>6
  <2> HIDE DEF b
  <2> QED
      BY <1>8, <2>1, <2>2
<1>10. H = Above(b, n, x)
  <2>1. \A i \in 1..n : i \in 0..n
      BY <1>5
  <2>2. \A i \in 1..n : b[i] = acc[i] * g
      BY <1>6, <2>1
  <2> HIDE DEF b
  <2> QED
      BY <1>3, <2>2 DEF Above
<1> HIDE DEF b, H, x
<1>11. Min(H) \in 1..n /\ \A i \in 1..n : Min(H) = i <=> b[i - 1] <= x /\ x < b[i]
  <2>1. Rises(b, n)
      BY <1>7 DEF Rises
  <2>2. First(Min(H), b, n, x)
      BY <1>5, <1>6, <1>8, <1>9, <1>10, <2>1, FirstAbove
  <2> QED
      BY <2>2 DEF First
<1>12. ASSUME NEW i \in 1..n PROVE (b[i - 1] <= x /\ x < b[i]) <=> Falls(links, r, i)
  <2>1. i \in 0..n /\ i - 1 \in 0..n
      BY <1>5
  <2>2. b[i] = acc[i] * g /\ b[i - 1] = acc[i - 1] * g
      BY <1>6, <2>1
  <2> QED
      BY <2>2 DEF Falls, x, acc, s, g
<1> QED
    BY <1>4, <1>11, <1>12 DEF n, c
\* The anchors for which a link is picked.
PickedAt(links, m) == {r \in 0..(WEIGHT_GRID - 1) : weighted_pick(links, r) = m}

LEMMA CountsAre ==
    ASSUME NEW links, NEW m \in 0..Len(links)
    PROVE  Counts(links)[m] = Cardinality(PickedAt(links, m))
<1> DEFINE picks == [r \in 0..(WEIGHT_GRID - 1) |-> weighted_pick(links, r)]
<1>1. {r \in 0..(WEIGHT_GRID - 1) : picks[r] = m} = PickedAt(links, m)
    BY DEF PickedAt
<1>2. Counts(links)[m] = Cardinality({r \in 0..(WEIGHT_GRID - 1) : picks[r] = m})
    BY Zenon DEF Counts
<1> QED
    BY <1>1, <1>2, Zenon

\* A candidate gets its share of the anchors, to less than one.
Share(k, w, s) ==
    k \in Nat /\ k * s < w * WEIGHT_GRID + s /\ w * WEIGHT_GRID < k * s + s

LEMMA CandidateShare ==
    ASSUME NEW links \in Seq(Links), NEW i \in 1..Len(Candidates(links))
    PROVE  Share(Counts(links)[Candidates(links)[i]], Weights(RawOf(links))[i], Anchors(links))
<1> DEFINE g == WEIGHT_GRID
           c == Candidates(links)
           n == Len(c)
           acc == Acc(links)
           s == Anchors(links)
           w == Weights(RawOf(links))
           C == PickedAt(links, c[i])
           y == acc[i - 1] * g
           z == acc[i] * g
<1>1. /\ n \in Nat /\ acc \in [0..n -> Nat]
      /\ w[i] \in Nat /\ acc[i] = acc[i - 1] + w[i]
      /\ \A j, k \in 0..n : j <= k => acc[j] <= acc[k]
      /\ n > 0 => s \in Nat \ {0}
    BY AccFacts, Zenon
<1>2. s = acc[n]
    BY DEF Anchors
<1>3. g \in Nat \ {0}
    BY GridAssumption
<1>4. n > 0 /\ i \in 0..n /\ i - 1 \in 0..n /\ n \in 0..n /\ i <= n
    BY <1>1
<1>5. s \in Nat \ {0} /\ acc[i] \in Nat /\ acc[i - 1] \in Nat /\ acc[i] <= s
    BY <1>1, <1>2, <1>4
<1>6. Chosen(c, links, Len(links))
    BY CandidatesFacts
<1>7. C = {r \in 0..(g - 1) : y <= r * s /\ r * s < z}
  <2>1. ASSUME NEW r \in 0..(g - 1) PROVE weighted_pick(links, r) = c[i] <=> Falls(links, r, i)
    <3>1. PICK h \in 1..n :
            weighted_pick(links, r) = c[h] /\ \A j \in 1..n : h = j <=> Falls(links, r, j)
        BY <1>4, PickIs
    <3>2. i \in 1..n
        OBVIOUS
    <3>3. /\ \A j \in 1..n : c[j] \in 1..Len(links)
          /\ \A j, k \in 1..n : j < k => c[j] < c[k]
        BY <1>6 DEF Chosen
    <3>4. Len(links) \in Nat
        BY LenProperties
    <3> HIDE DEF c, n
    <3>5. c[h] = c[i] <=> h = i
      <4>1. h \in Nat /\ i \in Nat
          BY <1>1, <3>1, <3>2
      <4>3. c[h] \in 1..Len(links) /\ c[i] \in 1..Len(links)
          BY <3>1, <3>2, <3>3
      <4>4. c[h] \in Nat /\ c[i] \in Nat
          BY <3>4, <4>3
      <4>2. (h < i => c[h] < c[i]) /\ (i < h => c[i] < c[h])
          BY <3>1, <3>2, <3>3
      <4> QED
          BY <4>1, <4>2, <4>4
    <3> QED
        BY <3>1, <3>2, <3>5
  <2>2. \A r : Falls(links, r, i) <=> y <= r * s /\ r * s < z
      BY DEF Falls
  <2>3. C = {r \in 0..(g - 1) : weighted_pick(links, r) = c[i]}
      BY DEF PickedAt
  <2> HIDE DEF y, z, c, s, C
  <2> QED
      BY <2>1, <2>2, <2>3
<1> HIDE DEF g, acc, s, w
<1>8. y \in Nat /\ z \in Nat /\ y <= z /\ z <= g * s /\ z - y = w[i] * g
  <2>1. acc[i] * g <= s * g /\ s * g = g * s
      BY <1>3, <1>5, Times
  <2>2. y \in Nat /\ z \in Nat /\ w[i] * g \in Nat
      BY <1>1, <1>3, <1>5
  <2>3. z = y + w[i] * g
    <3> DEFINE a == acc[i - 1]
               d == w[i]
    <3>1. a \in Nat /\ d \in Nat /\ acc[i] = a + d
        BY <1>1, <1>5
    <3> HIDE DEF a, d
    <3>2. (a + d) * g = a * g + d * g
        BY <1>3, <3>1
    <3> QED
        BY <3>1, <3>2 DEF a, d
  <2> HIDE DEF y
  <2>4. y <= z /\ z - y = w[i] * g
    <3> DEFINE e == w[i] * g
    <3> HIDE DEF z, e
    <3>1. e \in Nat /\ z = y + e /\ y \in Nat
        BY <2>2, <2>3 DEF e
    <3>2. y <= z /\ z - y = e
        BY <3>1
    <3> QED
        BY <3>2 DEF e
  <2> QED
      BY <2>1, <2>2, <2>4
<1> HIDE DEF y, z, C
<1>9. /\ Cardinality(C) \in Nat
      /\ Cardinality(C) * s < (z - y) + s /\ z - y < Cardinality(C) * s + s
    BY <1>3, <1>5, <1>7, <1>8, AnchorsBetween
<1>10. Counts(links)[c[i]] = Cardinality(C)
  <2>1. c[i] \in 0..Len(links)
    <3>1. c[i] \in 1..Len(links) /\ Len(links) \in Nat
        BY <1>6, LenProperties DEF Chosen
    <3> QED
        BY <3>1
  <2> QED
      BY <2>1, CountsAre DEF C
<1> QED
    BY <1>8, <1>9, <1>10 DEF Share, g, s, w

\* And nobody else gets any.
LEMMA OtherShare ==
    ASSUME NEW links \in Seq(Links), NEW m \in 0..Len(links)
    PROVE  LET c == Candidates(links)
           IN  /\ Len(c) = 0 => Counts(links)[m] = IF m = 0 THEN WEIGHT_GRID ELSE 0
               /\ Len(c) > 0 /\ (\A j \in 1..Len(c) : c[j] # m) => Counts(links)[m] = 0
<1> DEFINE c == Candidates(links)
           g == WEIGHT_GRID
           C == PickedAt(links, m)
<1>1. Counts(links)[m] = Cardinality(C)
    BY CountsAre
<1>2. g \in Nat \ {0}
    BY GridAssumption
<1>3. C = {r \in 0..(g - 1) : weighted_pick(links, r) = m}
    BY DEF PickedAt
<1>4. CASE Len(c) = 0
  <2>1. \A r : weighted_pick(links, r) = 0
      BY <1>4 DEF weighted_pick
  <2>2. C = IF m = 0 THEN 0..(g - 1) ELSE {}
      BY <1>3, <2>1
  <2>3. Cardinality(0..(g - 1)) = g
    <3> DEFINE q == Cardinality(0..(g - 1))
    <3>1. 0 \in Int /\ g - 1 \in Int
        BY <1>2
    <3>2. q = IF 0 > g - 1 THEN 0 ELSE (g - 1) - 0 + 1
        BY <3>1, FS_Interval
    <3> HIDE DEF q
    <3>3. q = g
        BY <1>2, <3>2
    <3> QED
        BY <3>3 DEF q
  <2>4. Cardinality(C) = IF m = 0 THEN g ELSE 0
      BY <2>2, <2>3, FS_EmptySet, Zenon
  <2> QED
      BY <1>1, <1>4, <2>4
<1>5. CASE Len(c) > 0 /\ \A j \in 1..Len(c) : c[j] # m
  <2>1. ASSUME NEW r \in 0..(g - 1) PROVE weighted_pick(links, r) # m
    <3>1. Len(Candidates(links)) > 0 /\ r \in 0..(WEIGHT_GRID - 1)
        BY <1>5
    <3>2. PICK h \in 1..Len(c) :
              /\ weighted_pick(links, r) = c[h]
              /\ \A i \in 1..Len(c) : h = i <=> Falls(links, r, i)
        BY <3>1, PickIs
    <3> QED
        BY <1>5, <3>2
  <2>2. C = {}
      BY <1>3, <2>1
  <2>3. Cardinality(C) = 0
      BY <2>2, FS_EmptySet, Zenon
  <2>4. Len(c) # 0
      BY <1>5
  <2> QED
      BY <1>1, <1>5, <2>3, <2>4
<1> QED
    BY <1>4, <1>5
\* Two shares are in the proportion of the weights, to less than one of each.
LEMMA CrossBound ==
    ASSUME NEW a, NEW b, NEW u \in Nat, NEW v \in Nat, NEW s \in Nat \ {0},
           NEW x \in Nat \ {0}, NEW y \in Nat \ {0}, u * y = v * x,
           Share(a, u, s), Share(b, v, s)
    PROVE  a * y - b * x < x + y
<1> DEFINE g == WEIGHT_GRID
<1>1. a \in Nat /\ b \in Nat /\ a * s < u * g + s /\ v * g < b * s + s
    BY DEF Share
<1>2. g \in Nat
    BY GridAssumption
<1> HIDE DEF g
<1>3. a * s \in Nat /\ u * g \in Nat /\ v * g \in Nat /\ b * s \in Nat
    BY <1>1, <1>2
<1>4. (a * s) * y < (u * g + s) * y
  <2>1. u * g + s \in Nat
      BY <1>3
  <2> QED
      BY <1>1, <1>3, <2>1, Times
<1>5. (v * g) * x < (b * s + s) * x
  <2>1. b * s + s \in Nat
      BY <1>3
  <2> QED
      BY <1>1, <1>3, <2>1, Times
<1>6. (u * g) * y = (v * g) * x
  <2>1. (u * g) * y = (u * y) * g
      BY <1>2
  <2>2. (v * g) * x = (v * x) * g
      BY <1>2
  <2> QED
      BY <2>1, <2>2
<1>7. (a * s) * y = (a * y) * s
    BY <1>1
<1>8. (u * g + s) * y = (u * g) * y + s * y
    BY <1>3
<1>9. (b * s + s) * x = (b * s) * x + s * x
    BY <1>3
<1>10. (b * s) * x = (b * x) * s
    BY <1>1
<1>11. (b * x + x + y) * s = (b * x) * s + x * s + y * s /\ x * s = s * x /\ y * s = s * y
  <2>1. b * x \in Nat
      BY <1>1
  <2> DEFINE p == b * x
  <2> HIDE DEF p
  <2>2. p \in Nat
      BY <2>1 DEF p
  <2>3. (p + x + y) * s = p * s + x * s + y * s /\ x * s = s * x /\ y * s = s * y
      BY <2>2
  <2> QED
      BY <2>3 DEF p
<1> DEFINE A == a * y
           B == b * x
           As == (a * y) * s
           Bs == (b * x) * s
           ug == (u * g) * y
           vg == (v * g) * x
           sx == s * x
           sy == s * y
<1>12. A \in Nat /\ B \in Nat
    BY <1>1
<1>13. As \in Nat /\ Bs \in Nat /\ ug \in Nat /\ vg \in Nat /\ sx \in Nat /\ sy \in Nat
    BY <1>3, <1>12
<1>14. As < ug + sy
    BY <1>4, <1>7, <1>8
<1>15. vg < Bs + sx /\ ug = vg
    BY <1>5, <1>6, <1>9, <1>10
<1>16. (B + x + y) * s = Bs + sx + sy
    BY <1>11
<1> HIDE DEF As, Bs, ug, vg, sx, sy
<1>17. As < (B + x + y) * s
    BY <1>13, <1>14, <1>15, <1>16
<1>18. A < B + x + y
  <2>1. As = A * s
      BY DEF As
  <2> HIDE DEF A, B
  <2>2. B + x + y \in Nat
      BY <1>12
  <2> QED
      BY <1>12, <1>17, <2>1, <2>2, Times
<1> HIDE DEF A, B
<1>19. A - B < x + y
    BY <1>12, <1>18
<1> QED
    BY <1>19 DEF A, B

\* What a candidate is due, by the rates: its weight is in proportion to it.
DueOf(raw, r) == IF r > 0 THEN r * Len(raw) ELSE Total(raw)
FairDue(raw, i) == IF Total(raw) = 0 THEN 1 ELSE DueOf(raw, raw[i])

LEMMA DueWeight ==
    ASSUME NEW raw \in Seq(Nat), NEW i \in 1..Len(raw),
           FLOOR * DueOf(raw, raw[i]) >= Len(raw) * Total(raw)
    PROVE  /\ FairDue(raw, i) \in Nat \ {0}
           /\ Weights(raw)[i] = (IF Total(raw) = 0 THEN 1 ELSE FLOOR) * FairDue(raw, i)
<1> DEFINE n == Len(raw)
           t == Total(raw)
           r == raw[i]
           w == Weights(raw)[i]
           V == IF r > 0 THEN FLOOR * n * r ELSE FLOOR * t
           d == DueOf(raw, r)
<1>1. n \in Nat /\ r \in Nat /\ n > 0 /\ FLOOR \in Nat
    BY LenProperties, ElementOfSeq, GridAssumption
<1>2. t \in Nat /\ w = IF t = 0 THEN 1 ELSE IF V >= n * t THEN V ELSE n * t
    BY WeightsFacts, Zenon
<1>3. d = (IF r > 0 THEN r * n ELSE t) /\ FLOOR * d >= n * t
    BY DEF DueOf
<1>4. FairDue(raw, i) = IF t = 0 THEN 1 ELSE d
    BY DEF FairDue
<1> HIDE DEF n, t, r, w, d
<1>5. r > 0 => r * n > 0 /\ r * n \in Nat
    BY <1>1
<1>6. t # 0 => d \in Nat \ {0}
    BY <1>2, <1>3, <1>5
<1>7. V = FLOOR * d
  <2>1. CASE r > 0
    <3>1. FLOOR * n * r = FLOOR * (r * n)
        BY <1>1
    <3> QED
        BY <1>3, <2>1, <3>1
  <2>2. CASE ~(r > 0)
      BY <1>3, <2>2
  <2> QED
      BY <2>1, <2>2
<1> HIDE DEF V
<1>8. w = (IF t = 0 THEN 1 ELSE FLOOR) * (IF t = 0 THEN 1 ELSE d)
    BY <1>2, <1>3, <1>7
<1> QED
    BY <1>4, <1>6, <1>8 DEF t, w
\* Weights bounded one by one are bounded in sum.
LEMMA SumBound ==
    ASSUME NEW raw \in Seq(Nat), NEW w \in Seq(Nat), Len(w) = Len(raw),
           NEW k \in Nat, NEW e \in Nat,
           \A i \in 1..Len(raw) : w[i] <= k * raw[i] + e
    PROVE  Sums(w)[Len(raw)] <= k * Sums(raw)[Len(raw)] + Len(raw) * e
<1> DEFINE n == Len(raw)
           P == Sums(w)
           Q == Sums(raw)
           T == {i \in 0..n : P[i] <= k * Q[i] + i * e}
<1>1. n \in Nat /\ \A i \in 1..n : raw[i] \in Nat /\ w[i] \in Nat
    BY LenProperties, ElementOfSeq
<1>2. P \in [0..n -> Nat] /\ P[0] = 0 /\ \A i \in 1..n : P[i] = P[i - 1] + w[i]
    BY SumsFacts
<1>3. Q \in [0..n -> Nat] /\ Q[0] = 0 /\ \A i \in 1..n : Q[i] = Q[i - 1] + raw[i]
    BY SumsFacts
<1>4. \A i \in 1..n : w[i] <= k * raw[i] + e
    OBVIOUS
<1> HIDE DEF n, P, Q
<1>5. 0 \in T
  <2>1. 0 \in 0..n /\ k * 0 + 0 * e = 0
      BY <1>1
  <2> QED
      BY <1>2, <1>3, <2>1
<1>6. ASSUME NEW i \in 1..n, i - 1 \in T PROVE i \in T
  <2> DEFINE p == P[i - 1]
             q == Q[i - 1]
             x == w[i]
             r == raw[i]
             f == (i - 1) * e
             kq == k * q
             kr == k * r
  <2>1. i \in 0..n /\ i - 1 \in 0..n /\ i - 1 \in Nat
      BY <1>1
  <2>2. p \in Nat /\ q \in Nat /\ x \in Nat /\ r \in Nat /\ x <= kr + e /\ p <= kq + f
      BY <1>1, <1>2, <1>3, <1>4, <1>6, <2>1
  <2>3. P[i] = p + x /\ Q[i] = q + r
      BY <1>2, <1>3
  <2>4. i * e = f + e
      BY <1>1
  <2> HIDE DEF p, q, x, r
  <2>5. k * (q + r) = kq + kr
      BY <2>2
  <2>6. f \in Nat /\ kq \in Nat /\ kr \in Nat
      BY <2>1, <2>2
  <2> HIDE DEF f, kq, kr
  <2>7. p + x <= (kq + kr) + (f + e)
      BY <2>2, <2>6
  <2> QED
      BY <2>1, <2>3, <2>4, <2>5, <2>7
<1>7. \A i \in 0..n : i \in T
  <2> HIDE DEF T
  <2> QED
      BY <1>1, <1>5, <1>6, UpTo
<1>8. n \in T
    BY <1>1, <1>7
<1> QED
    BY <1>8 DEF n, P, Q

\* The sum of the weights in terms of any one of them.  The flooring and the raise
\* to the mean add at most one more total, or one floor for each link.
LEMMA FloorBound ==
    ASSUME NEW raw \in Seq(Nat), NEW i \in 1..Len(raw)
    PROVE  Sums(Weights(raw))[Len(raw)]
               <= (FLOOR + Largest(FLOOR, Len(raw))) * Weights(raw)[i]
<1> DEFINE n == Len(raw)
           t == Total(raw)
           w == Weights(raw)
           k == FLOOR * n
           m == Largest(FLOOR, n)
           c == FLOOR + m
           d == FLOOR * t
           e == m * t
           V(j) == IF raw[j] > 0 THEN k * raw[j] ELSE d
           S == Sums(w)[n]
<1>1. n \in Nat /\ n > 0 /\ FLOOR \in Nat /\ \A j \in 1..n : raw[j] \in Nat
    BY LenProperties, ElementOfSeq, GridAssumption
<1>2. t \in Nat /\ w \in Seq(Nat) /\ Len(w) = n
    BY WeightsFacts
<1>3. \A j \in 1..n : w[j] > 0 /\ w[j] = IF t = 0 THEN 1 ELSE IF V(j) >= n * t THEN V(j) ELSE n * t
    BY WeightsFacts, Zenon
<1>4. t = Sums(raw)[n]
    BY DEF Total
<1>5. /\ m \in Nat /\ n <= m /\ FLOOR <= m /\ c \in Nat /\ n <= c
      /\ i \in 1..n /\ k = FLOOR * n /\ d = FLOOR * t /\ e = m * t /\ c = FLOOR + m
  <2> HIDE DEF n
  <2>1. m \in Nat /\ n <= m /\ FLOOR <= m
      BY <1>1 DEF Largest
  <2> HIDE DEF m
  <2>2. c \in Nat /\ n <= c
      BY <1>1, <2>1
  <2> QED
      BY <2>1, <2>2 DEF n
<1> HIDE DEF m
<1>6. k \in Nat /\ d \in Nat /\ e \in Nat /\ n * t \in Nat /\ n * t <= e /\ d <= e
  <2> HIDE DEF n, t
  <2>1. n * t <= m * t
      BY <1>1, <1>2, <1>5, Times
  <2>2. FLOOR * t <= m * t
      BY <1>1, <1>2, <1>5, Times
  <2> QED
      BY <1>1, <1>2, <1>5, <2>1, <2>2
<1> HIDE DEF c
<1>7. w[i] \in Nat
    BY <1>2, <1>5, ElementOfSeq
<1>8. CASE t = 0
  <2>1. \A j \in 1..n : w[j] = 1
      BY <1>3, <1>8
  <2>2. \A j \in 1..n : w[j] <= 0 * raw[j] + 1
    <3>1. \A j \in 1..n : 0 * raw[j] = 0
        BY <1>1
    <3> QED
        BY <2>1, <3>1
  <2>3. S <= 0 * t + n * 1
    <3>1. 0 \in Nat /\ 1 \in Nat
        OBVIOUS
    <3> HIDE DEF w, S
    <3>2. Sums(w)[Len(raw)] <= 0 * Sums(raw)[Len(raw)] + Len(raw) * 1
        BY <1>2, <2>2, <3>1, SumBound
    <3> QED
        BY <1>4, <3>2 DEF S
  <2>4. w[i] = 1
      BY <1>5, <2>1
  <2>5. S \in Nat
    <3>1. Sums(w) \in [0..n -> Nat] /\ n \in 0..n
        BY <1>1, <1>2, SumsFacts
    <3> QED
        BY <3>1
  <2> HIDE DEF n, t, w, S
  <2>6. S <= n
      BY <1>1, <1>2, <2>3, <2>5
  <2>7. S <= c * w[i]
    <3>1. c * 1 = c
        BY <1>5
    <3> QED
        BY <1>1, <1>5, <2>4, <2>5, <2>6, <3>1
  <2> QED
      BY <2>7 DEF S, n, w, c, m
<1>9. CASE t # 0
  <2>1. ASSUME NEW j \in 1..n PROVE w[j] <= k * raw[j] + e
    <3> DEFINE r == raw[j]
               x == w[j]
               p == n * t
               kr == k * r
    <3>1. x = IF (IF r > 0 THEN kr ELSE d) >= p THEN (IF r > 0 THEN kr ELSE d) ELSE p
        BY <1>3, <1>9
    <3>2. p \in Nat /\ p <= e /\ e \in Nat /\ d \in Nat /\ d <= e
        BY <1>6
    <3>3. kr \in Nat
      <4>1. r \in Nat /\ k \in Nat
          BY <1>1, <1>6
      <4> HIDE DEF r, k
      <4> QED
          BY <4>1
    <3> HIDE DEF r, x, p, kr, d, e
    <3>4. x <= kr + e
        BY <3>1, <3>2, <3>3
    <3> QED
        BY <3>4 DEF x, kr, r
  <2>2. S <= k * t + n * e
    <3> HIDE DEF w, S, k, e
    <3>1. Sums(w)[Len(raw)] <= k * Sums(raw)[Len(raw)] + Len(raw) * e
        BY <1>2, <1>6, <2>1, SumBound
    <3> QED
        BY <1>4, <3>1 DEF S
  <2>3. n * t <= w[i]
    <3> DEFINE p == n * t
               v == V(i)
               x == w[i]
    <3>1. x = (IF v >= p THEN v ELSE p) /\ p \in Nat /\ x \in Nat
        BY <1>3, <1>5, <1>6, <1>7, <1>9
    <3> HIDE DEF v, p, x
    <3>2. p <= x
        BY <3>1
    <3> QED
        BY <3>2 DEF p, x
  <2>4. k * t + n * e = c * (n * t)
    <3> HIDE DEF n, t
    <3>1. (FLOOR * n) * t = FLOOR * (n * t)
        BY <1>1, <1>2
    <3>2. n * (m * t) = m * (n * t)
        BY <1>1, <1>2, <1>5
    <3>3. (FLOOR + m) * (n * t) = FLOOR * (n * t) + m * (n * t)
        BY <1>1, <1>2, <1>5, <1>6
    <3> QED
        BY <1>5, <3>1, <3>2, <3>3
  <2>5. c * (n * t) <= c * w[i]
    <3> DEFINE p == n * t
               x == w[i]
    <3>1. p \in Nat /\ x \in Nat /\ p <= x /\ c \in Nat
        BY <1>5, <1>6, <1>7, <2>3
    <3> HIDE DEF p, x
    <3>2. p * c <= x * c /\ p * c = c * p /\ x * c = c * x
        BY <3>1, Times
    <3>3. c * p <= c * x
        BY <3>2
    <3> QED
        BY <3>3 DEF p, x
  <2>6. S \in Nat
    <3>1. Sums(w) \in [0..n -> Nat] /\ n \in 0..n
        BY <1>1, <1>2, SumsFacts
    <3> QED
        BY <3>1
  <2> DEFINE a == c * (n * t)
             b == c * w[i]
  <2>7. a \in Nat /\ b \in Nat /\ S <= a /\ a <= b
    <3>1. S <= a /\ a <= b
        BY <2>2, <2>4, <2>5
    <3> DEFINE p == n * t
               x == w[i]
    <3>2. c \in Nat /\ p \in Nat /\ x \in Nat
        BY <1>5, <1>6, <1>7
    <3> HIDE DEF p, x
    <3>3. c * p \in Nat /\ c * x \in Nat
        BY <3>2
    <3> QED
        BY <3>1, <3>3 DEF p, x
  <2> HIDE DEF a, b, S
  <2>8. S <= b
      BY <2>6, <2>7
  <2> QED
      BY <2>8 DEF b, S, c, m
<1> QED
    BY <1>8, <1>9

\* The question's pool, in the terms above.
LEMMA PickQuestion ==
    ASSUME Answers, Answered("pick")
    PROVE  /\ question.links \in Seq(Links) /\ Len(question.links) \in 1..MaxLinks
           /\ answer = Counts(question.links) /\ Raw = RawOf(question.links)
<1>1. question.links \in Pools /\ answer = Counts(question.links)
    BY DEF Answers, Answered
<1>2. Raw = RawOf(question.links)
    BY Zenon DEF Raw, RawOf
<1> QED
    BY <1>1, <1>2, PoolsAreLinks

\* ProportionalShare of the answers.
LEMMA AnswersShares == Answers => ProportionalShare
<1> SUFFICES ASSUME Answers, Answered("pick") PROVE ProportionalShare
    BY DEF ProportionalShare
<1> DEFINE links == question.links
           c == Candidates(links)
           n == Len(c)
           raw == RawOf(links)
           t == Total(raw)
           s == Anchors(links)
           w == Weights(raw)
<1>1. links \in Seq(Links) /\ answer = Counts(links) /\ Raw = raw
    BY PickQuestion
<1>2. \A r : Due(r) = DueOf(raw, r)
    BY <1>1, Zenon DEF Due, DueOf
<1> HIDE DEF links
<1>3. raw \in Seq(Nat) /\ Len(raw) = n
    BY <1>1, RawFacts
<1>4. ASSUME NEW i \in 1..n, NEW j \in 1..n,
             FLOOR * DueOf(raw, raw[i]) >= n * t, FLOOR * DueOf(raw, raw[j]) >= n * t
      PROVE  answer[c[i]] * FairDue(raw, j) - answer[c[j]] * FairDue(raw, i)
                < FairDue(raw, i) + FairDue(raw, j)
  <2> DEFINE a == answer[c[i]]
             b == answer[c[j]]
             x == FairDue(raw, i)
             y == FairDue(raw, j)
             u == w[i]
             v == w[j]
             f == IF t = 0 THEN 1 ELSE FLOOR
  <2>1. x \in Nat \ {0} /\ u = f * x
      BY <1>3, <1>4, DueWeight
  <2>2. y \in Nat \ {0} /\ v = f * y
      BY <1>3, <1>4, DueWeight
  <2>3. Share(a, u, s)
      BY <1>1, CandidateShare
  <2>4. Share(b, v, s)
      BY <1>1, CandidateShare
  <2>5. s \in Nat \ {0} /\ u \in Nat /\ v \in Nat
    <3>1. n \in Nat /\ n > 0
        BY <1>3, LenProperties
    <3> QED
        BY <1>1, <3>1, AccFacts
  <2>6. f \in Nat
      BY GridAssumption
  <2> HIDE DEF a, b, x, y, u, v, f, s
  <2>7. u * y = v * x
    <3>1. (f * x) * y = (f * y) * x
        BY <2>1, <2>2, <2>6
    <3> QED
        BY <2>1, <2>2, <3>1
  <2>8. a * y - b * x < x + y
      BY <2>1, <2>2, <2>3, <2>4, <2>5, <2>7, CrossBound
  <2> QED
      BY <2>8 DEF a, b, x, y
<1>5. \A i \in 1..n : Due(Raw[i]) = DueOf(raw, raw[i])
      /\ (IF Total(Raw) = 0 THEN 1 ELSE Due(Raw[i])) = FairDue(raw, i)
    BY <1>1, <1>2, Zenon DEF FairDue
<1>6. ASSUME NEW i \in 1..n, NEW j \in 1..n,
             FLOOR * Due(Raw[i]) >= n * Total(Raw), FLOOR * Due(Raw[j]) >= n * Total(Raw)
      PROVE  LET x == IF Total(Raw) = 0 THEN 1 ELSE Due(Raw[i])
                 y == IF Total(Raw) = 0 THEN 1 ELSE Due(Raw[j])
                 diff == answer[c[i]] * y - answer[c[j]] * x
             IN  diff < x + y /\ -diff < x + y
  <2> DEFINE a == answer[c[i]]
             b == answer[c[j]]
             x == FairDue(raw, i)
             y == FairDue(raw, j)
  <2>1. FLOOR * DueOf(raw, raw[i]) >= n * t /\ FLOOR * DueOf(raw, raw[j]) >= n * t
      BY <1>1, <1>5, <1>6
  <2>2. a * y - b * x < x + y
      BY <1>4, <2>1
  <2>3. b * x - a * y < y + x
      BY <1>4, <2>1
  <2>4. a * y \in Nat /\ b * x \in Nat /\ x \in Nat /\ y \in Nat
    <3>1. x \in Nat \ {0} /\ y \in Nat \ {0}
        BY <1>3, <2>1, DueWeight
    <3>2. Share(a, w[i], s) /\ Share(b, w[j], s)
        BY <1>1, CandidateShare
    <3>3. a \in Nat /\ b \in Nat
        BY <3>2 DEF Share
    <3> HIDE DEF a, b, x, y
    <3> QED
        BY <3>1, <3>3
  <2> DEFINE p == a * y
             q == b * x
  <2> HIDE DEF p, q, x, y
  <2>5. p - q < x + y /\ -(p - q) < x + y
      BY <2>2, <2>3, <2>4 DEF p, q
  <2>6. /\ (IF Total(Raw) = 0 THEN 1 ELSE Due(Raw[i])) = x
        /\ (IF Total(Raw) = 0 THEN 1 ELSE Due(Raw[j])) = y
      BY <1>5 DEF x, y
  <2>7. a * y - b * x < x + y /\ -(a * y - b * x) < x + y
      BY <2>5 DEF p, q
  <2> HIDE DEF a, b
  <2>8. /\ a * (IF Total(Raw) = 0 THEN 1 ELSE Due(Raw[j]))
            - b * (IF Total(Raw) = 0 THEN 1 ELSE Due(Raw[i])) = a * y - b * x
        /\ (IF Total(Raw) = 0 THEN 1 ELSE Due(Raw[i]))
            + (IF Total(Raw) = 0 THEN 1 ELSE Due(Raw[j])) = x + y
      BY ONLY <2>6
  <2> QED
      BY <2>7, <2>8 DEF a, b
<1> QED
    BY <1>6, Zenon DEF ProportionalShare, links

\* tunnel.rs:287: over a cycle of the cursor every link above the floor is picked
\* in proportion to its rate, to less than one pick, for pools of any size, any
\* rates and any grid.
THEOREM SharesAreProportional == Questions => []ProportionalShare
BY AnswersRight, AnswersShares, PTL

\* NeverStarved of the answers.
LEMMA AnswersFloor == Answers => NeverStarved
<1> SUFFICES ASSUME Answers, Answered("pick") PROVE NeverStarved
    BY DEF NeverStarved
<1> DEFINE links == question.links
           c == Candidates(links)
           n == Len(c)
           raw == RawOf(links)
           s == Anchors(links)
           w == Weights(raw)
           g == WEIGHT_GRID
           f == FLOOR + Largest(FLOOR, n)
<1>1. links \in Seq(Links) /\ answer = Counts(links) /\ Raw = raw
    BY PickQuestion
<1> HIDE DEF links
<1>2. raw \in Seq(Nat) /\ Len(raw) = n
    BY <1>1, RawFacts
<1>3. Chosen(c, links, Len(links))
    BY <1>1, CandidatesFacts
<1>4. /\ c \in Seq(Nat) /\ n \in Nat /\ n <= Len(links)
      /\ \A j \in 1..n : c[j] \in 1..Len(links)
    BY <1>3, LenProperties DEF Chosen
<1>5. ToSet(c) = {c[j] : j \in 1..n}
  <2>1. DOMAIN c = 1..n
      BY <1>4, LenProperties
  <2> QED
      BY <2>1 DEF ToSet
<1>6. Raw = <<>> <=> n = 0
    BY <1>1, <1>2, EmptySeq
<1>7. FLOOR \in Nat \ {0} /\ g \in Nat \ {0}
    BY GridAssumption
<1>8. f \in Nat
    BY <1>4, <1>7 DEF Largest
<1>9. ASSUME NEW j \in 1..n PROVE f * (answer[c[j]] + 1) > g
  <2> DEFINE a == answer[c[j]]
             u == w[j]
  <2>1. Share(a, u, s)
      BY <1>1, CandidateShare
  <2>2. s \in Nat \ {0} /\ u \in Nat /\ u > 0
    <3>1. n > 0
        BY <1>4
    <3> QED
        BY <1>1, <3>1, AccFacts
  <2>3. s <= f * u
    <3>1. Sums(w)[Len(raw)] <= f * w[j]
        BY <1>2, FloorBound
    <3>2. s = Sums(w)[Len(raw)]
        BY <1>2 DEF Anchors, Acc
    <3> QED
        BY <3>1, <3>2
  <2>4. f \in Nat
      BY <1>8
  <2> HIDE DEF a, u, f, s
  <2>5. a \in Nat /\ u * g < a * s + s
      BY <2>1 DEF Share
  <2> HIDE DEF g
  <2>6. a * s + s = s * (a + 1)
      BY <2>2, <2>5
  <2>7. s * (a + 1) <= (f * u) * (a + 1)
    <3>1. f * u \in Nat /\ a + 1 \in Nat
        BY <2>2, <2>4, <2>5
    <3> QED
        BY <2>2, <2>3, <3>1, Times
  <2>8. (f * u) * (a + 1) = (f * (a + 1)) * u
      BY <2>2, <2>4, <2>5
  <2>9. u * g = g * u
      BY <1>7, <2>2
  <2>10. g * u < (f * (a + 1)) * u
    <3> DEFINE p == g * u
               q == s * (a + 1)
               r == (f * (a + 1)) * u
    <3>1. p < q /\ q <= r
        BY <2>5, <2>6, <2>7, <2>8, <2>9
    <3>2. p \in Nat /\ q \in Nat
        BY <1>7, <2>2, <2>5
    <3>3. r \in Nat
      <4>1. f * (a + 1) \in Nat
          BY <2>4, <2>5
      <4> QED
          BY <2>2, <4>1
    <3> HIDE DEF p, q, r
    <3>4. p < r
        BY <3>1, <3>2, <3>3
    <3> QED
        BY <3>4 DEF p, r
  <2>11. g < f * (a + 1)
    <3>1. f * (a + 1) \in Nat
        BY <2>4, <2>5
    <3> QED
        BY <1>7, <2>2, <2>10, <3>1, Times
  <2>12. f * (a + 1) > g
    <3>1. f * (a + 1) \in Nat
        BY <2>4, <2>5
    <3> QED
        BY <1>7, <2>11, <3>1
  <2> QED
      BY <2>12 DEF a, f
<1>10. ASSUME NEW i \in 0..Len(links)
       PROVE  IF i = 0 THEN answer[0] = (IF Raw = <<>> THEN g ELSE 0)
              ELSE IF i \in ToSet(c) THEN f * (answer[i] + 1) > g
              ELSE answer[i] = 0
  <2>1. n = 0 => answer[i] = IF i = 0 THEN g ELSE 0
      BY <1>1, OtherShare
  <2>2. n > 0 /\ (\A j \in 1..n : c[j] # i) => answer[i] = 0
      BY <1>1, OtherShare
  <2>3. i = 0 => \A j \in 1..n : c[j] # i
      BY <1>1, <1>4
  <2>4. n = 0 \/ n > 0
      BY <1>4
  <2>5. n = 0 => 1..n = {}
      OBVIOUS
  <2>6. CASE i = 0
      BY <1>6, <2>1, <2>2, <2>3, <2>4, <2>6
  <2>7. CASE i # 0 /\ i \in ToSet(c)
    <3>1. PICK j \in 1..n : c[j] = i
        BY <1>5, <2>7
    <3> HIDE DEF f
    <3> QED
        BY <1>9, <2>7, <3>1
  <2>8. CASE i # 0 /\ i \notin ToSet(c)
    <3>1. \A j \in 1..n : c[j] # i
        BY <1>5, <2>8
    <3>2. answer[i] = 0
        BY <2>1, <2>2, <2>4, <2>8, <3>1
    <3> QED
        BY <2>8, <3>2
  <2> QED
      BY <2>6, <2>7, <2>8
<1>11. Len(Raw) = n
    BY <1>1, <1>2
<1> QED
    BY <1>10, <1>11, Zenon DEF NeverStarved, links

\* tunnel.rs:32: in every cycle each live link gets at least half the floor's
\* share (with more links than shares of the floor, the share of one among FLOOR
\* more of them) however slow it was measured, nobody else gets any, and no anchor
\* is left over, for pools of any size, any rates and any grid.
THEOREM NobodyIsStarved == Questions => []NeverStarved
BY AnswersRight, AnswersFloor, PTL

==============================================================================
