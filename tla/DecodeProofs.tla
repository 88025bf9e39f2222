---------------------------- MODULE DecodeProofs ----------------------------
(***************************************************************************)
(* Proofs about Decode, for every set of messages in the format: the       *)
(* conversions give back what was sent, and the fields of a layout stand   *)
(* at the columns of its type, so that the cursor goes from column to      *)
(* column and then from element to element.  The inductive invariant,      *)
(* DecodeInv, says which of them the record holds on the way.              *)
(***************************************************************************)
EXTENDS Decode, WellFoundedInduction, TLAPS

\* Induction, from the library's fact that < is well-founded on the naturals.
\* A set of natural numbers that is not empty has a least one.
LEMMA LeastNatural ==
  ASSUME NEW T, T \subseteq Nat, T # {}
  PROVE  \E n \in T : \A m \in T : n <= m
  <1> DEFINE less == OpToRel(<, Nat)
  <1>1. IsWellFoundedOn(less, Nat)
    BY NatLessThanWellFounded, Zenon
  <1>2. \A m, n \in Nat : m < n => <<m, n>> \in less
    BY Zenon DEF OpToRel
  <1> HIDE DEF less
  <1>3. PICK n \in T : \A m \in T : ~ (<<m, n>> \in less)
    BY <1>1, WFMin
  <1>4. ASSUME NEW m \in T PROVE n <= m
    <2>1. m \in Nat /\ n \in Nat /\ ~(m < n)
      BY <1>2, <1>3
    <2> QED BY <2>1
  <1> QED BY <1>4

\* What holds of 0 and of each successor holds of every number up to a bound.
LEMMA UpTo ==
  ASSUME NEW N \in Nat, NEW S, 0 \in S, \A n \in 0 .. N : n \in S /\ n + 1 \in 0 .. N => n + 1 \in S
  PROVE  N \in S
  <1> SUFFICES ASSUME N \notin S PROVE FALSE
    OBVIOUS
  <1> DEFINE T == {n \in Nat : n <= N /\ n \notin S}
  <1>1. PICK n \in T : \A m \in T : n <= m
    <2>1. T \subseteq Nat /\ N \in T
      OBVIOUS
    <2> QED BY <2>1, LeastNatural
  <1>2. n # 0 /\ n - 1 \in 0 .. N /\ n - 1 + 1 = n /\ n \in 0 .. N
    OBVIOUS
  <1>3. n - 1 \in S
    BY <1>1, <1>2
  <1> QED BY <1>2, <1>3

\* Values that are each made from the one before: there is a function of them.
Steps(n, D) == [(1 .. n) \X D -> D]
Runs(n, D, base, step) ==
    {g \in [0 .. n -> D] : g[0] = base /\ \A i \in 1 .. n : g[i] = step[<<i, g[i - 1]>>]}

LEMMA Iteration ==
  ASSUME NEW n \in Nat, NEW D, NEW base \in D, NEW step \in Steps(n, D)
  PROVE  Runs(n, D, base, step) # {}
  <1> DEFINE Right(g, k) == \A i \in 0 .. n : i <= k =>
                              g[i] \in D /\ g[i] = IF i = 0 THEN base ELSE step[<<i, g[i - 1]>>]
             S == {k \in Nat : \E g : Right(g, k)}
             next(g) == [i \in 0 .. n |-> IF i = 0 THEN base ELSE step[<<i, g[i - 1]>>]]
  <1> USE DEF Steps
  <1>1. 0 \in S
    <2>1. Right([i \in 0 .. n |-> base], 0)
      OBVIOUS
    <2> QED BY <2>1
  <1>2. ASSUME NEW k \in 0 .. n, k \in S, k + 1 \in 0 .. n PROVE k + 1 \in S
    <2>1. PICK g : Right(g, k)
      BY <1>2
    <2>2. ASSUME NEW i \in 0 .. n, i <= k PROVE next(g)[i] = g[i]
      BY <2>1, <2>2
    <2>3. ASSUME NEW i \in 0 .. n, i <= k + 1
          PROVE  /\ next(g)[i] \in D
                 /\ next(g)[i] = IF i = 0 THEN base ELSE step[<<i, next(g)[i - 1]>>]
      <3>1. CASE i = 0
        BY <3>1
      <3>2. CASE i # 0
        <4>1. i - 1 \in 0 .. n /\ i - 1 <= k /\ i \in 1 .. n
          BY <2>3, <3>2
        <4>2. g[i - 1] \in D
          BY <2>1, <4>1
        <4>3. next(g)[i - 1] = g[i - 1]
          BY <2>2, <4>1
        <4>4. next(g)[i] = step[<<i, g[i - 1]>>]
          BY <3>2
        <4>5. step[<<i, g[i - 1]>>] \in D
          BY <4>1, <4>2
        <4> QED BY <3>2, <4>3, <4>4, <4>5
      <3> QED BY <3>1, <3>2
    <2> HIDE DEF next
    <2>4. Right(next(g), k + 1)
      BY <2>3
    <2> QED BY <2>4
  <1>3. n \in S
    <2> HIDE DEF S
    <2> QED BY <1>1, <1>2, UpTo
  <1>4. PICK g : \A i \in 0 .. n : /\ g[i] \in D
                                   /\ g[i] = IF i = 0 THEN base ELSE step[<<i, g[i - 1]>>]
    <2>1. \A i \in 0 .. n : i <= n
      OBVIOUS
    <2>2. PICK g : Right(g, n)
      BY <1>3
    <2> QED BY <2>1, <2>2
  <1> DEFINE h == [i \in 0 .. n |-> g[i]]
  <1>5. h \in [0 .. n -> D]
    BY <1>4
  <1>6. ASSUME NEW i \in 0 .. n PROVE h[i] = IF i = 0 THEN base ELSE step[<<i, h[i - 1]>>]
    <2>1. CASE i = 0
      BY <1>4, <2>1
    <2>2. CASE i # 0
      <3>1. i - 1 \in 0 .. n
        BY <2>2
      <3>2. h[i - 1] = g[i - 1] /\ h[i] = g[i]
        BY <3>1
      <3> HIDE DEF h
      <3>3. g[i] = step[<<i, g[i - 1]>>]
        BY <1>4, <2>2
      <3> QED BY <2>2, <3>2, <3>3
    <2> QED BY <2>1, <2>2
  <1> HIDE DEF h
  <1>7. h[0] = base
    <2>1. 0 \in 0 .. n
      OBVIOUS
    <2> QED BY <1>6, <2>1
  <1>8. ASSUME NEW i \in 1 .. n PROVE h[i] = step[<<i, h[i - 1]>>]
    <2>1. i \in 0 .. n /\ i # 0
      OBVIOUS
    <2> QED BY <1>6, <2>1
  <1> QED BY <1>5, <1>7, <1>8 DEF Runs

-----------------------------------------------------------------------------
\* The conversions.

\* The word after each byte is a number made from the one before.
LEMMA WordFacts ==
  ASSUME NEW b \in Seq(Byte)
  PROVE  /\ Word(b) \in [0 .. Len(b) -> Int]
         /\ Word(b)[0] = IF b[1] >= 128 THEN -1 ELSE 0
         /\ \A i \in 1 .. Len(b) : Word(b)[i] = 256 * Word(b)[i - 1] + b[i]
  <1> DEFINE n == Len(b)
             sign == IF b[1] >= 128 THEN -1 ELSE 0
             step == [p \in (1 .. n) \X Int |-> 256 * p[2] + b[p[1]]]
  <1>1. n \in Nat /\ sign \in Int /\ \A i \in 1 .. n : b[i] \in Int
    <2>1. \A i \in 1 .. n : b[i] \in Byte
      OBVIOUS
    <2>2. n \in Nat /\ sign \in Int
      OBVIOUS
    <2>3. Byte \subseteq Int
      BY DEF Byte
    <2> QED BY <2>1, <2>2, <2>3
  <1>2. step \in [(1 .. n) \X Int -> Int]
    <2> HIDE DEF n
    <2>1. ASSUME NEW p \in (1 .. n) \X Int PROVE 256 * p[2] + b[p[1]] \in Int
      BY <1>1
    <2> QED BY <2>1
  <1>3. \A i \in 1 .. n, x \in Int : step[<<i, x>>] = 256 * x + b[i]
    OBVIOUS
  <1> HIDE DEF n, sign, step
  <1>4. PICK g \in [0 .. n -> Int] : g[0] = sign /\ \A i \in 1 .. n : g[i] = step[<<i, g[i - 1]>>]
    <2>1. n \in Nat /\ sign \in Int /\ step \in Steps(n, Int)
      BY <1>1, <1>2 DEF Steps
    <2>2. Runs(n, Int, sign, step) # {}
      BY <2>1, Iteration, Zenon
    <2> QED BY <2>2 DEF Runs
  <1>5. g = [i \in 0 .. n |-> IF i = 0 THEN sign ELSE 256 * g[i - 1] + b[i]]
    <2>1. ASSUME NEW i \in 0 .. n, i # 0 PROVE g[i] = 256 * g[i - 1] + b[i]
      <3>1. i \in 1 .. n /\ g[i - 1] \in Int
        BY <1>1, <2>1
      <3> QED BY <1>3, <1>4, <3>1
    <2> QED BY <1>4, <2>1
  <1> DEFINE w == CHOOSE f : f = [i \in 0 .. n |-> IF i = 0 THEN sign ELSE 256 * f[i - 1] + b[i]]
  <1>6. Word(b) = w
    BY DEF Word, n, sign
  <1>7. w = [i \in 0 .. n |-> IF i = 0 THEN sign ELSE 256 * w[i - 1] + b[i]]
    BY <1>5, ZenonT(40)
  <1> HIDE DEF w
  <1>8. w[0] = sign /\ \A i \in 1 .. n : w[i] = 256 * w[i - 1] + b[i]
    BY <1>1, <1>7
  <1>9. n \in {k \in Nat : \A i \in 0 .. n : i <= k => w[i] \in Int}
    <2> DEFINE S == {k \in Nat : \A i \in 0 .. n : i <= k => w[i] \in Int}
    <2>1. 0 \in S
      BY <1>1, <1>8
    <2>2. ASSUME NEW k \in 0 .. n, k \in S, k + 1 \in 0 .. n PROVE k + 1 \in S
      <3>1. w[k] \in Int /\ b[k + 1] \in Int /\ w[k + 1] = 256 * w[k] + b[k + 1]
        BY <1>1, <1>8, <2>2
      <3> QED BY <2>2, <3>1
    <2> HIDE DEF S
    <2>3. n \in S
      BY <1>1, <2>1, <2>2, UpTo
    <2> QED BY <2>3 DEF S
  <1>10. w \in [0 .. n -> Int]
    BY <1>1, <1>7, <1>9
  <1> QED BY <1>6, <1>8, <1>10 DEF n, sign

\* What is left of a number without its last bytes.
LEMMA ShiftedFacts ==
  ASSUME NEW v \in Int, NEW n \in Nat
  PROVE  /\ Shifted(v, n) \in [0 .. n -> Int]
         /\ Shifted(v, n)[0] = v
         /\ \A k \in 1 .. n : Shifted(v, n)[k] = Shifted(v, n)[k - 1] \div 256
  <1> DEFINE step == [p \in (1 .. n) \X Int |-> p[2] \div 256]
  <1>1. step \in Steps(n, Int) /\ \A k \in 1 .. n, x \in Int : step[<<k, x>>] = x \div 256
    BY DEF Steps
  <1> HIDE DEF step
  <1>2. PICK g \in [0 .. n -> Int] : g[0] = v /\ \A k \in 1 .. n : g[k] = step[<<k, g[k - 1]>>]
    <2>1. Runs(n, Int, v, step) # {}
      BY <1>1, Iteration, Zenon
    <2> QED BY <2>1 DEF Runs
  <1>3. g = [k \in 0 .. n |-> IF k = 0 THEN v ELSE g[k - 1] \div 256]
    <2>1. ASSUME NEW k \in 0 .. n, k # 0 PROVE g[k] = g[k - 1] \div 256
      <3>1. k \in 1 .. n /\ g[k - 1] \in Int
        BY <2>1
      <3> QED BY <1>1, <1>2, <3>1, ZenonT(40)
    <2> QED BY <1>2, <2>1
  <1> DEFINE w == CHOOSE f : f = [k \in 0 .. n |-> IF k = 0 THEN v ELSE f[k - 1] \div 256]
  <1>4. Shifted(v, n) = w
    BY DEF Shifted
  <1>5. w = [k \in 0 .. n |-> IF k = 0 THEN v ELSE w[k - 1] \div 256]
    BY <1>3, ZenonT(40)
  <1> HIDE DEF w
  <1>6. w[0] = v /\ \A k \in 1 .. n : w[k] = w[k - 1] \div 256
    BY <1>5
  <1> DEFINE S == {m \in Nat : \A k \in 0 .. n : k <= m => w[k] \in Int}
  <1>7. 0 \in S
    BY <1>6
  <1>8. ASSUME NEW m \in 0 .. n, m \in S, m + 1 \in 0 .. n PROVE m + 1 \in S
    <2>1. w[m] \in Int /\ w[m + 1] = w[m] \div 256
      BY <1>6, <1>8
    <2>2. w[m + 1] \in Int
      BY <2>1
    <2> QED BY <1>8, <2>2
  <1>9. n \in S
    <2> HIDE DEF S
    <2> QED BY <1>7, <1>8, UpTo
  <1>10. w \in [0 .. n -> Int]
    BY <1>5, <1>9
  <1> QED BY <1>4, <1>6, <1>10

LEMMA BigEndianFacts ==
  ASSUME NEW v \in Int, NEW n \in Nat
  PROVE  /\ BigEndian(v, n) \in Seq(Byte) /\ Len(BigEndian(v, n)) = n
         /\ \A i \in 1 .. n : BigEndian(v, n)[i] = Shifted(v, n)[n - i] % 256
  <1>1. ASSUME NEW i \in 1 .. n PROVE Shifted(v, n)[n - i] % 256 \in Byte
    <2>1. Shifted(v, n)[n - i] \in Int
      <3>1. n - i \in 0 .. n
        OBVIOUS
      <3> QED BY <3>1, ShiftedFacts
    <2> QED BY <2>1 DEF Byte
  <1>2. BigEndian(v, n) \in [1 .. n -> Byte]
    BY <1>1 DEF BigEndian
  <1> QED BY <1>2 DEF BigEndian

LEMMA ByteSign ==
  ASSUME NEW x \in -128 .. 127
  PROVE  x \div 256 = IF x % 256 >= 128 THEN -1 ELSE 0
  OBVIOUS

LEMMA ByteSplit ==
  ASSUME NEW x \in Int, NEW y \in 0 .. 255
  PROVE  (256 * x + y) \div 256 = x /\ (256 * x + y) % 256 = y
  OBVIOUS

LEMMA ByteJoin ==
  ASSUME NEW x \in Int
  PROVE  256 * (x \div 256) + (x % 256) = x
  OBVIOUS

\* A number comes back from its bytes when the sign of the first byte is its own.
LEMMA WordOfBytes ==
  ASSUME NEW v \in Int, NEW n \in Nat \ {0}, Fits(v, n)
  PROVE  Word(BigEndian(v, n))[n] = v
  <1> DEFINE b == BigEndian(v, n)
             left == Shifted(v, n)
             w == Word(b)
             S == {i \in Nat : i <= n => w[i] = left[n - i]}
  <1>1. n \in Nat
    OBVIOUS
  <1>2. /\ b \in Seq(Byte) /\ Len(b) = n /\ \A i \in 1 .. n : b[i] = left[n - i] % 256
    BY BigEndianFacts
  <1>3. /\ left \in [0 .. n -> Int] /\ left[0] = v
        /\ \A k \in 1 .. n : left[k] = left[k - 1] \div 256
    <2>1. left \in [0 .. n -> Int]
      BY <1>1, ShiftedFacts
    <2>2. left[0] = v
      BY <1>1, ShiftedFacts
    <2>3. \A k \in 1 .. n : left[k] = left[k - 1] \div 256
      BY <1>1, ShiftedFacts
    <2> QED BY <2>1, <2>2, <2>3
  <1>4. left[n - 1] \in -128 .. 127
    BY DEF Fits
  <1> HIDE DEF b, left
  <1>5. /\ w \in [0 .. n -> Int] /\ w[0] = IF b[1] >= 128 THEN -1 ELSE 0
        /\ \A i \in 1 .. n : w[i] = 256 * w[i - 1] + b[i]
    BY <1>2, WordFacts, ZenonT(40)
  <1> HIDE DEF w
  <1>6. 0 \in S
    <2>1. n \in 1 .. n /\ 1 \in 1 .. n
      OBVIOUS
    <2>2. left[n] = left[n - 1] \div 256 /\ b[1] = left[n - 1] % 256
      BY <1>2, <1>3, <2>1
    <2>3. w[0] = left[n]
      <3> DEFINE x == left[n - 1]
      <3>1. left[n] = x \div 256 /\ b[1] = x % 256 /\ x \in -128 .. 127
        BY <1>4, <2>2
      <3> HIDE DEF x
      <3>2. left[n] = IF b[1] >= 128 THEN -1 ELSE 0
        BY <3>1, ByteSign
      <3> QED BY <1>5, <3>2
    <2> QED BY <2>3
  <1>7. ASSUME NEW i \in 0 .. n, i \in S, i + 1 \in 0 .. n PROVE i + 1 \in S
    <2>1. w[i] = left[n - i] /\ n - i \in 1 .. n /\ n - (i + 1) = n - i - 1 /\ n - i - 1 \in 0 .. n
      BY <1>7
    <2>2. /\ left[n - i] = left[n - i - 1] \div 256 /\ b[i + 1] = left[n - i - 1] % 256
          /\ w[i + 1] = 256 * w[i] + b[i + 1]
      <3>1. i + 1 \in 1 .. n /\ n - (i + 1) = n - i - 1 /\ i + 1 - 1 = i
        BY <1>1, <1>7
      <3>2. left[n - i] = left[n - i - 1] \div 256
        BY <1>3, <2>1
      <3>3. b[i + 1] = left[n - i - 1] % 256
        BY <1>2, <3>1
      <3>4. w[i + 1] = 256 * w[i] + b[i + 1]
        BY <1>5, <3>1
      <3> QED BY <3>2, <3>3, <3>4
    <2>3. left[n - i - 1] \in Int
      BY <1>3, <2>1
    <2>4. w[i + 1] = left[n - i - 1]
      BY <2>1, <2>2, <2>3, ByteJoin
    <2> QED BY <2>1, <2>4
  <1>8. n \in S
    <2> HIDE DEF S
    <2> QED BY <1>6, <1>7, UpTo
  <1> QED BY <1>3, <1>8 DEF w, b

\* The bytes come back from the word they make.
LEMMA BytesOfWord ==
  ASSUME NEW b \in Seq(Byte), b # << >>
  PROVE  BigEndian(Word(b)[Len(b)], Len(b)) = b
  <1> DEFINE n == Len(b)
             w == Word(b)
             v == w[n]
             left == Shifted(v, n)
             S == {k \in Nat : k <= n => left[k] = w[n - k]}
  <1>1. n \in Nat /\ n # 0 /\ \A i \in 1 .. n : b[i] \in Byte
    OBVIOUS
  <1>2. w \in [0 .. n -> Int] /\ \A i \in 1 .. n : w[i] = 256 * w[i - 1] + b[i]
    BY WordFacts
  <1>3. v \in Int
    BY <1>1, <1>2
  <1> HIDE DEF n, w, v
  <1>4. /\ left \in [0 .. n -> Int] /\ left[0] = v
        /\ \A k \in 1 .. n : left[k] = left[k - 1] \div 256
    <2>1. n \in Nat
      BY <1>1
    <2>2. Shifted(v, n) \in [0 .. n -> Int]
      BY <1>3, <2>1, ShiftedFacts, Zenon
    <2>3. Shifted(v, n)[0] = v
      BY <1>3, <2>1, ShiftedFacts, Zenon
    <2>4. \A k \in 1 .. n : Shifted(v, n)[k] = Shifted(v, n)[k - 1] \div 256
      BY <1>3, <2>1, ShiftedFacts, SMT
    <2> QED BY <2>2, <2>3, <2>4 DEF left
  <1> HIDE DEF left
  <1>5. ASSUME NEW i \in 1 .. n PROVE w[i] \div 256 = w[i - 1] /\ w[i] % 256 = b[i]
    <2> DEFINE x == w[i - 1]
               y == b[i]
    <2>1. x \in Int /\ w[i] = 256 * x + y /\ y \in 0 .. 255
      BY <1>1, <1>2 DEF Byte
    <2> HIDE DEF x, y
    <2>2. (256 * x + y) \div 256 = x /\ (256 * x + y) % 256 = y
      BY <2>1, ByteSplit, ZenonT(40)
    <2> QED BY <2>1, <2>2 DEF x, y
  <1>6. 0 \in S
    BY <1>1, <1>4 DEF v
  <1>7. ASSUME NEW k \in 0 .. n, k \in S, k + 1 \in 0 .. n PROVE k + 1 \in S
    <2>1. left[k] = w[n - k] /\ n - k \in 1 .. n /\ n - (k + 1) = n - k - 1 /\ k + 1 \in 1 .. n
      BY <1>1, <1>7
    <2>2. left[k + 1] = w[n - k - 1]
      BY <1>4, <1>5, <2>1
    <2> QED BY <2>1, <2>2
  <1>8. ASSUME NEW k \in 0 .. n PROVE left[k] = w[n - k]
    <2> HIDE DEF S
    <2>1. k \in S
      BY <1>1, <1>6, <1>7, UpTo
    <2> QED BY <2>1 DEF S
  <1>9. BigEndian(v, n) \in Seq(Byte) /\ Len(BigEndian(v, n)) = n
        /\ \A i \in 1 .. n : BigEndian(v, n)[i] = left[n - i] % 256
    BY <1>1, <1>3, BigEndianFacts, ZenonT(40) DEF left
  <1>10. ASSUME NEW i \in 1 .. n PROVE BigEndian(v, n)[i] = b[i]
    <2>1. n - i \in 0 .. n /\ n - (n - i) = i
      BY <1>1
    <2>2. left[n - i] = w[i]
      BY <1>8, <2>1
    <2> QED BY <1>5, <1>9, <2>2
  <1> QED BY <1>9, <1>10 DEF n, v, w

\* What the decoder makes of bytes.
LEMMA Int64Facts ==
  ASSUME NEW b \in Seq(Byte), b # << >>
  PROVE  /\ Word(b)[Len(b)] \in Int /\ Int64(b) \in Int
         /\ Int64(b) = IF Len(b) = 8 /\ Word(b)[Len(b)] < 0 /\ shift = -1 THEN -1 ELSE Word(b)[Len(b)]
  <1>1. Len(b) \in 0 .. Len(b)
    OBVIOUS
  <1>2. Word(b)[Len(b)] \in Int
    BY <1>1, WordFacts
  <1> QED BY <1>2 DEF Int64

LEMMA ReadNumber ==
  ASSUME NEW v \in Int, NEW n \in 1 .. 8, Fits(v, n)
  PROVE  Int64(BigEndian(v, n)) = IF n = 8 /\ v < 0 /\ shift = -1 THEN -1 ELSE v
  <1>1. n \in Nat \ {0} /\ n \in Nat
    OBVIOUS
  <1>2. BigEndian(v, n) \in Seq(Byte) /\ Len(BigEndian(v, n)) = n
    BY <1>1, BigEndianFacts
  <1>3. BigEndian(v, n) # << >>
    BY <1>2
  <1>4. Word(BigEndian(v, n))[n] = v
    BY <1>1, WordOfBytes
  <1> QED BY <1>2, <1>3, <1>4, Int64Facts

LEMMA ReadBytes ==
  ASSUME NEW v \in Int, NEW n \in 1 .. 7
  PROVE  BigEndian(Int64(BigEndian(v, n)), n) = BigEndian(v, n)
  <1> DEFINE b == BigEndian(v, n)
  <1>1. n \in Nat
    OBVIOUS
  <1>2. b \in Seq(Byte) /\ Len(b) = n
    BY <1>1, BigEndianFacts
  <1> HIDE DEF b
  <1>3. b # << >> /\ Len(b) # 8
    BY <1>2
  <1>4. Int64(b) = Word(b)[Len(b)]
    BY <1>2, <1>3, Int64Facts
  <1>5. BigEndian(Word(b)[n], n) = b
    BY <1>2, <1>3, BytesOfWord
  <1> QED BY <1>2, <1>4, <1>5 DEF b

\* One byte is its number, less 256 when its top bit is set.
LEMMA OneByte ==
  ASSUME NEW x \in Byte
  PROVE  Int64(<< x >>) = IF x < 128 THEN x ELSE x - 256
  <1> DEFINE b == << x >>
  <1>1. b \in Seq(Byte) /\ b # << >> /\ Len(b) = 1 /\ b[1] = x
    OBVIOUS
  <1> HIDE DEF b
  <1>2. /\ Word(b)[0] = IF x >= 128 THEN -1 ELSE 0
        /\ Word(b)[1] = 256 * Word(b)[1 - 1] + x
    BY <1>1, WordFacts
  <1>3. Int64(b) = Word(b)[Len(b)]
    <2>1. Len(b) # 8
      BY <1>1
    <2> QED BY <1>1, <2>1, Int64Facts
  <1>4. x \in 0 .. 255 /\ 1 - 1 = 0
    BY DEF Byte
  <1> QED BY <1>1, <1>2, <1>3, <1>4 DEF b

\* A number of one byte.
LEMMA OneByteSent ==
  ASSUME NEW v, Unsigned(v, 1)
  PROVE  v \in Byte /\ BigEndian(v, 1) = << v >> /\ (v < 128 <=> Fits(v, 1))
  <1>1. v \in Int /\ Shifted(v, 1)[1] = 0
    BY DEF Unsigned
  <1>2. 1 \in Nat /\ 1 \in 1 .. 1 /\ 1 - 1 = 0
    OBVIOUS
  <1>3. Shifted(v, 1)[0] = v /\ Shifted(v, 1)[1] = v \div 256
    <2>1. Shifted(v, 1)[0] = v
      BY <1>2, <1>1, ShiftedFacts
    <2>2. \A k \in 1 .. 1 : Shifted(v, 1)[k] = Shifted(v, 1)[k - 1] \div 256
      BY <1>2, <1>1, ShiftedFacts
    <2> QED BY <1>2, <2>1, <2>2
  <1>4. v \in 0 .. 255
    BY <1>1, <1>3
  <1>5. BigEndian(v, 1) \in Seq(Byte) /\ Len(BigEndian(v, 1)) = 1 /\ BigEndian(v, 1)[1] = v
    <2>1. BigEndian(v, 1)[1] = v % 256
      <3>1. \A i \in 1 .. 1 : BigEndian(v, 1)[i] = Shifted(v, 1)[1 - i] % 256
        BY <1>2, <1>1, BigEndianFacts
      <3> QED BY <1>2, <1>3, <3>1
    <2>2. BigEndian(v, 1) \in Seq(Byte) /\ Len(BigEndian(v, 1)) = 1
      <3> DEFINE n == 1
      <3>1. n \in Nat
        OBVIOUS
      <3> HIDE DEF n
      <3>2. BigEndian(v, n) \in Seq(Byte) /\ Len(BigEndian(v, n)) = n
        BY <1>1, <3>1, BigEndianFacts
      <3> QED BY <3>2 DEF n
    <2> QED BY <1>4, <2>1, <2>2
  <1>6. v < 128 <=> Fits(v, 1)
    BY <1>3, <1>4 DEF Fits
  <1> QED BY <1>4, <1>5, <1>6 DEF Byte

-----------------------------------------------------------------------------
\* Where the parts of a message are.

\* Bytes one after another.
LEMMA ConcatFacts ==
  ASSUME NEW s \in Seq(Byte), NEW t \in Seq(Byte)
  PROVE  /\ s \o t \in Seq(Byte) /\ Len(s \o t) = Len(s) + Len(t)
         /\ \A i \in 1 .. Len(s) : (s \o t)[i] = s[i]
         /\ \A i \in 1 .. Len(t) : (s \o t)[Len(s) + i] = t[i]
  OBVIOUS

LEMMA ThreeParts ==
  ASSUME NEW h \in Seq(Byte), NEW s \in Seq(Byte), NEW t \in Seq(Byte)
  PROVE  /\ h \o (s \o t) \in Seq(Byte) /\ Len(s \o t) = Len(s) + Len(t)
         /\ Len(h \o (s \o t)) = Len(h) + Len(s) + Len(t)
         /\ \A i \in 1 .. Len(h) : (h \o (s \o t))[i] = h[i]
         /\ \A i \in 1 .. Len(s) : (h \o (s \o t))[Len(h) + i] = s[i]
         /\ \A i \in 1 .. Len(t) : (h \o (s \o t))[Len(h) + Len(s) + i] = t[i]
  <1> DEFINE d == s \o t
  <1>1. /\ d \in Seq(Byte) /\ Len(d) = Len(s) + Len(t)
        /\ \A i \in 1 .. Len(s) : d[i] = s[i]
        /\ \A i \in 1 .. Len(t) : d[Len(s) + i] = t[i]
    BY ConcatFacts
  <1> HIDE DEF d
  <1>2. /\ h \o d \in Seq(Byte) /\ Len(h \o d) = Len(h) + Len(d)
        /\ \A i \in 1 .. Len(h) : (h \o d)[i] = h[i]
        /\ \A i \in 1 .. Len(d) : (h \o d)[Len(h) + i] = d[i]
    BY <1>1, ConcatFacts
  <1>3. Len(h) \in Nat /\ Len(s) \in Nat /\ Len(t) \in Nat
    OBVIOUS
  <1>4. ASSUME NEW i \in 1 .. Len(s) PROVE (h \o d)[Len(h) + i] = s[i]
    <2>1. i \in 1 .. Len(d)
      BY <1>1, <1>3
    <2> QED BY <1>1, <1>2, <2>1
  <1>5. ASSUME NEW i \in 1 .. Len(t) PROVE (h \o d)[Len(h) + Len(s) + i] = t[i]
    <2>1. Len(s) + i \in 1 .. Len(d) /\ Len(h) + (Len(s) + i) = Len(h) + Len(s) + i
      BY <1>1, <1>3
    <2> QED BY <1>1, <1>2, <2>1
  <1>6. Len(h \o d) = Len(h) + Len(s) + Len(t)
    BY <1>1, <1>2, <1>3
  <1> QED BY <1>1, <1>2, <1>4, <1>5, <1>6 DEF d

LEMMA ValueBytes ==
  ASSUME NEW x, Value(x)
  PROVE  /\ WireValue(x) \in Seq(Byte)
         /\ Len(WireValue(x)) = IF x.len = 0 THEN Len(x.bytes) ELSE x.len
  <1>1. x.bytes \in Seq(Byte) /\ x.len \in Nat /\ x.v \in Int
    BY DEF Value
  <1>2. BigEndian(x.v, x.len) \in Seq(Byte) /\ Len(BigEndian(x.v, x.len)) = x.len
    BY <1>1, BigEndianFacts, ZenonT(40)
  <1> QED BY <1>1, <1>2 DEF WireValue

LEMMA ElementBytes ==
  ASSUME NEW e, IsElement(e)
  PROVE  /\ e.bytes \in Seq(Byte) /\ e.len \in 0 .. 8 /\ e.v \in Int /\ e.code \in Byte /\ e.format \in Byte
         /\ Len(e.bytes) + e.len \in 1 .. 255
         /\ WireElement(e) \in Seq(Byte) /\ Len(WireElement(e)) = 3 + Len(e.bytes) + e.len
         /\ WireElement(e)[1] = Len(e.bytes) + e.len
         /\ WireElement(e)[2] = e.format /\ WireElement(e)[3] = e.code
         /\ \A i \in 1 .. Len(e.bytes) : WireElement(e)[3 + i] = e.bytes[i]
         /\ BigEndian(e.v, e.len) \in Seq(Byte) /\ Len(BigEndian(e.v, e.len)) = e.len
         /\ \A i \in 1 .. e.len : WireElement(e)[3 + Len(e.bytes) + i] = BigEndian(e.v, e.len)[i]
  <1>1. /\ e.bytes \in Seq(Byte) /\ e.len \in 0 .. 8 /\ e.v \in Int /\ e.code \in Byte /\ e.format \in Byte
        /\ Len(e.bytes) + e.len \in 1 .. 255
    BY DEF IsElement, Value
  <1>2. BigEndian(e.v, e.len) \in Seq(Byte) /\ Len(BigEndian(e.v, e.len)) = e.len
    <2>1. e.len \in Nat
      BY <1>1
    <2> QED BY <1>1, <2>1, BigEndianFacts, ZenonT(40)
  <1> DEFINE t == BigEndian(e.v, e.len)
             s == e.bytes
             h == << Len(s) + Len(t), e.format, e.code >>
  <1>3. s \in Seq(Byte) /\ t \in Seq(Byte) /\ Len(t) = e.len /\ Len(s) + Len(t) \in Byte
    BY <1>1, <1>2 DEF Byte
  <1> HIDE DEF s, t
  <1>4. h \in Seq(Byte) /\ Len(h) = 3 /\ h[1] = Len(s) + Len(t) /\ h[2] = e.format /\ h[3] = e.code
    BY <1>1, <1>3
  <1>5. WireElement(e) = h \o (s \o t)
    <2>1. Len(s \o t) = Len(s) + Len(t)
      BY <1>3, ConcatFacts
    <2> QED BY <2>1 DEF WireElement, Data, s, t
  <1> HIDE DEF h
  <1>6. /\ h \o (s \o t) \in Seq(Byte) /\ Len(h \o (s \o t)) = 3 + Len(s) + Len(t)
        /\ \A i \in 1 .. 3 : (h \o (s \o t))[i] = h[i]
        /\ \A i \in 1 .. Len(s) : (h \o (s \o t))[3 + i] = s[i]
        /\ \A i \in 1 .. Len(t) : (h \o (s \o t))[3 + Len(s) + i] = t[i]
    <2>1. /\ h \o (s \o t) \in Seq(Byte) /\ Len(h \o (s \o t)) = Len(h) + Len(s) + Len(t)
          /\ \A i \in 1 .. Len(h) : (h \o (s \o t))[i] = h[i]
          /\ \A i \in 1 .. Len(s) : (h \o (s \o t))[Len(h) + i] = s[i]
          /\ \A i \in 1 .. Len(t) : (h \o (s \o t))[Len(h) + Len(s) + i] = t[i]
      BY <1>3, <1>4, ThreeParts, ZenonT(40)
    <2>2. Len(h) = 3
      BY <1>4
    <2> QED BY <2>1, <2>2
  <1>7. 1 \in 1 .. 3 /\ 2 \in 1 .. 3 /\ 3 \in 1 .. 3
    OBVIOUS
  <1>8. /\ WireElement(e)[1] = Len(s) + e.len
        /\ WireElement(e)[2] = e.format /\ WireElement(e)[3] = e.code
    BY <1>3, <1>4, <1>5, <1>6, <1>7
  <1> QED BY <1>1, <1>2, <1>3, <1>5, <1>6, <1>8 DEF s, t

\* The number of parts.
Parts(m) == Len(m.values) + Len(m.list)

LEMMA PieceFacts ==
  ASSUME NEW m, InFormat(m)
  PROVE  /\ Len(m.values) \in Nat \ {0} /\ Len(m.list) \in Nat
         /\ DOMAIN m.values = 1 .. Len(m.values) /\ DOMAIN m.list = 1 .. Len(m.list)
         /\ Parts(m) \in Nat /\ Len(Pieces(m)) = Parts(m)
         /\ \A p \in 1 .. Parts(m) : Pieces(m)[p] \in Seq(Byte)
         /\ \A p \in 1 .. Len(m.values) : Value(m.values[p]) /\ Pieces(m)[p] = WireValue(m.values[p])
         /\ \A j \in 1 .. Len(m.list) : /\ IsElement(m.list[j])
                                        /\ Pieces(m)[Len(m.values) + j] = WireElement(m.list[j])
  <1>1. /\ Len(m.values) \in Nat \ {0} /\ DOMAIN m.values = 1 .. Len(m.values)
        /\ \A i \in DOMAIN m.values : Value(m.values[i])
        /\ Len(m.list) \in Nat /\ DOMAIN m.list = 1 .. Len(m.list)
        /\ \A j \in DOMAIN m.list : IsElement(m.list[j])
    BY DEF InFormat
  <1> DEFINE n == Len(m.values)
             l == Len(m.list)
  <1>2. Pieces(m) = [p \in 1 .. n + l |-> IF p <= n THEN WireValue(m.values[p]) ELSE WireElement(m.list[p - n])]
    BY DEF Pieces
  <1>3. n \in Nat \ {0} /\ l \in Nat
    BY <1>1
  <1> HIDE DEF n, l
  <1>4. ASSUME NEW p \in 1 .. n
        PROVE  Value(m.values[p]) /\ Pieces(m)[p] = WireValue(m.values[p]) /\ Pieces(m)[p] \in Seq(Byte)
    <2>1. p \in 1 .. n + l /\ p <= n
      BY <1>3
    <2>2. Value(m.values[p])
      BY <1>1 DEF n
    <2> QED BY <1>2, <2>1, <2>2, ValueBytes
  <1>5. ASSUME NEW j \in 1 .. l
        PROVE  /\ IsElement(m.list[j]) /\ Pieces(m)[n + j] = WireElement(m.list[j])
               /\ Pieces(m)[n + j] \in Seq(Byte)
    <2>1. n + j \in 1 .. n + l /\ ~(n + j <= n) /\ (n + j) - n = j
      BY <1>3
    <2>2. IsElement(m.list[j])
      BY <1>1 DEF l
    <2>3. Pieces(m)[n + j] = WireElement(m.list[j])
      BY <1>2, <2>1
    <2> QED BY <2>2, <2>3, ElementBytes
  <1>6. ASSUME NEW p \in 1 .. n + l PROVE Pieces(m)[p] \in Seq(Byte)
    <2>1. CASE p <= n
      <3>1. p \in 1 .. n
        BY <1>3, <2>1
      <3> QED BY <1>4, <3>1
    <2>2. CASE ~(p <= n)
      <3>1. p - n \in 1 .. l /\ n + (p - n) = p
        BY <1>3, <2>2
      <3> QED BY <1>5, <3>1
    <2> QED BY <2>1, <2>2
  <1>7. n + l \in Nat /\ Len(Pieces(m)) = n + l
    <2>1. n + l \in Nat
      BY <1>3
    <2>2. Pieces(m) \in [1 .. n + l -> Seq(Byte)]
      BY <1>2, <1>6
    <2> QED BY <2>1, <2>2
  <1> QED BY <1>1, <1>4, <1>5, <1>6, <1>7 DEF n, l, Parts

LEMMA SentUpToFacts ==
  ASSUME NEW m, InFormat(m)
  PROVE  /\ SentUpTo(m) \in [0 .. Parts(m) -> Seq(Byte)]
         /\ SentUpTo(m)[0] = << >>
         /\ \A p \in 1 .. Parts(m) : SentUpTo(m)[p] = SentUpTo(m)[p - 1] \o Pieces(m)[p]
         /\ Wire(m) = SentUpTo(m)[Parts(m)]
  <1> DEFINE n == Parts(m)
             P == Pieces(m)
             D == Seq(Byte)
             step == [x \in (1 .. n) \X D |-> x[2] \o P[x[1]]]
  <1>1. n \in Nat /\ Len(P) = n /\ \A p \in 1 .. n : P[p] \in D
    BY PieceFacts
  <1>2. << >> \in D /\ \A s, t \in D : s \o t \in D
    OBVIOUS
  <1> HIDE DEF n, P, D
  <1>3. step \in Steps(n, D) /\ \A p \in 1 .. n, s \in D : step[<<p, s>>] = s \o P[p]
    BY <1>1, <1>2 DEF Steps
  <1> HIDE DEF step
  <1>4. PICK g \in [0 .. n -> D] : g[0] = << >> /\ \A p \in 1 .. n : g[p] = step[<<p, g[p - 1]>>]
    <2>1. Runs(n, D, << >>, step) # {}
      BY <1>1, <1>2, <1>3, Iteration, Zenon
    <2> QED BY <2>1 DEF Runs
  <1>5. g = [p \in 0 .. n |-> IF p = 0 THEN << >> ELSE g[p - 1] \o P[p]]
    <2>1. ASSUME NEW p \in 0 .. n, p # 0 PROVE g[p] = g[p - 1] \o P[p]
      <3>1. p \in 1 .. n /\ g[p - 1] \in D
        BY <1>1, <2>1
      <3> QED BY <1>3, <1>4, <3>1
    <2> QED BY <1>4, <2>1
  <1> DEFINE w == CHOOSE f : f = [p \in 0 .. n |-> IF p = 0 THEN << >> ELSE f[p - 1] \o P[p]]
  <1>6. SentUpTo(m) = w /\ Wire(m) = w[n]
    <2>1. SentUpTo(m) = w
      BY <1>1 DEF SentUpTo, P
    <2> QED BY <1>1, <2>1 DEF Wire, P
  <1>7. w = [p \in 0 .. n |-> IF p = 0 THEN << >> ELSE w[p - 1] \o P[p]]
    BY <1>5
  <1> HIDE DEF w
  <1>8. w[0] = << >> /\ \A p \in 1 .. n : w[p] = w[p - 1] \o P[p]
    BY <1>1, <1>7
  <1> DEFINE S == {k \in Nat : k <= n => w[k] \in D}
  <1>9. 0 \in S
    BY <1>2, <1>8
  <1>10. ASSUME NEW k \in 0 .. n, k \in S, k + 1 \in 0 .. n PROVE k + 1 \in S
    <2>1. k + 1 \in 1 .. n /\ (k + 1) - 1 = k /\ w[k] \in D
      BY <1>1, <1>10
    <2>2. w[k + 1] = w[k] \o P[k + 1] /\ P[k + 1] \in D
      <3>1. w[k + 1] = w[(k + 1) - 1] \o P[k + 1]
        BY <1>8, <2>1, Zenon
      <3>2. P[k + 1] \in D
        BY <1>1, <2>1
      <3> QED BY <2>1, <3>1, <3>2, Zenon
    <2>3. w[k + 1] \in D
      BY <1>2, <2>1, <2>2
    <2> QED BY <2>1, <2>3
  <1>11. ASSUME NEW k \in 0 .. n PROVE w[k] \in D
    <2>1. k \in S
      <3> HIDE DEF S
      <3> QED BY <1>1, <1>9, <1>10, UpTo
    <2> QED BY <2>1
  <1>12. w \in [0 .. n -> D]
    BY <1>7, <1>11
  <1> QED BY <1>6, <1>8, <1>12 DEF n, P, D

LEMMA Within ==
  ASSUME NEW x \in Nat, NEW y \in Nat
  PROVE  /\ \A b \in Nat : x + y \in 0 .. b => x \in 0 .. b
         /\ \A i \in 1 .. x : i \in 1 .. x + y
         /\ \A i \in 1 .. y : x + i \in 1 .. x + y
  OBVIOUS

\* A part follows those before it, in the message.
LEMMA Placed ==
  ASSUME NEW m, InFormat(m)
  PROVE  LET n == Parts(m)
             w == SentUpTo(m)
         IN  /\ Wire(m) \in Seq(Byte) /\ Len(w[0]) = 0 /\ Len(w[n]) = Len(Wire(m))
             /\ \A p \in 0 .. n : Len(w[p]) \in 0 .. Len(Wire(m))
             /\ \A p \in 1 .. n :
                   /\ Len(w[p]) = Len(w[p - 1]) + Len(Pieces(m)[p])
                   /\ \A i \in 1 .. Len(Pieces(m)[p]) : Wire(m)[Len(w[p - 1]) + i] = Pieces(m)[p][i]
  <1> DEFINE n == Parts(m)
             w == SentUpTo(m)
             P == Pieces(m)
             b == Wire(m)
  <1>1. n \in Nat /\ \A p \in 1 .. n : P[p] \in Seq(Byte)
    BY PieceFacts
  <1>2. /\ w \in [0 .. n -> Seq(Byte)] /\ w[0] = << >> /\ b = w[n]
        /\ \A p \in 1 .. n : w[p] = w[p - 1] \o P[p]
    BY SentUpToFacts
  <1> HIDE DEF n, w, P, b
  <1>3. ASSUME NEW p \in 1 .. n
        PROVE  /\ p - 1 \in 0 .. n /\ p \in 0 .. n /\ Len(w[p - 1]) \in Nat /\ Len(P[p]) \in Nat
               /\ w[p - 1] \in Seq(Byte) /\ w[p] \in Seq(Byte) /\ P[p] \in Seq(Byte)
               /\ Len(w[p]) = Len(w[p - 1]) + Len(P[p])
               /\ \A i \in 1 .. Len(w[p - 1]) : w[p][i] = w[p - 1][i]
               /\ \A i \in 1 .. Len(P[p]) : w[p][Len(w[p - 1]) + i] = P[p][i]
    <2>1. p - 1 \in 0 .. n /\ p \in 0 .. n
      BY <1>1
    <2>2. w[p - 1] \in Seq(Byte) /\ w[p] \in Seq(Byte) /\ P[p] \in Seq(Byte)
      BY <1>1, <1>2, <2>1
    <2>3. w[p] = w[p - 1] \o P[p]
      BY <1>2, Zenon
    <2> DEFINE s == w[p - 1]
               t == P[p]
    <2>4. /\ Len(s \o t) = Len(s) + Len(t)
          /\ \A i \in 1 .. Len(s) : (s \o t)[i] = s[i]
          /\ \A i \in 1 .. Len(t) : (s \o t)[Len(s) + i] = t[i]
      <3> HIDE DEF s, t
      <3>1. s \in Seq(Byte) /\ t \in Seq(Byte)
        BY <2>2 DEF s, t
      <3> QED BY <3>1, ConcatFacts
    <2>5. Len(s) \in Nat /\ Len(t) \in Nat
      BY <2>2
    <2> QED BY <2>1, <2>2, <2>3, <2>4, <2>5
  <1>4. b \in Seq(Byte)
    BY <1>1, <1>2
  <1> DEFINE Inside(p) == /\ Len(w[p]) \in 0 .. Len(b)
                          /\ \A i \in 1 .. Len(w[p]) : b[i] = w[p][i]
             S == {d \in Nat : d <= n => Inside(n - d)}
  <1>5. 0 \in S
    <2>1. n - 0 = n
      BY <1>1
    <2>2. Inside(n)
      BY <1>2, <1>4
    <2> QED BY <2>1, <2>2
  <1>6. ASSUME NEW d \in 0 .. n, d \in S, d + 1 \in 0 .. n PROVE d + 1 \in S
    <2> DEFINE p == n - d
    <2>1. p \in 1 .. n /\ p - 1 = n - (d + 1)
      BY <1>1, <1>6
    <2>2. Inside(p)
      BY <1>6
    <2> HIDE DEF p
    <2>3. Inside(p - 1)
      <3>1. Len(w[p - 1]) \in Nat /\ Len(P[p]) \in Nat /\ Len(w[p]) = Len(w[p - 1]) + Len(P[p])
        BY <1>3, <2>1
      <3>2. Len(w[p - 1]) \in 0 .. Len(b) /\ Len(b) \in Nat
        <4>1. Len(b) \in Nat /\ Len(w[p]) \in 0 .. Len(b)
          BY <1>4, <2>2
        <4> QED BY <3>1, <4>1, Within, ZenonT(40)
      <3>3. ASSUME NEW i \in 1 .. Len(w[p - 1]) PROVE b[i] = w[p - 1][i]
        <4>1. i \in 1 .. Len(w[p])
          BY <3>1, Within
        <4>2. w[p][i] = w[p - 1][i]
          BY <1>3, <2>1
        <4> QED BY <2>2, <4>1, <4>2
      <3> QED BY <3>2, <3>3
    <2> HIDE DEF Inside
    <2> QED BY <2>1, <2>3
  <1>7. ASSUME NEW p \in 0 .. n PROVE Inside(p)
    <2>1. n - p \in 0 .. n /\ n - (n - p) = p
      BY <1>1
    <2>2. n - p \in S
      <3> HIDE DEF S
      <3> DEFINE k == n - p
      <3>1. k \in Nat /\ \A d \in 0 .. k : d \in 0 .. n
        BY <1>1, <2>1
      <3> HIDE DEF k
      <3>2. k \in S
        BY <1>5, <1>6, <3>1, UpTo
      <3> QED BY <3>2 DEF k
    <2> HIDE DEF Inside
    <2> QED BY <2>1, <2>2
  <1>8. ASSUME NEW p \in 1 .. n, NEW i \in 1 .. Len(P[p])
        PROVE  b[Len(w[p - 1]) + i] = P[p][i]
    <2>1. /\ Len(w[p - 1]) \in Nat /\ Len(P[p]) \in Nat /\ Len(w[p]) = Len(w[p - 1]) + Len(P[p])
          /\ w[p][Len(w[p - 1]) + i] = P[p][i] /\ p \in 0 .. n
      BY <1>3
    <2>2. Len(w[p - 1]) + i \in 1 .. Len(w[p])
      BY <2>1, Within
    <2>3. Inside(p)
      BY <1>7, <2>1
    <2> QED BY <2>1, <2>2, <2>3
  <1>9. Len(w[0]) = 0 /\ Len(w[n]) = Len(b)
    BY <1>2
  <1>10. \A p \in 0 .. n : Len(w[p]) \in 0 .. Len(b)
    BY <1>7
  <1>11. \A p \in 1 .. n : Len(w[p]) = Len(w[p - 1]) + Len(P[p])
    BY <1>3
  <1> QED BY <1>4, <1>8, <1>9, <1>10, <1>11 DEF n, w, P, b
-----------------------------------------------------------------------------
\* What a layout has to do with the columns of its type.
Sides == {"bid", "ask", "given"}
Matches(f, c) ==
    CASE c.kind = "uint" -> f = UInt(c.name, c.len)
      [] c.kind = "alpha" -> f = String(c.name, c.len)
      [] c.kind = "price" -> f = Decimal(c.name, c.len)
      [] c.name = "denominator" /\ c.kind = "implied" -> f = Fix(c.len)
      [] c.name = "side" /\ c.kind \in {"side", "implied"} -> f = ToSide(c.of)

\* How many columns before its side a depth's column is.
Back == [center |-> 4, denominator |-> 3, price |-> 2, size |-> 1]

\* What is asked of each column.  A column of a side is followed by that side.
MessageColumn(c) == /\ c.of = "message" /\ c.kind \in {"uint", "alpha"}
                    /\ c.name \notin DepthNames \cup Sides \cup {"side", "lost"}
SideColumnAt(C, i) ==
    /\ C[i].of \in Sides /\ C[i].name = "side"
    /\ C[i].kind = (IF C[i].of = "given" THEN "side" ELSE "implied")
    /\ C[i].len = (IF C[i].of = "given" THEN 1 ELSE 0)
    /\ i > 4 /\ \A n \in DepthNames : C[i - Back[n]].of = C[i].of /\ C[i - Back[n]].name = n
DepthColumnAt(C, i) ==
    /\ C[i].of \in Sides /\ C[i].name \in DepthNames
    /\ C[i].kind \in (CASE C[i].name \in {"center", "size"} -> {"uint"} [] C[i].name = "price" -> {"price"}
                        [] C[i].name = "denominator" -> {"uint", "implied"})
    /\ C[i].name = "denominator" /\ C[i].kind = "uint" => C[i].len = 1
    /\ C[i].name = "price" => i > 1 /\ C[i - 1].of = C[i].of /\ C[i - 1].name = "denominator"
    /\ i + Back[C[i].name] \in 1 .. Len(C) /\ SideColumnAt(C, i + Back[C[i].name])
    /\ C[i + Back[C[i].name]].of = C[i].of

Laid(F, C) ==
    /\ Len(F) \in Nat \ {0} /\ Len(C) = Len(F) /\ DOMAIN F = 1 .. Len(F) /\ DOMAIN C = 1 .. Len(F)
    /\ \A i \in 1 .. Len(F) :
          /\ Matches(F[i], C[i])
          /\ MessageColumn(C[i]) \/ SideColumnAt(C, i) \/ DepthColumnAt(C, i)
          /\ C[i].kind \in {"uint", "price"} => C[i].len \in 1 .. 8
          /\ C[i].kind = "alpha" => C[i].len \in 0 .. 8
          /\ C[i].kind = "alpha" /\ C[i].len = 0 =>
                C[i].name = "symbol" /\ i > 1 /\ C[i - 1] = Number("symbol_length", 1)
    /\ \A i, j \in 1 .. Len(F) : C[i].of = C[j].of /\ C[i].name = C[j].name => i = j
    /\ \A i, j \in 1 .. Len(F) : C[i].of = "given" => C[j].of \notin {"bid", "ask"}

\* A message whose columns and list have no side and none of the list's names.
ElementNames == {Element(code).name : code \in ElementCodes}
Listable(C) == \A i \in 1 .. Len(C) : C[i].of = "message" /\ C[i].name \notin ElementNames

-----------------------------------------------------------------------------
\* The messages of the theorems.  A trade is laid out otherwise than it is sent,
\* and a length from 128 on is read as a negative number.
Regular(m) ==
    /\ TypeSent(m) \notin TradeTypes
    /\ \A i \in DOMAIN m.values : Len(m.values[i].bytes) < 128
    /\ \A j \in DOMAIN m.list : Len(m.list[j].bytes) + m.list[j].len < 128

\* The elements that are read as they are meant.  A value type from 128 on is read
\* as a negative number, and skipped; a long decimal of eight bytes has ten places,
\* not four.
ReadValues == {code \in ValueTypes : code < 128}
ListRegular(m) ==
    \A j \in DOMAIN m.list : LET e == m.list[j]
                             IN  e.code \in ValueTypes => e.code \in ReadValues /\ ~(e.format = 2 /\ e.len = 8)

Cs == Columns(TypeSent(sent))
Fs == Layout(TypeSent(sent))
N == Len(sent.values)
Piece(p) == Pieces(sent)[p]
At(p) == Len(SentUpTo(sent)[p])
ReadTypes == {\h20, \h22, \h30, \h33} \cup QuoteTypes

\* The value that the bytes of a column make.
Number64(i) == IF Fs[i].kind = "fix" THEN Fs[i].len ELSE Int64(Piece(i))
Worth(i) == CASE Fs[i].kind \in {"uint", "fix"} -> Number64(i)
              [] Fs[i].kind = "string" -> Piece(i)
              [] Fs[i].kind = "decimal" -> [num |-> Int64(Piece(i)), den |-> Number64(i - 1)]

\* Of the first k columns, column i is still where it was read to.
Kept(i, k) == /\ Cs[i].name # "side"
              /\ \A j \in i + 1 .. k : /\ Cs[j].name # Cs[i].name
                                       /\ Cs[j].name = "side" => Cs[i].of = "message"
SideNamed(j) == IF Cs[j].of # "given" THEN Cs[j].of
                ELSE IF Piece(j)[1] = CodeB THEN "bid" ELSE "ask"

\* A record that holds the first k columns.
Holds(r, k) ==
    /\ \A i \in 1 .. k : Kept(i, k) => Cs[i].name \in DOMAIN r /\ r[Cs[i].name] = Worth(i)
    /\ \A j \in 1 .. k : Cs[j].name = "side" =>
          /\ SideNamed(j) \in DOMAIN r /\ DOMAIN r[SideNamed(j)] = DepthNames
          /\ \A n \in DepthNames : r[SideNamed(j)][n] = Worth(j - Back[n])
ReadUpTo(k) == Holds(rec, k)

\* The value that the data of an element make.
ListWorth(e) ==
    LET number == Int64(BigEndian(e.v, e.len))
    IN  CASE ValueKind(e.code) = "alpha" -> e.bytes
          [] ValueKind(e.code) = "uint" -> number
          [] ValueKind(e.code) = "date" -> 10000 * number + 100 * e.bytes[1] + e.bytes[2]
          [] ValueKind(e.code) = "price" ->
               [num |-> number, den |-> IF e.format = 3 THEN Int64(<< e.bytes[1] >>) ELSE 2 * e.format]

\* A record that holds the first n elements of the list.
Single(j, n) == /\ sent.list[j].code \in ReadValues
                /\ \A k \in 1 .. n : k # j => sent.list[k].code # sent.list[j].code
Lists(r, n) == \A j \in 1 .. n : Single(j, n) =>
    LET name == Element(sent.list[j].code).name
    IN  name \in DOMAIN r /\ r[name] = ListWorth(sent.list[j])
ListedUpTo(n) == Lists(rec, n)

\* The first k fields have been read and the others are still to be read.
IsSequence(s) == \E S : s \in Seq(S)
Doing(k) == /\ Len(todo) = N - k /\ \A i \in 1 .. N - k : todo[i] = Fs[k + i]
            /\ offset = At(k) /\ ReadUpTo(k)

\* What keeps the cursor in place: it is at the end of the columns and the
\* elements that have been read.
MessageInv == sent \in Messages /\ raw_data = Wire(sent) /\ shift \in {-1, 0}
ReadingInv ==
    /\ pc \in {"start", "fields", "list", "done"}
    /\ pc # "done" => proc = "none"
    /\ pc = "start" => todo = << >> /\ offset = 0
    /\ pc \in {"fields", "list"} => TypeSent(sent) \in ReadTypes
    /\ pc = "fields" => IsSequence(todo) /\ \E k \in 0 .. N : Doing(k)
    /\ pc = "list" => /\ todo = << >> /\ TypeSent(sent) \notin QuoteTypes
                      /\ ReadUpTo(N)
                      /\ \E n \in 0 .. Len(sent.list) : offset = At(N + n) /\ ListedUpTo(n)
    /\ pc = "done" => todo = << >> /\ offset \in {0, Len(raw_data)}
    /\ pc = "done" /\ proc # "none" =>
          /\ TypeSent(sent) \in ReadTypes /\ offset = Len(raw_data) /\ ReadUpTo(N)
          /\ ListedUpTo(Len(sent.list))
    /\ proc \in {"none", "smt_0x22", "smt_0x30", "smt_0x33", "smt_nbbo"}
DecodeInv == MessageInv /\ (Regular(sent) => ReadingInv)

-----------------------------------------------------------------------------
\* The layouts.

\* The layout that a type has.
LEMMA LayoutOf ==
  /\ \A t \in {\h20, \h22, \h30, \h33} : Layout(t) = << >> \o Fixed(t)
  /\ \A t \in QuoteTypes : Layout(t) = NbboFields(t) /\ Columns(t) = QuoteColumns(t)
  <1>1. ASSUME NEW t \in {\h20, \h22, \h30, \h33} PROVE Layout(t) = << >> \o Fixed(t)
    <2>1. t \in DefaultTypes /\ t \notin MarketTypes
      BY DEF DefaultTypes, MarketTypes
    <2>2. DefaultFields(t) = << >> \o Fixed(t)
      BY <2>1 DEF DefaultFields
    <2>3. Layout(t) = DefaultFields(t)
      BY DEF Layout, DefaultTypes, NbboTypes, TradeTypes
    <2> QED BY <2>2, <2>3
  <1>2. ASSUME NEW t \in QuoteTypes PROVE Layout(t) = NbboFields(t) /\ Columns(t) = QuoteColumns(t)
    <2>1. Layout(t) = NbboFields(t)
      BY DEF Layout, DefaultTypes, NbboTypes, TradeTypes, QuoteTypes
    <2>2. Columns(t) = QuoteColumns(t)
      BY DEF Columns, QuoteTypes
    <2> QED BY <2>1, <2>2
  <1> QED BY <1>1, <1>2

LEMMA NamesOfElements ==
  ElementNames \subseteq {"root", "put_or_call", "expiration_date", "strike", "high", "low", "last", "open",
                          "total_volume", "net_change", "open_interest", "tick", "value_bid", "value_ask",
                          "parent_locate_code", "underlying_price", "upstream_condition_detail",
                          "trade_report_detail", "extended_report_flags"}
  <1>1. ASSUME NEW code \in ElementCodes
        PROVE  Element(code).name \in
                  {"root", "put_or_call", "expiration_date", "strike", "high", "low", "last", "open",
                   "total_volume", "net_change", "open_interest", "tick", "value_bid", "value_ask",
                   "parent_locate_code", "underlying_price", "upstream_condition_detail",
                   "trade_report_detail", "extended_report_flags"}
    BY DEF ElementCodes, Element, String, UInt, Decimal, Field
  <1> QED BY <1>1 DEF ElementNames

\* Columns without sides, each found by its name.
Named(c, name, kind, len) == c.of = "message" /\ c.name = name /\ c.kind = kind /\ c.len = len
Plain(F, C, n, place) ==
    /\ n \in Nat \ {0} /\ Len(F) = n /\ Len(C) = n /\ DOMAIN F = 1 .. n /\ DOMAIN C = 1 .. n
    /\ \A i \in 1 .. n :
          /\ Matches(F[i], C[i]) /\ MessageColumn(C[i])
          /\ C[i].len \in 1 .. 8 \/ Named(C[i], "symbol", "alpha", 0)
          /\ Named(C[i], "symbol", "alpha", 0) => i > 1 /\ C[i - 1] = Number("symbol_length", 1)
          /\ C[i].name \notin ElementNames /\ place[C[i].name] = i

LEMMA PlainLaid ==
  ASSUME NEW F, NEW C, NEW n, NEW place, Plain(F, C, n, place)
  PROVE  Laid(F, C) /\ Listable(C)
  <1> USE DEF Plain
  <1>1. ASSUME NEW i \in 1 .. n
        PROVE  /\ C[i].of = "message" /\ C[i].kind \in {"uint", "alpha"}
               /\ C[i].kind = "uint" => C[i].len \in 1 .. 8
               /\ C[i].kind = "alpha" => C[i].len \in 0 .. 8
               /\ C[i].len = 0 => C[i].name = "symbol" /\ i > 1 /\ C[i - 1] = Number("symbol_length", 1)
    BY DEF MessageColumn, Named
  <1>2. \A i, j \in 1 .. n : C[i].name = C[j].name => i = j
    OBVIOUS
  <1>3. \A i \in 1 .. n : C[i].of # "given"
    BY <1>1
  <1>4. Laid(F, C)
    BY <1>1, <1>2, <1>3 DEF Laid
  <1> QED BY <1>1, <1>4 DEF Listable

PlainNames == {"msgtype", "timestamp", "event_code", "protocol_id", "channel_index", "seconds", "locate_code",
               "MIC", "country_code", "currency_code", "product_type", "symbol_length", "symbol",
               "message_flag", "upstream_seqn", "upstream_nanos", "instrument_locate", "condition", "flags"}

LEMMA PlainColumns ==
  ASSUME NEW name \in PlainNames, NEW len
  PROVE  /\ Matches(UInt(name, len), Number(name, len)) /\ Matches(String(name, len), Alpha(name, len))
         /\ MessageColumn(Number(name, len)) /\ MessageColumn(Alpha(name, len))
         /\ Named(Number(name, len), name, "uint", len) /\ Named(Alpha(name, len), name, "alpha", len)
         /\ name \notin ElementNames
  <1>1. Named(Number(name, len), name, "uint", len) /\ Named(Alpha(name, len), name, "alpha", len)
    BY DEF Named, Number, Alpha, Column
  <1>2. Matches(UInt(name, len), Number(name, len)) /\ Matches(String(name, len), Alpha(name, len))
    BY <1>1 DEF Named, Matches
  <1>3. name \notin DepthNames \cup Sides \cup {"side", "lost"} /\ name \notin ElementNames
    BY NamesOfElements DEF PlainNames, DepthNames, Sides
  <1> QED BY <1>1, <1>2, <1>3 DEF Named, MessageColumn

LEMMA Laid20 == Laid(Layout(\h20), Columns(\h20)) /\ Listable(Columns(\h20))
  <1> DEFINE F == Layout(\h20)
             C == Columns(\h20)
             place == [msgtype |-> 1, timestamp |-> 2, event_code |-> 3]
  <1>1. F = << >> \o << UInt("msgtype", 1), UInt("timestamp", 8), String("event_code", 4) >>
    BY LayoutOf DEF Fixed
  <1>2. C = << Number("msgtype", 1), Number("timestamp", 8), Alpha("event_code", 4) >>
    BY DEF Columns, QuoteTypes
  <1> HIDE DEF F, C
  <1>3. /\ Len(F) = 3 /\ DOMAIN F = 1 .. 3
        /\ F[1] = UInt("msgtype", 1)
        /\ F[2] = UInt("timestamp", 8) /\ F[3] = String("event_code", 4)
    BY <1>1
  <1>4. /\ Len(C) = 3 /\ DOMAIN C = 1 .. 3
        /\ C[1] = Number("msgtype", 1)
        /\ C[2] = Number("timestamp", 8) /\ C[3] = Alpha("event_code", 4)
    BY <1>2
  <1>5. ASSUME NEW i \in 1 .. 3
        PROVE  /\ Matches(F[i], C[i]) /\ MessageColumn(C[i])
               /\ C[i].len \in 1 .. 8 \/ Named(C[i], "symbol", "alpha", 0)
               /\ Named(C[i], "symbol", "alpha", 0) => i > 1 /\ C[i - 1] = Number("symbol_length", 1)
               /\ C[i].name \notin ElementNames /\ place[C[i].name] = i
    <2>1. CASE i = 1
      BY <1>3, <1>4, <2>1, PlainColumns DEF PlainNames, Named
    <2>2. CASE i = 2
      BY <1>3, <1>4, <2>2, PlainColumns DEF PlainNames, Named
    <2>3. CASE i = 3
      BY <1>3, <1>4, <2>3, PlainColumns DEF PlainNames, Named
    <2> QED BY <2>1, <2>2, <2>3
  <1>6. Plain(F, C, 3, place)
    <2> HIDE DEF place
    <2> QED BY <1>3, <1>4, <1>5 DEF Plain
  <1> QED BY <1>6, PlainLaid DEF F, C

LEMMA Laid22 == Laid(Layout(\h22), Columns(\h22)) /\ Listable(Columns(\h22))
  <1> DEFINE F == Layout(\h22)
             C == Columns(\h22)
             place == [msgtype |-> 1, protocol_id |-> 2, channel_index |-> 3, seconds |-> 4]
  <1>1. F = << >> \o << UInt("msgtype", 1), UInt("protocol_id", 1), UInt("channel_index", 1),
                         UInt("seconds", 4) >>
    BY LayoutOf DEF Fixed
  <1>2. C = << Number("msgtype", 1), Number("protocol_id", 1), Number("channel_index", 1),
               Number("seconds", 4) >>
    BY DEF Columns, QuoteTypes
  <1> HIDE DEF F, C
  <1>3. /\ Len(F) = 4 /\ DOMAIN F = 1 .. 4
        /\ F[1] = UInt("msgtype", 1)
        /\ F[2] = UInt("protocol_id", 1) /\ F[3] = UInt("channel_index", 1)
        /\ F[4] = UInt("seconds", 4)
    BY <1>1
  <1>4. /\ Len(C) = 4 /\ DOMAIN C = 1 .. 4
        /\ C[1] = Number("msgtype", 1)
        /\ C[2] = Number("protocol_id", 1) /\ C[3] = Number("channel_index", 1)
        /\ C[4] = Number("seconds", 4)
    BY <1>2
  <1>5. ASSUME NEW i \in 1 .. 4
        PROVE  /\ Matches(F[i], C[i]) /\ MessageColumn(C[i])
               /\ C[i].len \in 1 .. 8 \/ Named(C[i], "symbol", "alpha", 0)
               /\ Named(C[i], "symbol", "alpha", 0) => i > 1 /\ C[i - 1] = Number("symbol_length", 1)
               /\ C[i].name \notin ElementNames /\ place[C[i].name] = i
    <2>1. CASE i = 1
      BY <1>3, <1>4, <2>1, PlainColumns DEF PlainNames, Named
    <2>2. CASE i = 2
      BY <1>3, <1>4, <2>2, PlainColumns DEF PlainNames, Named
    <2>3. CASE i = 3
      BY <1>3, <1>4, <2>3, PlainColumns DEF PlainNames, Named
    <2>4. CASE i = 4
      BY <1>3, <1>4, <2>4, PlainColumns DEF PlainNames, Named
    <2> QED BY <2>1, <2>2, <2>3, <2>4
  <1>6. Plain(F, C, 4, place)
    <2> HIDE DEF place
    <2> QED BY <1>3, <1>4, <1>5 DEF Plain
  <1> QED BY <1>6, PlainLaid DEF F, C

LEMMA Laid30 == Laid(Layout(\h30), Columns(\h30)) /\ Listable(Columns(\h30))
  <1> DEFINE F == Layout(\h30)
             C == Columns(\h30)
             place == [msgtype |-> 1, locate_code |-> 2, MIC |-> 3]
  <1>1. F = << >> \o << UInt("msgtype", 1), UInt("locate_code", 2), String("MIC", 4) >>
    BY LayoutOf DEF Fixed
  <1>2. C = << Number("msgtype", 1), Number("locate_code", 2), Alpha("MIC", 4) >>
    BY DEF Columns, QuoteTypes
  <1> HIDE DEF F, C
  <1>3. /\ Len(F) = 3 /\ DOMAIN F = 1 .. 3
        /\ F[1] = UInt("msgtype", 1)
        /\ F[2] = UInt("locate_code", 2) /\ F[3] = String("MIC", 4)
    BY <1>1
  <1>4. /\ Len(C) = 3 /\ DOMAIN C = 1 .. 3
        /\ C[1] = Number("msgtype", 1)
        /\ C[2] = Number("locate_code", 2) /\ C[3] = Alpha("MIC", 4)
    BY <1>2
  <1>5. ASSUME NEW i \in 1 .. 3
        PROVE  /\ Matches(F[i], C[i]) /\ MessageColumn(C[i])
               /\ C[i].len \in 1 .. 8 \/ Named(C[i], "symbol", "alpha", 0)
               /\ Named(C[i], "symbol", "alpha", 0) => i > 1 /\ C[i - 1] = Number("symbol_length", 1)
               /\ C[i].name \notin ElementNames /\ place[C[i].name] = i
    <2>1. CASE i = 1
      BY <1>3, <1>4, <2>1, PlainColumns DEF PlainNames, Named
    <2>2. CASE i = 2
      BY <1>3, <1>4, <2>2, PlainColumns DEF PlainNames, Named
    <2>3. CASE i = 3
      BY <1>3, <1>4, <2>3, PlainColumns DEF PlainNames, Named
    <2> QED BY <2>1, <2>2, <2>3
  <1>6. Plain(F, C, 3, place)
    <2> HIDE DEF place
    <2> QED BY <1>3, <1>4, <1>5 DEF Plain
  <1> QED BY <1>6, PlainLaid DEF F, C

LEMMA Laid33 == Laid(Layout(\h33), Columns(\h33)) /\ Listable(Columns(\h33))
  <1> DEFINE F == Layout(\h33)
             C == Columns(\h33)
             place == [msgtype |-> 1, locate_code |-> 2, country_code |-> 3, currency_code |-> 4,
                       MIC |-> 5, product_type |-> 6, symbol_length |-> 7, symbol |-> 8]
  <1>1. F = << >> \o << UInt("msgtype", 1), UInt("locate_code", 4), String("country_code", 2),
                         String("currency_code", 3), String("MIC", 4), UInt("product_type", 1),
                         UInt("symbol_length", 1), String("symbol", 0) >>
    BY LayoutOf DEF Fixed
  <1>2. C = << Number("msgtype", 1), Number("locate_code", 4), Alpha("country_code", 2),
               Alpha("currency_code", 3), Alpha("MIC", 4), Number("product_type", 1),
               Number("symbol_length", 1), Alpha("symbol", 0) >>
    BY DEF Columns, QuoteTypes
  <1> HIDE DEF F, C
  <1>3. /\ Len(F) = 8 /\ DOMAIN F = 1 .. 8
        /\ F[1] = UInt("msgtype", 1)
        /\ F[2] = UInt("locate_code", 4) /\ F[3] = String("country_code", 2)
        /\ F[4] = String("currency_code", 3) /\ F[5] = String("MIC", 4)
        /\ F[6] = UInt("product_type", 1) /\ F[7] = UInt("symbol_length", 1)
        /\ F[8] = String("symbol", 0)
    BY <1>1
  <1>4. /\ Len(C) = 8 /\ DOMAIN C = 1 .. 8
        /\ C[1] = Number("msgtype", 1)
        /\ C[2] = Number("locate_code", 4) /\ C[3] = Alpha("country_code", 2)
        /\ C[4] = Alpha("currency_code", 3) /\ C[5] = Alpha("MIC", 4)
        /\ C[6] = Number("product_type", 1) /\ C[7] = Number("symbol_length", 1)
        /\ C[8] = Alpha("symbol", 0)
    BY <1>2
  <1>5. ASSUME NEW i \in 1 .. 8
        PROVE  /\ Matches(F[i], C[i]) /\ MessageColumn(C[i])
               /\ C[i].len \in 1 .. 8 \/ Named(C[i], "symbol", "alpha", 0)
               /\ Named(C[i], "symbol", "alpha", 0) => i > 1 /\ C[i - 1] = Number("symbol_length", 1)
               /\ C[i].name \notin ElementNames /\ place[C[i].name] = i
    <2>1. CASE i = 1
      BY <1>3, <1>4, <2>1, PlainColumns DEF PlainNames, Named
    <2>2. CASE i = 2
      BY <1>3, <1>4, <2>2, PlainColumns DEF PlainNames, Named
    <2>3. CASE i = 3
      BY <1>3, <1>4, <2>3, PlainColumns DEF PlainNames, Named
    <2>4. CASE i = 4
      BY <1>3, <1>4, <2>4, PlainColumns DEF PlainNames, Named
    <2>5. CASE i = 5
      BY <1>3, <1>4, <2>5, PlainColumns DEF PlainNames, Named
    <2>6. CASE i = 6
      BY <1>3, <1>4, <2>6, PlainColumns DEF PlainNames, Named
    <2>7. CASE i = 7
      BY <1>3, <1>4, <2>7, PlainColumns DEF PlainNames, Named
    <2>8. CASE i = 8
      BY <1>3, <1>4, <2>8, PlainColumns DEF PlainNames, Named
    <2> QED BY <2>1, <2>2, <2>3, <2>4, <2>5, <2>6, <2>7, <2>8
  <1>6. Plain(F, C, 8, place)
    <2> HIDE DEF place
    <2> QED BY <1>3, <1>4, <1>5 DEF Plain
  <1> QED BY <1>6, PlainLaid DEF F, C

\* The five columns of a side, behind the first b.
Forms == {"short", "long", "extended"}
Block(F, C, b, of, form) ==
    /\ b \in Nat /\ of \in Sides /\ form \in Forms /\ Len(C) \in Nat /\ b + 5 <= Len(C)
    /\ F[b + 1] = UInt("center", 2) /\ F[b + 2] = Denominator(form)
    /\ F[b + 3] = Decimal("price", PriceSize(form))
    /\ F[b + 4] = UInt("size", IF form = "extended" THEN 4 ELSE 2) /\ F[b + 5] = ToSide(of)
    /\ C[b + 1] = Column(of, "center", "uint", 2) /\ C[b + 2] = DenominatorColumn(of, form)
    /\ C[b + 3] = PriceColumn(of, form)
    /\ C[b + 4] = Column(of, "size", "uint", IF form = "extended" THEN 4 ELSE 2)
    /\ C[b + 5] = SideColumn(of)
Pos == [center |-> 1, denominator |-> 2, price |-> 3, size |-> 4, side |-> 5]

LEMMA BlockLaid ==
  ASSUME NEW F, NEW C, NEW b, NEW of, NEW form, Block(F, C, b, of, form)
  PROVE  \A i \in b + 1 .. b + 5 :
            /\ Matches(F[i], C[i]) /\ (SideColumnAt(C, i) \/ DepthColumnAt(C, i))
            /\ C[i].kind \in {"uint", "price"} => C[i].len \in 1 .. 8
            /\ C[i].kind # "alpha" /\ C[i].of = of /\ i = b + Pos[C[i].name]
  <1> USE DEF Block
  <1>1. /\ C[b + 1].of = of /\ C[b + 1].name = "center" /\ C[b + 1].kind = "uint" /\ C[b + 1].len = 2
        /\ C[b + 3].of = of /\ C[b + 3].name = "price" /\ C[b + 3].kind = "price"
        /\ C[b + 3].len = PriceSize(form)
        /\ C[b + 4].of = of /\ C[b + 4].name = "size" /\ C[b + 4].kind = "uint"
        /\ C[b + 4].len = (IF form = "extended" THEN 4 ELSE 2)
    BY DEF Column, PriceColumn, PriceSize, Forms
  <1>2. /\ C[b + 2].of = of /\ C[b + 2].name = "denominator"
        /\ C[b + 2].kind = (IF form = "extended" THEN "uint" ELSE "implied")
        /\ C[b + 2].len = (IF form = "extended" THEN 1 ELSE Places(form))
    BY DEF Column, DenominatorColumn, Places, Forms
  <1>3. /\ C[b + 5].of = of /\ C[b + 5].name = "side"
        /\ C[b + 5].kind = (IF of = "given" THEN "side" ELSE "implied")
        /\ C[b + 5].len = (IF of = "given" THEN 1 ELSE 0)
    BY DEF Column, SideColumn
  <1>4. /\ b + 5 > 4 /\ (b + 5) - 4 = b + 1 /\ (b + 5) - 3 = b + 2 /\ (b + 5) - 2 = b + 3 /\ (b + 5) - 1 = b + 4
        /\ b + 1 + 4 = b + 5 /\ b + 2 + 3 = b + 5 /\ b + 3 + 2 = b + 5 /\ b + 4 + 1 = b + 5
        /\ (b + 3) - 1 = b + 2 /\ b + 3 > 1 /\ b + 5 \in 1 .. Len(C)
    OBVIOUS
  <1>5. SideColumnAt(C, b + 5)
    <2>1. ASSUME NEW n \in DepthNames
          PROVE  C[(b + 5) - Back[n]].of = of /\ C[(b + 5) - Back[n]].name = n
      <3>1. CASE n = "center"
        BY <1>1, <1>4, <3>1 DEF Back
      <3>2. CASE n = "denominator"
        BY <1>2, <1>4, <3>2 DEF Back
      <3>3. CASE n = "price"
        BY <1>1, <1>4, <3>3 DEF Back
      <3>4. CASE n = "size"
        BY <1>1, <1>4, <3>4 DEF Back
      <3> QED BY <3>1, <3>2, <3>3, <3>4 DEF DepthNames
    <2>2. C[b + 5].of \in Sides /\ \A n \in DepthNames : C[(b + 5) - Back[n]].of = C[b + 5].of
      BY <1>3, <2>1
    <2> HIDE DEF Block
    <2> QED BY <1>3, <1>4, <2>1, <2>2 DEF SideColumnAt
  <1>6. PriceSize(form) \in 1 .. 8 /\ Places(form) \in {2, 4} /\ of \in Sides
    BY DEF PriceSize, Places, Forms
  <1>7. /\ Matches(F[b + 1], C[b + 1]) /\ DepthColumnAt(C, b + 1)
        /\ C[b + 1].kind \in {"uint", "price"} => C[b + 1].len \in 1 .. 8
        /\ C[b + 1].kind # "alpha" /\ C[b + 1].of = of /\ b + 1 = b + Pos[C[b + 1].name]
    <2>1. Matches(F[b + 1], C[b + 1])
      BY <1>1, <1>6 DEF Matches, Denominator
    <2>2. DepthColumnAt(C, b + 1)
      <3>1. (b + 1) + Back[C[b + 1].name] = b + 5
        BY <1>1, <1>4 DEF Back
      <3>2. C[b + 1].name \in DepthNames /\ C[b + 1].of \in Sides /\ C[b + 5].of = C[b + 1].of
        BY <1>1, <1>3, <1>6 DEF DepthNames
      <3>3. C[b + 1].kind \in (CASE C[b + 1].name \in {"center", "size"} -> {"uint"}
                                [] C[b + 1].name = "price" -> {"price"}
                                [] C[b + 1].name = "denominator" -> {"uint", "implied"})
        BY <1>1
      <3>4. C[b + 1].name = "denominator" /\ C[b + 1].kind = "uint" => C[b + 1].len = 1
        BY <1>1
      <3>5. C[b + 1].name = "price" => /\ b + 1 > 1 /\ C[(b + 1) - 1].of = C[b + 1].of
                                      /\ C[(b + 1) - 1].name = "denominator"
        BY <1>1, <1>2, <1>4
      <3> HIDE DEF Block
      <3> QED BY <1>4, <1>5, <3>1, <3>2, <3>3, <3>4, <3>5 DEF DepthColumnAt
    <2> QED BY <1>1, <1>6, <2>1, <2>2 DEF Pos
  <1>8. /\ Matches(F[b + 2], C[b + 2]) /\ DepthColumnAt(C, b + 2)
        /\ C[b + 2].kind \in {"uint", "price"} => C[b + 2].len \in 1 .. 8
        /\ C[b + 2].kind # "alpha" /\ C[b + 2].of = of /\ b + 2 = b + Pos[C[b + 2].name]
    <2>1. Matches(F[b + 2], C[b + 2])
      BY <1>2, <1>6 DEF Matches, Denominator
    <2>2. DepthColumnAt(C, b + 2)
      <3>1. (b + 2) + Back[C[b + 2].name] = b + 5
        BY <1>2, <1>4 DEF Back
      <3>2. C[b + 2].name \in DepthNames /\ C[b + 2].of \in Sides /\ C[b + 5].of = C[b + 2].of
        BY <1>2, <1>3, <1>6 DEF DepthNames
      <3>3. C[b + 2].kind \in (CASE C[b + 2].name \in {"center", "size"} -> {"uint"}
                                [] C[b + 2].name = "price" -> {"price"}
                                [] C[b + 2].name = "denominator" -> {"uint", "implied"})
        BY <1>2
      <3>4. C[b + 2].name = "denominator" /\ C[b + 2].kind = "uint" => C[b + 2].len = 1
        BY <1>2
      <3>5. C[b + 2].name = "price" => /\ b + 2 > 1 /\ C[(b + 2) - 1].of = C[b + 2].of
                                      /\ C[(b + 2) - 1].name = "denominator"
        BY <1>1, <1>2, <1>4
      <3> HIDE DEF Block
      <3> QED BY <1>4, <1>5, <3>1, <3>2, <3>3, <3>4, <3>5 DEF DepthColumnAt
    <2> QED BY <1>2, <1>6, <2>1, <2>2 DEF Pos
  <1>9. /\ Matches(F[b + 3], C[b + 3]) /\ DepthColumnAt(C, b + 3)
        /\ C[b + 3].kind \in {"uint", "price"} => C[b + 3].len \in 1 .. 8
        /\ C[b + 3].kind # "alpha" /\ C[b + 3].of = of /\ b + 3 = b + Pos[C[b + 3].name]
    <2>1. Matches(F[b + 3], C[b + 3])
      BY <1>1, <1>6 DEF Matches, Denominator
    <2>2. DepthColumnAt(C, b + 3)
      <3>1. (b + 3) + Back[C[b + 3].name] = b + 5
        BY <1>1, <1>4 DEF Back
      <3>2. C[b + 3].name \in DepthNames /\ C[b + 3].of \in Sides /\ C[b + 5].of = C[b + 3].of
        BY <1>1, <1>3, <1>6 DEF DepthNames
      <3>3. C[b + 3].kind \in (CASE C[b + 3].name \in {"center", "size"} -> {"uint"}
                                [] C[b + 3].name = "price" -> {"price"}
                                [] C[b + 3].name = "denominator" -> {"uint", "implied"})
        BY <1>1
      <3>4. C[b + 3].name = "denominator" /\ C[b + 3].kind = "uint" => C[b + 3].len = 1
        BY <1>1
      <3>5. C[b + 3].name = "price" => /\ b + 3 > 1 /\ C[(b + 3) - 1].of = C[b + 3].of
                                      /\ C[(b + 3) - 1].name = "denominator"
        BY <1>1, <1>2, <1>4
      <3> HIDE DEF Block
      <3> QED BY <1>4, <1>5, <3>1, <3>2, <3>3, <3>4, <3>5 DEF DepthColumnAt
    <2> QED BY <1>1, <1>6, <2>1, <2>2 DEF Pos
  <1>10. /\ Matches(F[b + 4], C[b + 4]) /\ DepthColumnAt(C, b + 4)
         /\ C[b + 4].kind \in {"uint", "price"} => C[b + 4].len \in 1 .. 8
         /\ C[b + 4].kind # "alpha" /\ C[b + 4].of = of /\ b + 4 = b + Pos[C[b + 4].name]
    <2>1. Matches(F[b + 4], C[b + 4])
      BY <1>1, <1>6 DEF Matches, Denominator
    <2>2. DepthColumnAt(C, b + 4)
      <3>1. (b + 4) + Back[C[b + 4].name] = b + 5
        BY <1>1, <1>4 DEF Back
      <3>2. C[b + 4].name \in DepthNames /\ C[b + 4].of \in Sides /\ C[b + 5].of = C[b + 4].of
        BY <1>1, <1>3, <1>6 DEF DepthNames
      <3>3. C[b + 4].kind \in (CASE C[b + 4].name \in {"center", "size"} -> {"uint"}
                                [] C[b + 4].name = "price" -> {"price"}
                                [] C[b + 4].name = "denominator" -> {"uint", "implied"})
        BY <1>1
      <3>4. C[b + 4].name = "denominator" /\ C[b + 4].kind = "uint" => C[b + 4].len = 1
        BY <1>1
      <3>5. C[b + 4].name = "price" => /\ b + 4 > 1 /\ C[(b + 4) - 1].of = C[b + 4].of
                                      /\ C[(b + 4) - 1].name = "denominator"
        BY <1>1, <1>2, <1>4
      <3> HIDE DEF Block
      <3> QED BY <1>4, <1>5, <3>1, <3>2, <3>3, <3>4, <3>5 DEF DepthColumnAt
    <2> QED BY <1>1, <1>6, <2>1, <2>2 DEF Pos
  <1>11. /\ Matches(F[b + 5], C[b + 5]) /\ C[b + 5].kind \notin {"uint", "price", "alpha"}
         /\ C[b + 5].of = of /\ b + 5 = b + Pos[C[b + 5].name]
    BY <1>3 DEF Matches, Pos
  <1>12. ASSUME NEW i \in b + 1 .. b + 5
         PROVE  i = b + 1 \/ i = b + 2 \/ i = b + 3 \/ i = b + 4 \/ i = b + 5
    OBVIOUS
  <1> HIDE DEF Block
  <1> DEFINE Right(i) == /\ Matches(F[i], C[i]) /\ (SideColumnAt(C, i) \/ DepthColumnAt(C, i))
                         /\ C[i].kind \in {"uint", "price"} => C[i].len \in 1 .. 8
                         /\ C[i].kind # "alpha" /\ C[i].of = of /\ i = b + Pos[C[i].name]
  <1>13. Right(b + 1) /\ Right(b + 2) /\ Right(b + 3) /\ Right(b + 4)
    <2>1. Right(b + 1)
      BY <1>7, Zenon
    <2>2. Right(b + 2)
      BY <1>8, Zenon
    <2>3. Right(b + 3)
      BY <1>9, Zenon
    <2>4. Right(b + 4)
      BY <1>10, Zenon
    <2> QED BY <2>1, <2>2, <2>3, <2>4
  <1>14. Right(b + 5)
    BY <1>5, <1>11
  <1>15. ASSUME NEW i \in b + 1 .. b + 5 PROVE Right(i)
    <2> HIDE DEF Right
    <2> QED BY <1>12, <1>13, <1>14
  <1> QED BY <1>15

\* The columns around the sides.
Places7 == [msgtype |-> 1, protocol_id |-> 2, channel_index |-> 3, message_flag |-> 4,
            upstream_seqn |-> 5, upstream_nanos |-> 6, instrument_locate |-> 7]
Framed(F, C, n) ==
    /\ n \in Nat /\ n > 9 /\ Len(F) = n /\ Len(C) = n /\ DOMAIN F = 1 .. n /\ DOMAIN C = 1 .. n
    /\ F[1] = UInt("msgtype", 1) /\ F[2] = UInt("protocol_id", 1)
    /\ F[3] = UInt("channel_index", 1) /\ F[4] = UInt("message_flag", 1)
    /\ F[5] = UInt("upstream_seqn", 4) /\ F[6] = UInt("upstream_nanos", 4)
    /\ F[7] = UInt("instrument_locate", 4)
    /\ F[n - 1] = UInt("condition", 1) /\ F[n] = UInt("flags", 1)
    /\ C[1] = Number("msgtype", 1) /\ C[2] = Number("protocol_id", 1)
    /\ C[3] = Number("channel_index", 1) /\ C[4] = Number("message_flag", 1)
    /\ C[5] = Number("upstream_seqn", 4) /\ C[6] = Number("upstream_nanos", 4)
    /\ C[7] = Number("instrument_locate", 4)
    /\ C[n - 1] = Number("condition", 1) /\ C[n] = Number("flags", 1)

LEMMA FrameLaid ==
  ASSUME NEW F, NEW C, NEW n, Framed(F, C, n)
  PROVE  /\ \A i \in 1 .. 7 : /\ Matches(F[i], C[i]) /\ MessageColumn(C[i]) /\ C[i].kind = "uint"
                             /\ C[i].len \in 1 .. 8 /\ C[i].name \notin {"condition", "flags"}
                             /\ Places7[C[i].name] = i
         /\ \A i \in {n - 1, n} : /\ Matches(F[i], C[i]) /\ MessageColumn(C[i]) /\ C[i].kind = "uint"
                                 /\ C[i].len \in 1 .. 8
                                 /\ C[i].name = (IF i = n THEN "flags" ELSE "condition")
  <1>1. ASSUME NEW i \in 1 .. 7
        PROVE  /\ Matches(F[i], C[i]) /\ MessageColumn(C[i]) /\ C[i].kind = "uint"
               /\ C[i].len \in 1 .. 8 /\ C[i].name \notin {"condition", "flags"} /\ Places7[C[i].name] = i
    <2>1. CASE i = 1
      BY <2>1, PlainColumns DEF PlainNames, Named, Framed, Places7
    <2>2. CASE i = 2
      BY <2>2, PlainColumns DEF PlainNames, Named, Framed, Places7
    <2>3. CASE i = 3
      BY <2>3, PlainColumns DEF PlainNames, Named, Framed, Places7
    <2>4. CASE i = 4
      BY <2>4, PlainColumns DEF PlainNames, Named, Framed, Places7
    <2>5. CASE i = 5
      BY <2>5, PlainColumns DEF PlainNames, Named, Framed, Places7
    <2>6. CASE i = 6
      BY <2>6, PlainColumns DEF PlainNames, Named, Framed, Places7
    <2>7. CASE i = 7
      BY <2>7, PlainColumns DEF PlainNames, Named, Framed, Places7
    <2> QED BY <2>1, <2>2, <2>3, <2>4, <2>5, <2>6, <2>7
  <1>2. ASSUME NEW i \in {n - 1, n}
        PROVE  /\ Matches(F[i], C[i]) /\ MessageColumn(C[i]) /\ C[i].kind = "uint"
               /\ C[i].len \in 1 .. 8 /\ C[i].name = (IF i = n THEN "flags" ELSE "condition")
    <2>1. n - 1 # n
      BY DEF Framed
    <2>2. CASE i = n - 1
      BY <2>1, <2>2, PlainColumns DEF PlainNames, Named, Framed
    <2>3. CASE i = n
      BY <2>3, PlainColumns DEF PlainNames, Named, Framed
    <2> QED BY <2>2, <2>3
  <1> QED BY <1>1, <1>2

LEMMA FormIs == \A t \in QuoteTypes : Form(t) = SentForm(t) /\ Form(t) \in Forms
  BY DEF QuoteTypes, Form, SentForm, Forms

LEMMA OneSidedShape ==
  ASSUME NEW t \in QuoteTypes, ~TwoSided(t)
  PROVE  /\ Framed(Layout(t), Columns(t), 14)
         /\ Block(Layout(t), Columns(t), 7, "given", Form(t))
  <1> DEFINE form == Form(t)
             F == Layout(t)
             C == Columns(t)
             size == IF form = "extended" THEN 4 ELSE 2
             depth == << UInt("center", 2), Denominator(form), Decimal("price", PriceSize(form)),
                         UInt("size", size) >>
             columns(of) == << Column(of, "center", "uint", 2), DenominatorColumn(of, form),
                               PriceColumn(of, form), Column(of, "size", "uint", size), SideColumn(of) >>
  <1>1. F = << UInt("msgtype", 1), UInt("protocol_id", 1), UInt("channel_index", 1),
              UInt("message_flag", 1), UInt("upstream_seqn", 4), UInt("upstream_nanos", 4) >>
            \o << UInt("instrument_locate", 4) >> \o (depth \o << ToSide("given") >>)
            \o << UInt("condition", 1), UInt("flags", 1) >>
    BY LayoutOf DEF NbboFields, MarketHeader, Depth
  <1>2. C = << Number("msgtype", 1), Number("protocol_id", 1), Number("channel_index", 1),
              Number("message_flag", 1), Number("upstream_seqn", 4), Number("upstream_nanos", 4),
              Number("instrument_locate", 4) >>
            \o columns("given") \o << Number("condition", 1), Number("flags", 1) >>
    BY LayoutOf, FormIs DEF QuoteColumns, StandardHeader, SideColumns, TwoSided, QuoteTypes
  <1> HIDE DEF F, C, form, size
  <1>3. /\ Len(F) = 14 /\ DOMAIN F = 1 .. 14
        /\ F[1] = UInt("msgtype", 1) /\ F[2] = UInt("protocol_id", 1)
        /\ F[3] = UInt("channel_index", 1) /\ F[4] = UInt("message_flag", 1)
        /\ F[5] = UInt("upstream_seqn", 4) /\ F[6] = UInt("upstream_nanos", 4)
        /\ F[7] = UInt("instrument_locate", 4) /\ F[8] = UInt("center", 2)
        /\ F[9] = Denominator(form) /\ F[10] = Decimal("price", PriceSize(form))
        /\ F[11] = UInt("size", size) /\ F[12] = ToSide("given")
        /\ F[13] = UInt("condition", 1) /\ F[14] = UInt("flags", 1)
    BY <1>1
  <1>4. /\ Len(C) = 14 /\ DOMAIN C = 1 .. 14
        /\ C[1] = Number("msgtype", 1) /\ C[2] = Number("protocol_id", 1)
        /\ C[3] = Number("channel_index", 1) /\ C[4] = Number("message_flag", 1)
        /\ C[5] = Number("upstream_seqn", 4) /\ C[6] = Number("upstream_nanos", 4)
        /\ C[7] = Number("instrument_locate", 4) /\ C[8] = Column("given", "center", "uint", 2)
        /\ C[9] = DenominatorColumn("given", form) /\ C[10] = PriceColumn("given", form)
        /\ C[11] = Column("given", "size", "uint", size) /\ C[12] = SideColumn("given")
        /\ C[13] = Number("condition", 1) /\ C[14] = Number("flags", 1)
    BY <1>2
  <1>5. Framed(F, C, 14)
    BY <1>3, <1>4 DEF Framed
  <1>6. Block(F, C, 7, "given", form)
    BY <1>3, <1>4, FormIs DEF Block, Sides, form, size
  <1> QED BY <1>5, <1>6 DEF F, C, form

LEMMA TwoSidedShape ==
  ASSUME NEW t \in QuoteTypes, TwoSided(t)
  PROVE  /\ Framed(Layout(t), Columns(t), 19)
         /\ Block(Layout(t), Columns(t), 7, "bid", Form(t))
         /\ Block(Layout(t), Columns(t), 12, "ask", Form(t))
  <1> DEFINE form == Form(t)
             F == Layout(t)
             C == Columns(t)
             size == IF form = "extended" THEN 4 ELSE 2
             depth == << UInt("center", 2), Denominator(form), Decimal("price", PriceSize(form)),
                         UInt("size", size) >>
             columns(of) == << Column(of, "center", "uint", 2), DenominatorColumn(of, form),
                               PriceColumn(of, form), Column(of, "size", "uint", size), SideColumn(of) >>
  <1>1. F = << UInt("msgtype", 1), UInt("protocol_id", 1), UInt("channel_index", 1),
              UInt("message_flag", 1), UInt("upstream_seqn", 4), UInt("upstream_nanos", 4) >>
            \o << UInt("instrument_locate", 4) >> \o (depth \o << ToSide("bid") >> \o depth \o << ToSide("ask") >>)
            \o << UInt("condition", 1), UInt("flags", 1) >>
    BY LayoutOf DEF NbboFields, MarketHeader, Depth
  <1>2. C = << Number("msgtype", 1), Number("protocol_id", 1), Number("channel_index", 1),
              Number("message_flag", 1), Number("upstream_seqn", 4), Number("upstream_nanos", 4),
              Number("instrument_locate", 4) >>
            \o (columns("bid") \o columns("ask")) \o << Number("condition", 1), Number("flags", 1) >>
    BY LayoutOf, FormIs DEF QuoteColumns, StandardHeader, SideColumns, TwoSided, QuoteTypes
  <1> HIDE DEF F, C, form, size
  <1>3. /\ Len(F) = 19 /\ DOMAIN F = 1 .. 19
        /\ F[1] = UInt("msgtype", 1) /\ F[2] = UInt("protocol_id", 1)
        /\ F[3] = UInt("channel_index", 1) /\ F[4] = UInt("message_flag", 1)
        /\ F[5] = UInt("upstream_seqn", 4) /\ F[6] = UInt("upstream_nanos", 4)
        /\ F[7] = UInt("instrument_locate", 4) /\ F[8] = UInt("center", 2)
        /\ F[9] = Denominator(form) /\ F[10] = Decimal("price", PriceSize(form))
        /\ F[11] = UInt("size", size) /\ F[12] = ToSide("bid")
        /\ F[13] = UInt("center", 2) /\ F[14] = Denominator(form)
        /\ F[15] = Decimal("price", PriceSize(form)) /\ F[16] = UInt("size", size)
        /\ F[17] = ToSide("ask") /\ F[18] = UInt("condition", 1)
        /\ F[19] = UInt("flags", 1)
    BY <1>1
  <1>4. /\ Len(C) = 19 /\ DOMAIN C = 1 .. 19
        /\ C[1] = Number("msgtype", 1) /\ C[2] = Number("protocol_id", 1)
        /\ C[3] = Number("channel_index", 1) /\ C[4] = Number("message_flag", 1)
        /\ C[5] = Number("upstream_seqn", 4) /\ C[6] = Number("upstream_nanos", 4)
        /\ C[7] = Number("instrument_locate", 4) /\ C[8] = Column("bid", "center", "uint", 2)
        /\ C[9] = DenominatorColumn("bid", form) /\ C[10] = PriceColumn("bid", form)
        /\ C[11] = Column("bid", "size", "uint", size) /\ C[12] = SideColumn("bid")
        /\ C[13] = Column("ask", "center", "uint", 2) /\ C[14] = DenominatorColumn("ask", form)
        /\ C[15] = PriceColumn("ask", form) /\ C[16] = Column("ask", "size", "uint", size)
        /\ C[17] = SideColumn("ask") /\ C[18] = Number("condition", 1)
        /\ C[19] = Number("flags", 1)
    BY <1>2
  <1>5. Framed(F, C, 19)
    BY <1>3, <1>4 DEF Framed
  <1>6. Block(F, C, 7, "bid", form)
    BY <1>3, <1>4, FormIs DEF Block, Sides, form, size
  <1>7. Block(F, C, 12, "ask", form)
    BY <1>3, <1>4, FormIs DEF Block, Sides, form, size
  <1> QED BY <1>5, <1>6, <1>7 DEF F, C, form

LEMMA OneSidedLaid ==
  ASSUME NEW t \in QuoteTypes, ~TwoSided(t)
  PROVE  Laid(Layout(t), Columns(t))
  <1> DEFINE F == Layout(t)
             C == Columns(t)
             Fine(i) == /\ Matches(F[i], C[i])
                        /\ MessageColumn(C[i]) \/ SideColumnAt(C, i) \/ DepthColumnAt(C, i)
                        /\ C[i].kind \in {"uint", "price"} => C[i].len \in 1 .. 8
                        /\ C[i].kind # "alpha"
  <1>1. Framed(F, C, 14)
    BY OneSidedShape
  <1>2. Block(F, C, 7, "given", Form(t))
    BY OneSidedShape
  <1> HIDE DEF F, C
  <1>3. Len(F) = 14 /\ Len(C) = 14 /\ DOMAIN F = 1 .. 14 /\ DOMAIN C = 1 .. 14
    BY <1>1 DEF Framed
  <1>4. ASSUME NEW i \in 1 .. 7
        PROVE  /\ Fine(i) /\ C[i].of = "message" /\ C[i].name \notin {"condition", "flags"}
               /\ Places7[C[i].name] = i
    BY <1>1, FrameLaid DEF MessageColumn
  <1>5. ASSUME NEW i \in {13, 14}
        PROVE  /\ Fine(i) /\ C[i].of = "message"
               /\ C[i].name = (IF i = 14 THEN "flags" ELSE "condition")
    BY <1>1, FrameLaid DEF MessageColumn
  <1>6. ASSUME NEW i \in 8 .. 12
        PROVE  Fine(i) /\ C[i].of = "given" /\ i = 7 + Pos[C[i].name]
    <2>1. i \in 7 + 1 .. 7 + 5
      OBVIOUS
    <2> QED BY <1>2, <2>1, BlockLaid
  <1> HIDE DEF Fine
  <1>7. ASSUME NEW i \in 1 .. 14
        PROVE  i \in 1 .. 7 \/ i \in 8 .. 12 \/ i \in {13, 14}
    OBVIOUS
  <1>8. \A i \in 1 .. 14 : Fine(i)
    BY <1>4, <1>5, <1>6, <1>7
  <1>9. ASSUME NEW i \in 1 .. 14, NEW j \in 1 .. 14, C[i].of = C[j].of, C[i].name = C[j].name
        PROVE  i = j
    <2>1. CASE i \in 1 .. 7
      BY <1>9, <2>1, <1>4, <1>5, <1>6, <1>7
    <2>2. CASE i \in {13, 14}
      BY <1>9, <2>2, <1>4, <1>5, <1>6, <1>7
    <2>3. CASE i \in 8 .. 12
      <3>1. C[j].of = "given"
        BY <1>9, <2>3, <1>4, <1>5, <1>6, <1>7
      <3>2. j \in 8 .. 12
        BY <3>1, <1>4, <1>5, <1>6, <1>7
      <3> QED BY <1>9, <2>3, <3>2, <1>4, <1>5, <1>6, <1>7
    <2> QED BY <1>7, <2>1, <2>2, <2>3
  <1>10. \A i \in 1 .. 14 : C[i].of \in {"message", "given"}
    BY <1>4, <1>5, <1>6, <1>7
  <1>11. ASSUME NEW i \in 1 .. 14
         PROVE  /\ Matches(F[i], C[i])
                /\ MessageColumn(C[i]) \/ SideColumnAt(C, i) \/ DepthColumnAt(C, i)
                /\ C[i].kind \in {"uint", "price"} => C[i].len \in 1 .. 8
                /\ C[i].kind # "alpha"
    BY <1>8 DEF Fine
  <1>12. \A i, j \in 1 .. 14 : C[i].of = "given" => C[j].of \notin {"bid", "ask"}
    BY <1>10
  <1>13. Len(F) \in Nat \ {0} /\ Len(C) = Len(F)
    BY <1>3
  <1>14. Laid(F, C)
    <2>1. \A i, j \in 1 .. 14 : C[i].of = C[j].of /\ C[i].name = C[j].name => i = j
      BY <1>9
    <2> QED BY <1>3, <1>11, <1>12, <1>13, <2>1, ZenonT(40) DEF Laid
  <1> QED BY <1>14 DEF F, C

LEMMA TwoSidedLaid ==
  ASSUME NEW t \in QuoteTypes, TwoSided(t)
  PROVE  Laid(Layout(t), Columns(t))
  <1> DEFINE F == Layout(t)
             C == Columns(t)
             Fine(i) == /\ Matches(F[i], C[i])
                        /\ MessageColumn(C[i]) \/ SideColumnAt(C, i) \/ DepthColumnAt(C, i)
                        /\ C[i].kind \in {"uint", "price"} => C[i].len \in 1 .. 8
                        /\ C[i].kind # "alpha"
  <1>1. Framed(F, C, 19)
    BY TwoSidedShape
  <1>2. Block(F, C, 7, "bid", Form(t))
    BY TwoSidedShape
  <1>3. Block(F, C, 12, "ask", Form(t))
    BY TwoSidedShape
  <1> HIDE DEF F, C
  <1>4. Len(F) = 19 /\ Len(C) = 19 /\ DOMAIN F = 1 .. 19 /\ DOMAIN C = 1 .. 19
    BY <1>1 DEF Framed
  <1>5. ASSUME NEW i \in 1 .. 7
        PROVE  /\ Fine(i) /\ C[i].of = "message" /\ C[i].name \notin {"condition", "flags"}
               /\ Places7[C[i].name] = i
    BY <1>1, FrameLaid DEF MessageColumn
  <1>6. ASSUME NEW i \in {18, 19}
        PROVE  /\ Fine(i) /\ C[i].of = "message"
               /\ C[i].name = (IF i = 19 THEN "flags" ELSE "condition")
    BY <1>1, FrameLaid DEF MessageColumn
  <1>7. ASSUME NEW i \in 8 .. 12
        PROVE  Fine(i) /\ C[i].of = "bid" /\ i = 7 + Pos[C[i].name]
    <2>1. i \in 7 + 1 .. 7 + 5
      OBVIOUS
    <2> QED BY <1>2, <2>1, BlockLaid
  <1>8. ASSUME NEW i \in 13 .. 17
        PROVE  Fine(i) /\ C[i].of = "ask" /\ i = 12 + Pos[C[i].name]
    <2>1. i \in 12 + 1 .. 12 + 5
      OBVIOUS
    <2> QED BY <1>3, <2>1, BlockLaid
  <1> HIDE DEF Fine
  <1>9. ASSUME NEW i \in 1 .. 19
        PROVE  i \in 1 .. 7 \/ i \in 8 .. 12 \/ i \in 13 .. 17 \/ i \in {18, 19}
    OBVIOUS
  <1>10. \A i \in 1 .. 19 : Fine(i)
    BY <1>5, <1>6, <1>7, <1>8, <1>9
  <1>11. ASSUME NEW i \in 1 .. 19, NEW j \in 1 .. 19, C[i].of = C[j].of, C[i].name = C[j].name
        PROVE  i = j
    <2>1. CASE i \in 1 .. 7
      BY <1>11, <2>1, <1>5, <1>6, <1>7, <1>8, <1>9
    <2>2. CASE i \in {18, 19}
      BY <1>11, <2>2, <1>5, <1>6, <1>7, <1>8, <1>9
    <2>3. CASE i \in 8 .. 12
      <3>1. C[j].of = "bid"
        BY <1>11, <2>3, <1>5, <1>6, <1>7, <1>8, <1>9
      <3>2. j \in 8 .. 12
        BY <3>1, <1>5, <1>6, <1>7, <1>8, <1>9
      <3> QED BY <1>11, <2>3, <3>2, <1>5, <1>6, <1>7, <1>8, <1>9
    <2>4. CASE i \in 13 .. 17
      <3>1. C[j].of = "ask"
        BY <1>11, <2>4, <1>5, <1>6, <1>7, <1>8, <1>9
      <3>2. j \in 13 .. 17
        BY <3>1, <1>5, <1>6, <1>7, <1>8, <1>9
      <3> QED BY <1>11, <2>4, <3>2, <1>5, <1>6, <1>7, <1>8, <1>9
    <2> QED BY <1>9, <2>1, <2>2, <2>3, <2>4
  <1>12. \A i \in 1 .. 19 : C[i].of \in {"message", "bid", "ask"}
    BY <1>5, <1>6, <1>7, <1>8, <1>9
  <1>13. \A i, j \in 1 .. 19 : C[i].of = "given" => C[j].of \notin {"bid", "ask"}
    BY <1>12
  <1>14. \A i \in 1 .. 19 :
            /\ Matches(F[i], C[i])
            /\ MessageColumn(C[i]) \/ SideColumnAt(C, i) \/ DepthColumnAt(C, i)
            /\ C[i].kind \in {"uint", "price"} => C[i].len \in 1 .. 8
            /\ C[i].kind # "alpha"
    BY <1>10 DEF Fine
  <1>15. \A i, j \in 1 .. 19 : C[i].of = C[j].of /\ C[i].name = C[j].name => i = j
    BY <1>11
  <1>16. Laid(F, C)
    <2> HIDE DEF Fine
    <2> DEFINE n == 19
    <2>1. Len(F) = n /\ Len(C) = n /\ DOMAIN F = 1 .. n /\ DOMAIN C = 1 .. n /\ n \in Nat \ {0}
      BY <1>4
    <2>2. \A i \in 1 .. n :
            /\ Matches(F[i], C[i])
            /\ MessageColumn(C[i]) \/ SideColumnAt(C, i) \/ DepthColumnAt(C, i)
            /\ C[i].kind \in {"uint", "price"} => C[i].len \in 1 .. 8
            /\ C[i].kind # "alpha"
      BY <1>14
    <2>3. \A i, j \in 1 .. n : C[i].of = C[j].of /\ C[i].name = C[j].name => i = j
      BY <1>15
    <2>4. \A i, j \in 1 .. n : C[i].of = "given" => C[j].of \notin {"bid", "ask"}
      BY <1>13
    <2> HIDE DEF n
    <2> QED BY <2>1, <2>2, <2>3, <2>4 DEF Laid
  <1> QED BY <1>16 DEF F, C

\* Every layout goes with the columns of its type.
LEMMA LaidAll ==
  ASSUME NEW t \in ReadTypes
  PROVE  /\ Laid(Layout(t), Columns(t)) /\ t \in DefaultTypes \cup NbboTypes
         /\ t \notin QuoteTypes => Listable(Columns(t))
         /\ t \in NbboTypes <=> t \in QuoteTypes
  <1>1. t \in QuoteTypes => Laid(Layout(t), Columns(t))
    BY OneSidedLaid, TwoSidedLaid
  <1>2. t \notin QuoteTypes => Laid(Layout(t), Columns(t)) /\ Listable(Columns(t))
    BY Laid20, Laid22, Laid30, Laid33 DEF ReadTypes
  <1>3. /\ t \in DefaultTypes \cup NbboTypes
        /\ t \in NbboTypes <=> t \in QuoteTypes
    BY DEF ReadTypes, DefaultTypes, NbboTypes, QuoteTypes
  <1> QED BY <1>1, <1>2, <1>3

-----------------------------------------------------------------------------
\* Reading the parts of a message.

LEMMA MessageFacts ==
  ASSUME MessageInv
  PROVE  /\ InFormat(sent) /\ N \in Nat \ {0} /\ Len(sent.list) \in Nat /\ Parts(sent) = N + Len(sent.list)
         /\ raw_data \in Seq(Byte) /\ At(0) = 0 /\ At(Parts(sent)) = Len(raw_data)
         /\ \A p \in 0 .. Parts(sent) : At(p) \in 0 .. Len(raw_data)
         /\ \A p \in 1 .. Parts(sent) :
               /\ Piece(p) \in Seq(Byte) /\ At(p) = At(p - 1) + Len(Piece(p))
               /\ \A k \in 1 .. Len(Piece(p)) : raw_data[At(p - 1) + k] = Piece(p)[k]
         /\ \A p \in 1 .. N : Value(sent.values[p]) /\ Piece(p) = WireValue(sent.values[p])
         /\ \A j \in 1 .. Len(sent.list) : IsElement(sent.list[j]) /\ Piece(N + j) = WireElement(sent.list[j])
  <1>1. InFormat(sent) /\ raw_data = Wire(sent)
    BY MessagesAssumption DEF MessageInv
  <1>2. /\ N \in Nat \ {0} /\ Len(sent.list) \in Nat /\ Parts(sent) = N + Len(sent.list)
        /\ \A p \in 1 .. Parts(sent) : Piece(p) \in Seq(Byte)
        /\ \A p \in 1 .. N : Value(sent.values[p]) /\ Piece(p) = WireValue(sent.values[p])
        /\ \A j \in 1 .. Len(sent.list) : IsElement(sent.list[j]) /\ Piece(N + j) = WireElement(sent.list[j])
    BY <1>1, PieceFacts DEF N, Piece, Parts
  <1>3. /\ raw_data \in Seq(Byte) /\ At(0) = 0 /\ At(Parts(sent)) = Len(raw_data)
        /\ \A p \in 0 .. Parts(sent) : At(p) \in 0 .. Len(raw_data)
        /\ \A p \in 1 .. Parts(sent) :
              /\ At(p) = At(p - 1) + Len(Piece(p))
              /\ \A k \in 1 .. Len(Piece(p)) : raw_data[At(p - 1) + k] = Piece(p)[k]
    BY <1>1, Placed DEF At, Piece
  <1> QED BY <1>1, <1>2, <1>3

\* The bytes read inside a part.
LEMMA PartRead ==
  ASSUME MessageInv, NEW p \in 1 .. Parts(sent), NEW k \in Nat, NEW n \in Nat, k + n <= Len(Piece(p))
  PROVE  Bytes(At(p - 1) + k, n) = [i \in 1 .. n |-> Piece(p)[k + i]]
  <1>1. /\ Parts(sent) \in Nat /\ p - 1 \in 0 .. Parts(sent) /\ p \in 0 .. Parts(sent)
    BY MessageFacts
  <1>2. At(p - 1) \in Nat /\ At(p) <= Len(raw_data) /\ At(p) = At(p - 1) + Len(Piece(p))
    BY <1>1, MessageFacts
  <1>3. raw_data \in Seq(Byte) /\ Len(raw_data) \in Nat /\ DOMAIN raw_data = 1 .. Len(raw_data)
    BY MessageFacts
  <1>4. Piece(p) \in Seq(Byte) /\ Len(Piece(p)) \in Nat
    BY MessageFacts
  <1>5. ASSUME NEW i \in 1 .. n
        PROVE  /\ k + i \in 1 .. Len(Piece(p)) /\ (At(p - 1) + k) + i = At(p - 1) + (k + i)
               /\ (At(p - 1) + k) + i \in DOMAIN raw_data
    BY <1>2, <1>3, <1>4
  <1>6. \A j \in 1 .. Len(Piece(p)) : raw_data[At(p - 1) + j] = Piece(p)[j]
    BY MessageFacts
  <1>7. ASSUME NEW i \in 1 .. n PROVE raw_data[(At(p - 1) + k) + i] = Piece(p)[k + i]
    BY <1>5, <1>6
  <1> QED BY <1>5, <1>7 DEF Bytes

LEMMA WholePartRead ==
  ASSUME MessageInv, NEW p \in 1 .. Parts(sent)
  PROVE  Bytes(At(p - 1), Len(Piece(p))) = Piece(p)
  <1>1. Piece(p) \in Seq(Byte) /\ At(p - 1) \in Nat
    <2>1. p - 1 \in 0 .. Parts(sent)
      BY MessageFacts
    <2> QED BY <2>1, MessageFacts
  <1>2. Len(Piece(p)) \in Nat /\ 0 + Len(Piece(p)) <= Len(Piece(p)) /\ At(p - 1) + 0 = At(p - 1)
    BY <1>1
  <1>3. Bytes(At(p - 1), Len(Piece(p))) = [i \in 1 .. Len(Piece(p)) |-> Piece(p)[0 + i]]
    BY <1>2, PartRead
  <1>4. Piece(p) = [i \in 1 .. Len(Piece(p)) |-> Piece(p)[i]]
    BY <1>1
  <1>5. \A i \in 1 .. Len(Piece(p)) : 0 + i = i
    BY <1>2
  <1> QED BY <1>3, <1>4, <1>5

\* The type that was sent, or a negative number.
LEMMA TypeRead ==
  ASSUME MessageInv
  PROVE  /\ TypeSent(sent) \in Byte
         /\ type = IF TypeSent(sent) < 128 THEN TypeSent(sent) ELSE TypeSent(sent) - 256
  <1>1. 1 \in 1 .. N /\ 1 \in 1 .. Parts(sent)
    BY MessageFacts
  <1>2. Unsigned(TypeSent(sent), 1) /\ sent.values[1].len = 1
    BY MessageFacts DEF InFormat
  <1>3. TypeSent(sent) \in Byte /\ Piece(1) = << TypeSent(sent) >>
    <2>1. Piece(1) = BigEndian(TypeSent(sent), 1)
      BY <1>1, <1>2, MessageFacts, SMTT(40) DEF WireValue, TypeSent
    <2> QED BY <1>2, <2>1, OneByteSent
  <1>4. Bytes(At(1 - 1), Len(Piece(1))) = Piece(1)
    BY <1>1, WholePartRead
  <1>5. At(1 - 1) = 0 /\ Len(Piece(1)) = 1
    BY <1>3, MessageFacts
  <1>6. type = Int64(<< TypeSent(sent) >>)
    BY <1>3, <1>4, <1>5 DEF type
  <1> QED BY <1>3, <1>6, OneByte

\* The columns of a message that is read.
Ready == MessageInv /\ Regular(sent) /\ TypeSent(sent) \in ReadTypes

LEMMA ReadyFacts ==
  ASSUME Ready
  PROVE  /\ Laid(Fs, Cs) /\ N \in Nat \ {0} /\ Len(Fs) = N /\ Len(Cs) = N
         /\ DOMAIN sent.values = 1 .. N
         /\ \A i \in 1 .. N : /\ i \in 1 .. Parts(sent)
                              /\ Value(sent.values[i]) /\ Len(sent.values[i].bytes) < 128
                              /\ Piece(i) = WireValue(sent.values[i])
                              /\ Fills(sent.values[i], Cs[i], sent.values[IF i = 1 THEN 1 ELSE i - 1])
         /\ type = TypeSent(sent)
  <1>1. MessageInv /\ Regular(sent) /\ TypeSent(sent) \in ReadTypes
    BY DEF Ready
  <1>2. TypeSent(sent) \in SentTypes /\ TypeSent(sent) \in 0 .. 127
    BY <1>1 DEF ReadTypes, SentTypes, QuoteTypes
  <1>3. InFormat(sent) /\ N \in Nat \ {0} /\ Len(sent.list) \in Nat /\ Parts(sent) = N + Len(sent.list)
    BY <1>1, MessageFacts
  <1>4. /\ Len(Cs) = N /\ DOMAIN sent.values = 1 .. N
        /\ \A i \in 1 .. N : Fills(sent.values[i], Cs[i], sent.values[IF i = 1 THEN 1 ELSE i - 1])
    BY <1>2, <1>3 DEF InFormat, Cs, N
  <1>5. Laid(Fs, Cs)
    BY <1>1, LaidAll DEF Fs, Cs
  <1>6. Len(Fs) = N
    BY <1>4, <1>5 DEF Laid
  <1>7. \A i \in 1 .. N : i \in 1 .. Parts(sent)
    BY <1>3
  <1>8. \A i \in 1 .. N : Value(sent.values[i]) /\ Piece(i) = WireValue(sent.values[i])
    BY <1>1, MessageFacts
  <1>9. \A i \in 1 .. N : Len(sent.values[i].bytes) < 128
    BY <1>1, <1>4 DEF Regular
  <1>10. type = TypeSent(sent)
    BY <1>1, <1>2, TypeRead
  <1> QED BY <1>3, <1>4, <1>5, <1>6, <1>7, <1>8, <1>9, <1>10

LEMMA OneByteOf ==
  ASSUME NEW v \in Byte
  PROVE  BigEndian(v, 1) = << v >>
  <1>1. v \in Int
    BY DEF Byte
  <1>2. 1 \in Nat /\ 1 \in 1 .. 1 /\ 1 - 1 = 0
    OBVIOUS
  <1>3. v \div 256 = 0
    BY DEF Byte
  <1> HIDE DEF Byte
  <1>4. Shifted(v, 1)[1] = 0
    <2>1. Shifted(v, 1)[0] = v
      BY <1>1, <1>2, ShiftedFacts
    <2>2. ASSUME NEW n \in Nat, NEW w \in Int, n = 1
          PROVE  \A k \in 1 .. n : Shifted(w, n)[k] = Shifted(w, n)[k - 1] \div 256
      BY ShiftedFacts
    <2>3. \A k \in 1 .. 1 : Shifted(v, 1)[k] = Shifted(v, 1)[k - 1] \div 256
      BY <1>1, <1>2, <2>2
    <2> QED BY <1>2, <1>3, <2>1, <2>3
  <1>5. Unsigned(v, 1)
    BY <1>1, <1>4 DEF Unsigned
  <1> QED BY <1>5, OneByteSent

\* A field that reads a column.
Reads(f, kind, c) == f.kind = kind /\ f.name = c.name /\ f.len = c.len

\* What a column of each kind is read as and how many bytes it takes.
LEMMA KindFacts ==
  ASSUME Ready, NEW i \in 1 .. N
  PROVE  LET x == sent.values[i]
             c == Cs[i]
             f == Fs[i]
         IN  /\ c.kind \in {"uint", "alpha", "price", "side", "implied"} /\ Piece(i) \in Seq(Byte)
             /\ c.kind \in {"uint", "price"} =>
                   /\ c.len \in 1 .. 8 /\ x.len = c.len /\ x.v \in Int
                   /\ Piece(i) = BigEndian(x.v, x.len) /\ Len(Piece(i)) = c.len
             /\ c.kind = "uint" => Reads(f, "uint", c) /\ Unsigned(x.v, x.len)
             /\ c.kind = "price" => Reads(f, "decimal", c) /\ Fits(x.v, x.len)
             /\ c.kind = "alpha" =>
                   /\ Reads(f, "string", c) /\ Piece(i) = x.bytes /\ c.len \in Nat
                   /\ c.len # 0 => Len(Piece(i)) = c.len
                   /\ c.len = 0 => /\ c.name = "symbol" /\ i > 1 /\ Cs[i - 1] = Number("symbol_length", 1)
                                   /\ Len(Piece(i)) = sent.values[i - 1].v /\ Len(Piece(i)) < 128
             /\ c.kind = "implied" /\ c.name = "denominator" => Reads(f, "fix", c) /\ Piece(i) = << >>
             /\ c.kind \in {"implied", "side"} /\ c.name # "denominator" =>
                   c.name = "side" /\ c.of \in Sides /\ f = ToSide(c.of) /\ SideColumnAt(Cs, i)
             /\ c.name = "side" => c.kind \in {"implied", "side"} /\ SideColumnAt(Cs, i)
             /\ c.kind = "side" => c.name = "side"
             /\ c.name = "side" /\ c.of = "given" =>
                   Piece(i) = << x.v >> /\ x.v \in {CodeB, CodeS}
             /\ c.name = "side" /\ c.of # "given" => Piece(i) = << >>
  <1> DEFINE x == sent.values[i]
             c == Cs[i]
             f == Fs[i]
             before == sent.values[IF i = 1 THEN 1 ELSE i - 1]
  <1>1. /\ Matches(f, c) /\ (MessageColumn(c) \/ SideColumnAt(Cs, i) \/ DepthColumnAt(Cs, i))
        /\ c.kind \in {"uint", "price"} => c.len \in 1 .. 8
        /\ c.kind = "alpha" => c.len \in 0 .. 8
        /\ c.kind = "alpha" /\ c.len = 0 => c.name = "symbol" /\ i > 1 /\ Cs[i - 1] = Number("symbol_length", 1)
    BY ReadyFacts DEF Laid
  <1>2. Value(x) /\ Len(x.bytes) < 128 /\ Piece(i) = WireValue(x) /\ Fills(x, c, before)
    BY ReadyFacts
  <1>3. MessageColumn(c) => c.kind \in {"uint", "alpha"} /\ c.name \notin {"side", "denominator"}
    BY DEF MessageColumn, DepthNames
  <1>4. SideColumnAt(Cs, i) => /\ c.name = "side" /\ c.of \in Sides
                               /\ c.kind = (IF c.of = "given" THEN "side" ELSE "implied")
                               /\ c.len = (IF c.of = "given" THEN 1 ELSE 0)
    BY DEF SideColumnAt
  <1>5. DepthColumnAt(Cs, i) =>
           /\ c.name \in DepthNames /\ c.kind \in {"uint", "price", "implied"} /\ c.name # "side"
           /\ c.kind = "implied" => c.name = "denominator"
    <2> SUFFICES ASSUME DepthColumnAt(Cs, i)
                 PROVE  /\ c.name \in DepthNames /\ c.kind \in {"uint", "price", "implied"} /\ c.name # "side"
                        /\ c.kind = "implied" => c.name = "denominator"
      OBVIOUS
    <2>1. c.name \in DepthNames
      BY DEF DepthColumnAt
    <2>2. c.kind \in (CASE c.name \in {"center", "size"} -> {"uint"} [] c.name = "price" -> {"price"}
                        [] c.name = "denominator" -> {"uint", "implied"})
      BY DEF DepthColumnAt
    <2> QED BY <2>1, <2>2 DEF DepthNames
  <1>6. x.bytes \in Seq(Byte) /\ x.v \in Int /\ Piece(i) \in Seq(Byte)
        /\ Piece(i) = IF x.len = 0 THEN x.bytes ELSE BigEndian(x.v, x.len)
    BY <1>2, ValueBytes DEF Value, WireValue
  <1> HIDE DEF x, c, f, before
  <1>7. c.kind \in {"uint", "alpha", "price", "side", "implied"}
    BY <1>1, <1>3, <1>4, <1>5
  <1>8. ASSUME c.kind \in {"uint", "price"}
        PROVE  /\ c.len \in 1 .. 8 /\ x.len = c.len
               /\ Piece(i) = BigEndian(x.v, x.len) /\ Len(Piece(i)) = c.len
               /\ c.kind = "uint" => Reads(f, "uint", c) /\ Unsigned(x.v, x.len)
               /\ c.kind = "price" => Reads(f, "decimal", c) /\ Fits(x.v, x.len)
    <2>1. x.len = c.len
      BY <1>2, <1>8 DEF Fills
    <2>2. c.len \in 1 .. 8 /\ x.len # 0 /\ x.len \in Nat
      BY <1>1, <1>8, <2>1
    <2>3. c.kind = "uint" => Reads(f, "uint", c) /\ Unsigned(x.v, x.len)
      BY <1>1, <1>2 DEF Fills, Matches, Reads, UInt, Field
    <2>4. c.kind = "price" => Reads(f, "decimal", c) /\ Fits(x.v, x.len)
      BY <1>1, <1>2 DEF Fills, Matches, Reads, Decimal, Field
    <2>5. Piece(i) = BigEndian(x.v, x.len)
      BY <1>6, <2>2
    <2>6. Len(BigEndian(x.v, x.len)) = x.len
      BY <1>6, <2>2, BigEndianFacts, ZenonT(40)
    <2> QED BY <2>1, <2>2, <2>3, <2>4, <2>5, <2>6
  <1>9. ASSUME c.kind = "alpha"
        PROVE  /\ Reads(f, "string", c) /\ Piece(i) = x.bytes /\ c.len \in Nat
               /\ c.len # 0 => Len(Piece(i)) = c.len
               /\ c.len = 0 => Len(Piece(i)) = before.v /\ Len(Piece(i)) < 128
    <2>1. x.len = 0 /\ Len(x.bytes) = (IF c.len = 0 THEN before.v ELSE c.len)
      BY <1>2, <1>9 DEF Fills
    <2>2. Reads(f, "string", c)
      BY <1>1, <1>9 DEF Matches, Reads, String, Field
    <2> QED BY <1>1, <1>2, <1>6, <1>9, <2>1, <2>2
  <1>10. c.kind = "implied" => Piece(i) = << >>
    BY <1>2, <1>6 DEF Fills
  <1>11. c.kind = "implied" /\ c.name = "denominator" => Reads(f, "fix", c)
    BY <1>1 DEF Matches, Reads, Fix, Field
  <1>12. ASSUME c.kind \in {"implied", "side"}, c.name # "denominator"
         PROVE  c.name = "side" /\ c.of \in Sides /\ f = ToSide(c.of) /\ SideColumnAt(Cs, i)
    <2>1. SideColumnAt(Cs, i)
      BY <1>1, <1>3, <1>5, <1>12
    <2> QED BY <1>1, <1>4, <1>12, <2>1 DEF Matches
  <1>13. c.name = "side" => c.kind \in {"implied", "side"} /\ SideColumnAt(Cs, i)
    BY <1>1, <1>3, <1>4, <1>5
  <1>14. ASSUME c.name = "side", c.of = "given"
         PROVE  Piece(i) = << x.v >> /\ x.v \in {CodeB, CodeS}
    <2>1. c.kind = "side" /\ c.len = 1
      BY <1>4, <1>13, <1>14
    <2>2. x.len = 1 /\ x.v \in {CodeB, CodeS}
      BY <1>2, <2>1 DEF Fills
    <2>3. BigEndian(x.v, 1) = << x.v >>
      <3>1. x.v \in Byte
        BY <2>2 DEF Byte, CodeB, CodeS
      <3> QED BY <3>1, OneByteOf
    <2> QED BY <1>6, <2>2, <2>3
  <1>15. c.name = "side" /\ c.of # "given" => Piece(i) = << >>
    BY <1>4, <1>10, <1>13
  <1>16. c.kind = "side" => c.name = "side"
    BY <1>1, <1>3, <1>4, <1>5
  <1>17. i > 1 => before = sent.values[i - 1]
    BY DEF before
  <1> QED BY <1>1, <1>6, <1>7, <1>8, <1>9, <1>10, <1>11, <1>12, <1>13, <1>14, <1>15, <1>17, <1>16
          DEF x, c, f

\* A column keeps its value up to the side it belongs to.
LEMMA KeptUpToHere ==
  ASSUME Ready, NEW i \in 1 .. N, ReadUpTo(i), Cs[i].name # "side"
  PROVE  Cs[i].name \in DOMAIN rec /\ rec[Cs[i].name] = Worth(i)
  <1>1. N \in Nat
    BY ReadyFacts
  <1>2. Kept(i, i)
    BY <1>1 DEF Kept
  <1>3. i \in 1 .. i
    BY <1>1
  <1> QED BY <1>2, <1>3 DEF ReadUpTo, Holds

\* Every field takes as many bytes as the column it is read from.
LEMMA LengthRead ==
  ASSUME Ready, NEW i \in 1 .. N, ReadUpTo(i - 1)
  PROVE  Length(Fs[i]) = Len(Piece(i))
  <1> DEFINE c == Cs[i]
             f == Fs[i]
  <1>1. c.kind \in {"uint", "alpha", "price", "side", "implied"} /\ Piece(i) \in Seq(Byte)
    BY KindFacts
  <1>2. CASE c.kind \in {"uint", "price"}
    <2>1. f.kind \in {"uint", "decimal"} /\ f.len = c.len
      BY <1>2, KindFacts DEF Reads
    <2>2. Len(Piece(i)) = c.len
      BY <1>2, KindFacts
    <2> QED BY <2>1, <2>2 DEF Length
  <1>3. CASE c.kind = "alpha" /\ c.len # 0
    <2>1. f.kind = "string" /\ f.len = c.len
      BY <1>3, KindFacts DEF Reads
    <2>2. Len(Piece(i)) = c.len
      BY <1>3, KindFacts
    <2> QED BY <1>3, <2>1, <2>2 DEF Length
  <1>4. CASE c.kind = "alpha" /\ c.len = 0
    <2>1. /\ f.kind = "string" /\ f.len = 0 /\ f.name = "symbol"
          /\ i > 1 /\ Cs[i - 1] = Number("symbol_length", 1)
          /\ Len(Piece(i)) = sent.values[i - 1].v /\ Len(Piece(i)) < 128
      BY <1>4, KindFacts DEF Reads
    <2>2. i - 1 \in 1 .. N /\ N \in Nat
      BY <2>1, ReadyFacts
    <2>3. Cs[i - 1].kind = "uint" /\ Cs[i - 1].name = "symbol_length" /\ Cs[i - 1].len = 1
      BY <2>1 DEF Number, Column
    <2>4. /\ Reads(Fs[i - 1], "uint", Cs[i - 1])
          /\ Piece(i - 1) = BigEndian(sent.values[i - 1].v, 1) /\ Unsigned(sent.values[i - 1].v, 1)
      BY <2>2, <2>3, KindFacts
    <2>5. sent.values[i - 1].v \in Byte /\ Piece(i - 1) = << sent.values[i - 1].v >>
      BY <2>4, OneByteSent
    <2>6. Worth(i - 1) = Int64(<< sent.values[i - 1].v >>)
      BY <2>4, <2>5 DEF Worth, Number64, Reads
    <2>7. Worth(i - 1) = sent.values[i - 1].v
      BY <2>1, <2>5, <2>6, OneByte
    <2>8. rec["symbol_length"] = Worth(i - 1)
      <3>1. Cs[i - 1].name # "side"
        BY <2>3
      <3> QED BY <2>2, <2>3, <3>1, KeptUpToHere
    <2> QED BY <2>1, <2>7, <2>8 DEF Length, SizeOf
  <1>5. CASE c.kind = "implied" /\ c.name = "denominator"
    <2>1. f.kind = "fix" /\ Piece(i) = << >>
      BY <1>5, KindFacts DEF Reads
    <2> QED BY <2>1 DEF Length
  <1>6. CASE c.kind \in {"implied", "side"} /\ c.name # "denominator"
    <2>1. c.name = "side" /\ c.of \in Sides /\ f = ToSide(c.of)
      BY <1>6, KindFacts
    <2>2. f.kind = "side" /\ f.len = (IF c.of = "given" THEN 1 ELSE 0)
      BY <2>1 DEF ToSide, Field
    <2>3. c.of = "given" => Len(Piece(i)) = 1
      BY <2>1, KindFacts
    <2>4. c.of # "given" => Len(Piece(i)) = 0
      BY <2>1, KindFacts
    <2> QED BY <2>2, <2>3, <2>4 DEF Length
  <1>7. c.kind = "side" => c.name # "denominator"
    BY KindFacts
  <1> QED BY <1>1, <1>2, <1>3, <1>4, <1>5, <1>6, <1>7

\* The bytes of the field are the part that was sent.
LEMMA FieldBytes ==
  ASSUME Ready, NEW i \in 1 .. N, ReadUpTo(i - 1), offset = At(i - 1)
  PROVE  Bytes(offset, Length(Fs[i])) = Piece(i)
  <1>1. MessageInv /\ i \in 1 .. Parts(sent)
    BY ReadyFacts DEF Ready
  <1> QED BY <1>1, LengthRead, WholePartRead

LEMMA DenominatorBefore ==
  ASSUME Ready, NEW i \in 1 .. N, Cs[i].kind = "price"
  PROVE  /\ i > 1 /\ i - 1 \in 1 .. N /\ Cs[i - 1].name = "denominator" /\ Cs[i - 1].of = Cs[i].of
         /\ Fs[i - 1].kind \in {"uint", "fix"} /\ Cs[i].name # "side" /\ Cs[i].name = "price"
  <1>1. MessageColumn(Cs[i]) \/ SideColumnAt(Cs, i) \/ DepthColumnAt(Cs, i)
    BY ReadyFacts DEF Laid
  <1>2. DepthColumnAt(Cs, i)
    BY <1>1 DEF MessageColumn, SideColumnAt
  <1>3. Cs[i].name = "price"
    <2>1. Cs[i].name \in DepthNames
      BY <1>2 DEF DepthColumnAt
    <2>2. Cs[i].kind \in (CASE Cs[i].name \in {"center", "size"} -> {"uint"} [] Cs[i].name = "price" -> {"price"}
                            [] Cs[i].name = "denominator" -> {"uint", "implied"})
      BY <1>2 DEF DepthColumnAt
    <2> QED BY <2>1, <2>2 DEF DepthNames
  <1>4. i > 1 /\ Cs[i - 1].of = Cs[i].of /\ Cs[i - 1].name = "denominator"
    BY <1>2, <1>3 DEF DepthColumnAt
  <1>5. i - 1 \in 1 .. N
    BY <1>4, ReadyFacts
  <1>6. Cs[i - 1].kind \in {"uint", "implied"}
    <2>1. MessageColumn(Cs[i - 1]) \/ SideColumnAt(Cs, i - 1) \/ DepthColumnAt(Cs, i - 1)
      BY <1>5, ReadyFacts DEF Laid
    <2>2. DepthColumnAt(Cs, i - 1)
      BY <1>4, <2>1 DEF MessageColumn, SideColumnAt, DepthNames
    <2>3. Cs[i - 1].kind \in (CASE Cs[i - 1].name \in {"center", "size"} -> {"uint"}
                               [] Cs[i - 1].name = "price" -> {"price"}
                               [] Cs[i - 1].name = "denominator" -> {"uint", "implied"})
      BY <2>2 DEF DepthColumnAt
    <2> QED BY <1>4, <2>3
  <1>7. Fs[i - 1].kind \in {"uint", "fix"}
    <2>1. Cs[i - 1].kind = "uint" => Reads(Fs[i - 1], "uint", Cs[i - 1])
      BY <1>5, KindFacts
    <2>2. Cs[i - 1].kind = "implied" => Reads(Fs[i - 1], "fix", Cs[i - 1])
      BY <1>4, <1>5, KindFacts
    <2> QED BY <1>6, <2>1, <2>2 DEF Reads
  <1> QED BY <1>3, <1>4, <1>5, <1>7

\* A field of a column adds the value of the column to the record.
LEMMA FieldValue ==
  ASSUME Ready, NEW i \in 1 .. N, ReadUpTo(i - 1), offset = At(i - 1), Cs[i].name # "side"
  PROVE  With(Fs[i]) = Put(rec, Cs[i].name, Worth(i))
  <1> DEFINE c == Cs[i]
             f == Fs[i]
  <1>1. Bytes(offset, Length(f)) = Piece(i)
    BY FieldBytes
  <1>2. c.kind \in {"uint", "alpha", "price", "side", "implied"}
    BY KindFacts
  <1>3. CASE c.kind = "uint"
    <2>1. f.kind = "uint" /\ f.name = c.name
      BY <1>3, KindFacts DEF Reads
    <2> QED BY <1>1, <2>1 DEF With, Worth, Number64
  <1>4. CASE c.kind = "alpha"
    <2>1. f.kind = "string" /\ f.name = c.name
      BY <1>4, KindFacts DEF Reads
    <2> QED BY <1>1, <2>1 DEF With, Worth
  <1>5. CASE c.kind = "price"
    <2>1. f.kind = "decimal" /\ f.name = c.name
      BY <1>5, KindFacts DEF Reads
    <2>2. /\ i - 1 \in 1 .. N /\ Cs[i - 1].name = "denominator" /\ Fs[i - 1].kind \in {"uint", "fix"}
      BY <1>5, DenominatorBefore
    <2>3. "denominator" \in DOMAIN rec /\ rec["denominator"] = Worth(i - 1)
      <3>1. Cs[i - 1].name # "side"
        BY <2>2
      <3> QED BY <2>2, <3>1, KeptUpToHere
    <2>4. Worth(i - 1) = Number64(i - 1)
      BY <2>2 DEF Worth
    <2> QED BY <1>1, <2>1, <2>3, <2>4 DEF With, Worth
  <1>6. CASE c.kind \in {"side", "implied"}
    <2>1. c.name = "denominator" /\ c.kind = "implied"
      BY <1>6, KindFacts
    <2>2. f.kind = "fix" /\ f.name = c.name
      BY <2>1, KindFacts DEF Reads
    <2> QED BY <2>2 DEF With, Worth, Number64
  <1> QED BY <1>2, <1>3, <1>4, <1>5, <1>6

\* A side takes the depth that was read before it.
LEMMA FieldSide ==
  ASSUME Ready, NEW i \in 1 .. N, ReadUpTo(i - 1), offset = At(i - 1), Cs[i].name = "side"
  PROVE  With(Fs[i]) = Moved(SideNamed(i)) /\ SideNamed(i) \in {"bid", "ask"}
  <1> DEFINE c == Cs[i]
             f == Fs[i]
  <1>1. Bytes(offset, Length(f)) = Piece(i)
    BY FieldBytes
  <1>2. c.of \in Sides /\ f = ToSide(c.of)
    <2>1. c.kind \in {"implied", "side"} /\ c.name # "denominator"
      BY KindFacts
    <2> QED BY <2>1, KindFacts
  <1>3. f.kind = "side" /\ f.name = c.of
    BY <1>2 DEF ToSide, Field
  <1>4. CASE c.of = "given"
    <2>1. Piece(i) = << sent.values[i].v >> /\ sent.values[i].v \in {CodeB, CodeS}
      BY <1>4, KindFacts
    <2>2. Piece(i)[1] \in {CodeB, CodeS} /\ CodeB # CodeS
      BY <2>1 DEF CodeB, CodeS
    <2>3. SideNamed(i) = IF Piece(i)[1] = CodeB THEN "bid" ELSE "ask"
      BY <1>4 DEF SideNamed
    <2>4. With(f) = Moved(CASE Piece(i)[1] = CodeB -> "bid" [] Piece(i)[1] = CodeS -> "ask" [] OTHER -> "lost")
      BY <1>1, <1>3, <1>4 DEF With
    <2> QED BY <2>2, <2>3, <2>4
  <1>5. CASE c.of # "given"
    <2>1. SideNamed(i) = c.of /\ c.of \in {"bid", "ask"}
      BY <1>2, <1>5 DEF SideNamed, Sides
    <2> QED BY <1>3, <1>5, <2>1 DEF With
  <1> QED BY <1>4, <1>5

LEMMA PutFacts ==
  ASSUME NEW r, NEW name, NEW value
  PROVE  /\ name \in DOMAIN Put(r, name, value) /\ Put(r, name, value)[name] = value
         /\ \A n \in DOMAIN r : n \in DOMAIN Put(r, name, value)
         /\ \A n \in DOMAIN r : n # name => Put(r, name, value)[n] = r[n]
  BY DEF Put

LEMMA MovedFacts ==
  ASSUME NEW side, side \notin DepthNames
  PROVE  /\ side \in DOMAIN Moved(side) /\ DOMAIN Moved(side)[side] = DepthNames
         /\ \A n \in DepthNames : Moved(side)[side][n] = rec[n]
         /\ \A n \in DOMAIN rec : n \notin DepthNames => n \in DOMAIN Moved(side)
         /\ \A n \in DOMAIN rec : n \notin DepthNames /\ n # side => Moved(side)[n] = rec[n]
  BY DEF Moved, Put

LEMMA NameFacts ==
  ASSUME Ready, NEW i \in 1 .. N
  PROVE  /\ Cs[i].name # "side" => Cs[i].name \notin {"bid", "ask"}
         /\ Cs[i].of = "message" => Cs[i].name \notin DepthNames \cup {"bid", "ask", "side"}
         /\ Cs[i].name = "side" =>
               /\ Cs[i].of \in Sides /\ i > 4
               /\ \A n \in DepthNames : Cs[i - Back[n]].of = Cs[i].of /\ Cs[i - Back[n]].name = n
  <1>1. MessageColumn(Cs[i]) \/ SideColumnAt(Cs, i) \/ DepthColumnAt(Cs, i)
    BY ReadyFacts DEF Laid
  <1>2. MessageColumn(Cs[i]) => Cs[i].of = "message" /\ Cs[i].name \notin DepthNames \cup {"bid", "ask", "side"}
    BY DEF MessageColumn, Sides
  <1>3. DepthColumnAt(Cs, i) => Cs[i].of \in Sides /\ Cs[i].name \in DepthNames
    BY DEF DepthColumnAt
  <1>4. SideColumnAt(Cs, i) =>
           /\ Cs[i].name = "side" /\ Cs[i].of \in Sides /\ i > 4
           /\ \A n \in DepthNames : Cs[i - Back[n]].of = Cs[i].of /\ Cs[i - Back[n]].name = n
    BY DEF SideColumnAt
  <1>5. "message" \notin Sides /\ DepthNames \cap {"bid", "ask", "side"} = {}
    BY DEF Sides, DepthNames
  <1> QED BY <1>1, <1>2, <1>3, <1>4, <1>5

\* Two sides of a message have different names.
LEMMA SidesDiffer ==
  ASSUME Ready, NEW i \in 1 .. N, NEW j \in 1 .. N, i # j, Cs[i].name = "side", Cs[j].name = "side"
  PROVE  SideNamed(i) # SideNamed(j)
  <1>1. Cs[i].of # Cs[j].of
    BY ReadyFacts DEF Laid
  <1>2. Cs[i].of \in Sides /\ Cs[j].of \in Sides
    BY NameFacts
  <1>3. /\ Cs[i].of = "given" => Cs[j].of \notin {"bid", "ask"}
        /\ Cs[j].of = "given" => Cs[i].of \notin {"bid", "ask"}
    BY ReadyFacts DEF Laid
  <1> QED BY <1>1, <1>2, <1>3 DEF SideNamed, Sides

LEMMA SideIsNamed ==
  ASSUME Ready, NEW i \in 1 .. N, Cs[i].name = "side"
  PROVE  SideNamed(i) \in {"bid", "ask"}
  <1>1. Cs[i].of \in Sides
    BY NameFacts
  <1> QED BY <1>1 DEF SideNamed, Sides

\* The record after a value.
LEMMA HoldsAfterValue ==
  ASSUME Ready, NEW i \in 1 .. N, ReadUpTo(i - 1), Cs[i].name # "side"
  PROVE  Holds(Put(rec, Cs[i].name, Worth(i)), i)
  <1> DEFINE r == Put(rec, Cs[i].name, Worth(i))
  <1>1. N \in Nat /\ \A h \in 1 .. i : h \in 1 .. N /\ (h # i => h \in 1 .. i - 1)
    BY ReadyFacts
  <1>2. Cs[i].name \in DOMAIN r /\ r[Cs[i].name] = Worth(i)
    BY PutFacts
  <1>3. ASSUME NEW n \in DOMAIN rec, n # Cs[i].name PROVE n \in DOMAIN r /\ r[n] = rec[n]
    BY <1>3, PutFacts
  <1> HIDE DEF r
  <1>4. ASSUME NEW h \in 1 .. i, Kept(h, i) PROVE Cs[h].name \in DOMAIN r /\ r[Cs[h].name] = Worth(h)
    <2>1. CASE h = i
      BY <1>2, <2>1
    <2>2. CASE h # i
      <3>1. h \in 1 .. i - 1 /\ i \in h + 1 .. i
        BY <1>1, <2>2
      <3>2. Cs[h].name # Cs[i].name /\ Kept(h, i - 1)
        BY <1>1, <1>4, <3>1 DEF Kept
      <3>3. Cs[h].name \in DOMAIN rec /\ rec[Cs[h].name] = Worth(h)
        BY <3>1, <3>2 DEF ReadUpTo, Holds
      <3> QED BY <1>3, <3>2, <3>3
    <2> QED BY <2>1, <2>2
  <1>5. ASSUME NEW j \in 1 .. i, Cs[j].name = "side"
        PROVE  /\ SideNamed(j) \in DOMAIN r /\ DOMAIN r[SideNamed(j)] = DepthNames
               /\ \A n \in DepthNames : r[SideNamed(j)][n] = Worth(j - Back[n])
    <2>1. j \in 1 .. i - 1 /\ j \in 1 .. N
      BY <1>1, <1>5
    <2>2. /\ SideNamed(j) \in DOMAIN rec /\ DOMAIN rec[SideNamed(j)] = DepthNames
          /\ \A n \in DepthNames : rec[SideNamed(j)][n] = Worth(j - Back[n])
      BY <1>5, <2>1 DEF ReadUpTo, Holds
    <2>3. SideNamed(j) # Cs[i].name
      BY <1>5, <2>1, SideIsNamed, NameFacts
    <2>4. SideNamed(j) \in DOMAIN r /\ r[SideNamed(j)] = rec[SideNamed(j)]
      BY <1>3, <2>2, <2>3
    <2> QED BY <2>2, <2>4
  <1> QED BY <1>4, <1>5 DEF Holds, r

\* The record after a side.
LEMMA HoldsAfterSide ==
  ASSUME Ready, NEW i \in 1 .. N, ReadUpTo(i - 1), Cs[i].name = "side"
  PROVE  Holds(Moved(SideNamed(i)), i)
  <1> DEFINE side == SideNamed(i)
             r == Moved(side)
  <1>1. N \in Nat /\ \A h \in 1 .. i : h \in 1 .. N /\ (h # i => h \in 1 .. i - 1)
    BY ReadyFacts
  <1>2. side \in {"bid", "ask"} /\ side \notin DepthNames
    BY SideIsNamed DEF DepthNames
  <1>3. side \in DOMAIN r /\ DOMAIN r[side] = DepthNames /\ \A n \in DepthNames : r[side][n] = rec[n]
    BY <1>2, MovedFacts
  <1>4. ASSUME NEW n \in DOMAIN rec, n # side, n \notin DepthNames PROVE n \in DOMAIN r /\ r[n] = rec[n]
    BY <1>2, <1>4, MovedFacts
  <1> HIDE DEF r, side
  <1>5. ASSUME NEW h \in 1 .. i, Kept(h, i) PROVE Cs[h].name \in DOMAIN r /\ r[Cs[h].name] = Worth(h)
    <2>1. h # i
      BY <1>5 DEF Kept
    <2>2. h \in 1 .. i - 1 /\ i \in h + 1 .. i /\ h \in 1 .. N
      BY <1>1, <2>1
    <2>3. Cs[h].of = "message" /\ Kept(h, i - 1)
      BY <1>1, <1>5, <2>2 DEF Kept
    <2>4. Cs[h].name \in DOMAIN rec /\ rec[Cs[h].name] = Worth(h)
      BY <2>2, <2>3 DEF ReadUpTo, Holds
    <2>5. Cs[h].name \notin DepthNames /\ Cs[h].name # side
      BY <1>2, <2>2, <2>3, NameFacts
    <2> QED BY <1>4, <2>4, <2>5
  <1>6. ASSUME NEW n \in DepthNames PROVE rec[n] = Worth(i - Back[n])
    <2> DEFINE h == i - Back[n]
    <2>1. i > 4 /\ \A m \in DepthNames : Cs[i - Back[m]].name = m
      BY NameFacts
    <2>2. Back[n] \in 1 .. 4
      BY DEF Back, DepthNames
    <2>3. h \in 1 .. i - 1
      BY <1>1, <2>1, <2>2
    <2>4. ASSUME NEW k \in h + 1 .. i - 1 PROVE Cs[k].name # n /\ Cs[k].name # "side"
      <3>1. PICK m \in DepthNames : k = i - Back[m] /\ m # n
        <4>1. i - k \in 1 .. 3 /\ i - k # Back[n] /\ k = i - (i - k)
          BY <1>1, <2>1, <2>2, <2>3
        <4>2. i - k = 1 => Back["size"] = i - k /\ "size" \in DepthNames
          BY DEF Back, DepthNames
        <4>3. i - k = 2 => Back["price"] = i - k /\ "price" \in DepthNames
          BY DEF Back, DepthNames
        <4>4. i - k = 3 => Back["denominator"] = i - k /\ "denominator" \in DepthNames
          BY DEF Back, DepthNames
        <4>5. i - k = 1 \/ i - k = 2 \/ i - k = 3
          BY <4>1
        <4> QED BY <4>1, <4>2, <4>3, <4>4, <4>5
      <3>2. Cs[k].name = m
        BY <2>1, <3>1
      <3> QED BY <3>1, <3>2 DEF DepthNames
    <2>5. Cs[h].name = n /\ n # "side"
      BY <2>1 DEF DepthNames
    <2> HIDE DEF h
    <2>6. Kept(h, i - 1)
      BY <2>4, <2>5 DEF Kept
    <2>7. rec[Cs[h].name] = Worth(h)
      BY <2>3, <2>6 DEF ReadUpTo, Holds
    <2> QED BY <2>5, <2>7 DEF h
  <1>7. ASSUME NEW j \in 1 .. i, Cs[j].name = "side"
        PROVE  /\ SideNamed(j) \in DOMAIN r /\ DOMAIN r[SideNamed(j)] = DepthNames
               /\ \A n \in DepthNames : r[SideNamed(j)][n] = Worth(j - Back[n])
    <2>1. CASE j = i
      BY <1>3, <1>6, <2>1 DEF side
    <2>2. CASE j # i
      <3>1. j \in 1 .. i - 1 /\ j \in 1 .. N
        BY <1>1, <2>2
      <3>2. /\ SideNamed(j) \in DOMAIN rec /\ DOMAIN rec[SideNamed(j)] = DepthNames
            /\ \A n \in DepthNames : rec[SideNamed(j)][n] = Worth(j - Back[n])
        BY <1>7, <3>1 DEF ReadUpTo, Holds
      <3>3. SideNamed(j) # side
        BY <1>7, <2>2, <3>1, SidesDiffer DEF side
      <3>4. SideNamed(j) \in {"bid", "ask"} /\ SideNamed(j) \notin DepthNames
        BY <1>7, <3>1, SideIsNamed DEF DepthNames
      <3>5. SideNamed(j) \in DOMAIN r /\ r[SideNamed(j)] = rec[SideNamed(j)]
        BY <1>4, <3>2, <3>3, <3>4
      <3> QED BY <3>2, <3>5
    <2> QED BY <2>1, <2>2
  <1> QED BY <1>5, <1>7 DEF Holds, r, side

\* Reading a field that is next.
LEMMA FieldRead ==
  ASSUME Ready, NEW i \in 1 .. N, ReadUpTo(i - 1), offset = At(i - 1)
  PROVE  Holds(With(Fs[i]), i) /\ offset + Length(Fs[i]) = At(i) /\ Length(Fs[i]) \in Nat
  <1>1. Holds(With(Fs[i]), i)
    BY FieldValue, FieldSide, HoldsAfterValue, HoldsAfterSide
  <1>2. At(i) = At(i - 1) + Len(Piece(i))
    BY ReadyFacts, MessageFacts DEF Ready
  <1>3. Len(Piece(i)) \in Nat
    <2>1. Piece(i) \in Seq(Byte)
      BY KindFacts
    <2> QED BY <2>1
  <1> QED BY <1>1, <1>2, <1>3, LengthRead

\* The header and the data of an element, where the cursor is.
LEMMA ElementRead ==
  ASSUME MessageInv, NEW j \in 1 .. Len(sent.list), NEW from, from = At((N + j) - 1)
  PROVE  LET e == sent.list[j]
         IN  /\ from \in Nat
             /\ Bytes(from + 0, 1) = << Len(e.bytes) + e.len >> /\ Bytes(from + 1, 1) = << e.format >>
             /\ Bytes(from + 2, 1) = << e.code >>
             /\ Bytes(from + 3, Len(e.bytes)) = e.bytes
             /\ \A i \in 1 .. Len(e.bytes) : Bytes((from + 3) + (i - 1), 1) = << e.bytes[i] >>
             /\ Bytes((from + 3) + Len(e.bytes), e.len) = BigEndian(e.v, e.len)
             /\ At(N + j) = from + 3 + Len(e.bytes) + e.len
  <1> DEFINE e == sent.list[j]
             p == N + j
             w == Piece(p)
             b == BigEndian(e.v, e.len)
             d == e.bytes
             l == Len(e.bytes)
             q == e.len
  <1>1. IsElement(e) /\ w = WireElement(e) /\ p \in 1 .. Parts(sent) /\ p - 1 \in 0 .. Parts(sent)
    BY MessageFacts, SMTT(30)
  <1>2. /\ d \in Seq(Byte) /\ l \in Nat /\ l = Len(d) /\ q \in Nat
        /\ w \in Seq(Byte) /\ Len(w) = 3 + l + q
        /\ w[1] = l + q /\ w[2] = e.format /\ w[3] = e.code
        /\ \A i \in 1 .. l : w[3 + i] = d[i]
        /\ b \in Seq(Byte) /\ Len(b) = q
        /\ \A i \in 1 .. q : w[3 + l + i] = b[i]
    <2>1. /\ e.bytes \in Seq(Byte) /\ e.len \in 0 .. 8
          /\ WireElement(e) \in Seq(Byte) /\ Len(WireElement(e)) = 3 + Len(e.bytes) + e.len
          /\ WireElement(e)[1] = Len(e.bytes) + e.len
          /\ WireElement(e)[2] = e.format /\ WireElement(e)[3] = e.code
          /\ \A i \in 1 .. Len(e.bytes) : WireElement(e)[3 + i] = e.bytes[i]
          /\ BigEndian(e.v, e.len) \in Seq(Byte) /\ Len(BigEndian(e.v, e.len)) = e.len
          /\ \A i \in 1 .. e.len : WireElement(e)[3 + Len(e.bytes) + i] = BigEndian(e.v, e.len)[i]
      BY <1>1, ElementBytes, ZenonT(40)
    <2>2. Len(e.bytes) \in Nat /\ e.len \in Nat
      BY <2>1
    <2> QED BY <1>1, <2>1, <2>2
  <1>3. from \in Nat /\ At(p) = from + Len(w)
    BY <1>1, MessageFacts
  <1>4. ASSUME NEW k \in Nat, NEW n \in Nat, k + n <= Len(w)
        PROVE  Bytes(from + k, n) = [i \in 1 .. n |-> w[k + i]]
    BY <1>1, <1>4, PartRead
  <1> HIDE DEF e, p, w, b, d, l, q
  <1>5. ASSUME NEW k \in Nat, k + 1 <= Len(w) PROVE Bytes(from + k, 1) = << w[k + 1] >>
    <2>1. Bytes(from + k, 1) = [i \in 1 .. 1 |-> w[k + i]]
      BY <1>4, <1>5
    <2>2. [i \in 1 .. 1 |-> w[k + i]] = << w[k + 1] >>
      OBVIOUS
    <2> QED BY <2>1, <2>2
  <1>6. /\ Bytes(from + 0, 1) = << w[1] >> /\ Bytes(from + 1, 1) = << w[2] >> /\ Bytes(from + 2, 1) = << w[3] >>
    <2>1. 0 + 1 <= Len(w) /\ 1 + 1 <= Len(w) /\ 2 + 1 <= Len(w) /\ 0 + 1 = 1 /\ 1 + 1 = 2 /\ 2 + 1 = 3
      BY <1>2
    <2>2. Bytes(from + 0, 1) = << w[0 + 1] >> /\ Bytes(from + 1, 1) = << w[1 + 1] >>
          /\ Bytes(from + 2, 1) = << w[2 + 1] >>
      BY <1>5, <2>1
    <2> QED BY <2>1, <2>2
  <1>7. l \in Nat /\ q \in Nat /\ Len(w) = 3 + l + q
    BY <1>2
  <1>8. from \in Nat
    BY <1>3
  <1>9. Bytes(from + 3, l) = d
    <2>1. 3 + l <= Len(w) /\ 3 \in Nat
      BY <1>2
    <2>2. Bytes(from + 3, l) = [i \in 1 .. l |-> w[3 + i]]
      BY <1>2, <1>4, <2>1
    <2>3. d = [i \in 1 .. l |-> d[i]]
      BY <1>2
    <2> QED BY <1>2, <2>2, <2>3
  <1>10. ASSUME NEW i \in 1 .. l PROVE Bytes((from + 3) + (i - 1), 1) = << d[i] >>
    <2>1. /\ 3 + (i - 1) \in Nat /\ (3 + (i - 1)) + 1 <= Len(w) /\ (3 + (i - 1)) + 1 = 3 + i
          /\ (from + 3) + (i - 1) = from + (3 + (i - 1))
      BY <1>2, <1>3
    <2>2. Bytes(from + (3 + (i - 1)), 1) = << w[(3 + (i - 1)) + 1] >>
      BY <1>5, <2>1
    <2> QED BY <1>2, <2>1, <2>2
  <1>11. Bytes((from + 3) + l, q) = b
    <2>1. 3 + l \in Nat /\ (3 + l) + q <= Len(w) /\ (from + 3) + l = from + (3 + l)
      BY <1>7, <1>8
    <2>2. Bytes(from + (3 + l), q) = [i \in 1 .. q |-> w[(3 + l) + i]]
      BY <1>2, <1>4, <2>1
    <2>3. b = [i \in 1 .. q |-> b[i]]
      BY <1>2
    <2> QED BY <1>2, <2>1, <2>2, <2>3
  <1>12. At(p) = from + 3 + l + q
    BY <1>3, <1>7, <1>8
  <1> QED BY <1>2, <1>3, <1>6, <1>9, <1>10, <1>11, <1>12 DEF e, p, b, d, l, q

\* The code of an element's name.
CodeNamed == [root |-> 1, put_or_call |-> 2, expiration_date |-> 3, strike |-> 4, high |-> 65, low |-> 66,
              last |-> 67, open |-> 68, total_volume |-> 70, net_change |-> 71, open_interest |-> 72,
              tick |-> 73, value_bid |-> 74, value_ask |-> 75, parent_locate_code |-> 81, underlying_price |-> 100]

\* How the data of a kind are read.
KindRead(kind) == IF kind = "alpha" THEN "string" ELSE IF kind = "price" THEN "decimal" ELSE kind

LEMMA ElementFacts ==
  /\ ElementCodes = ValueTypes
  /\ \A code \in ValueTypes :
        /\ Element(code).name \in ElementNames
        /\ code < 128 => /\ ValueKind(code) \in {"alpha", "uint", "date", "price"}
                         /\ Element(code).kind = KindRead(ValueKind(code))
                         /\ CodeNamed[Element(code).name] = code
  <1>1. ElementCodes = ValueTypes
    <2>1. \A code : code \in ElementCodes <=> code \in ValueTypes
      BY DEF ElementCodes, ValueTypes
    <2> QED BY <2>1
  <1>2. \A code \in ValueTypes : Element(code).name \in ElementNames
    BY <1>1 DEF ElementNames
  <1>3. ASSUME NEW code \in ValueTypes, code < 128
        PROVE  /\ ValueKind(code) \in {"alpha", "uint", "date", "price"}
               /\ Element(code).kind = KindRead(ValueKind(code))
               /\ CodeNamed[Element(code).name] = code
    <2>1. CASE code = 1
      <3>1. ValueKind(1) = "alpha" /\ Element(1).kind = "string" /\ Element(1).name = "root"
        BY DEF ValueKind, Element, String, UInt, Decimal, Field
      <3>2. CodeNamed["root"] = 1
        BY DEF CodeNamed
      <3> QED BY <2>1, <3>1, <3>2 DEF KindRead
    <2>2. CASE code = 2
      <3>1. ValueKind(2) = "alpha" /\ Element(2).kind = "string" /\ Element(2).name = "put_or_call"
        BY DEF ValueKind, Element, String, UInt, Decimal, Field
      <3>2. CodeNamed["put_or_call"] = 2
        BY DEF CodeNamed
      <3> QED BY <2>2, <3>1, <3>2 DEF KindRead
    <2>3. CASE code = 3
      <3>1. ValueKind(3) = "date" /\ Element(3).kind = "date" /\ Element(3).name = "expiration_date"
        BY DEF ValueKind, Element, String, UInt, Decimal, Field
      <3>2. CodeNamed["expiration_date"] = 3
        BY DEF CodeNamed
      <3> QED BY <2>3, <3>1, <3>2 DEF KindRead
    <2>4. CASE code = 4
      <3>1. ValueKind(4) = "price" /\ Element(4).kind = "decimal" /\ Element(4).name = "strike"
        BY DEF ValueKind, Element, String, UInt, Decimal, Field
      <3>2. CodeNamed["strike"] = 4
        BY DEF CodeNamed
      <3> QED BY <2>4, <3>1, <3>2 DEF KindRead
    <2>5. CASE code = 65
      <3>1. ValueKind(65) = "price" /\ Element(65).kind = "decimal" /\ Element(65).name = "high"
        BY DEF ValueKind, Element, String, UInt, Decimal, Field
      <3>2. CodeNamed["high"] = 65
        BY DEF CodeNamed
      <3> QED BY <2>5, <3>1, <3>2 DEF KindRead
    <2>6. CASE code = 66
      <3>1. ValueKind(66) = "price" /\ Element(66).kind = "decimal" /\ Element(66).name = "low"
        BY DEF ValueKind, Element, String, UInt, Decimal, Field
      <3>2. CodeNamed["low"] = 66
        BY DEF CodeNamed
      <3> QED BY <2>6, <3>1, <3>2 DEF KindRead
    <2>7. CASE code = 67
      <3>1. ValueKind(67) = "price" /\ Element(67).kind = "decimal" /\ Element(67).name = "last"
        BY DEF ValueKind, Element, String, UInt, Decimal, Field
      <3>2. CodeNamed["last"] = 67
        BY DEF CodeNamed
      <3> QED BY <2>7, <3>1, <3>2 DEF KindRead
    <2>8. CASE code = 68
      <3>1. ValueKind(68) = "price" /\ Element(68).kind = "decimal" /\ Element(68).name = "open"
        BY DEF ValueKind, Element, String, UInt, Decimal, Field
      <3>2. CodeNamed["open"] = 68
        BY DEF CodeNamed
      <3> QED BY <2>8, <3>1, <3>2 DEF KindRead
    <2>9. CASE code = 70
      <3>1. ValueKind(70) = "uint" /\ Element(70).kind = "uint" /\ Element(70).name = "total_volume"
        BY DEF ValueKind, Element, String, UInt, Decimal, Field
      <3>2. CodeNamed["total_volume"] = 70
        BY DEF CodeNamed
      <3> QED BY <2>9, <3>1, <3>2 DEF KindRead
    <2>10. CASE code = 71
      <3>1. ValueKind(71) = "price" /\ Element(71).kind = "decimal" /\ Element(71).name = "net_change"
        BY DEF ValueKind, Element, String, UInt, Decimal, Field
      <3>2. CodeNamed["net_change"] = 71
        BY DEF CodeNamed
      <3> QED BY <2>10, <3>1, <3>2 DEF KindRead
    <2>11. CASE code = 72
      <3>1. ValueKind(72) = "uint" /\ Element(72).kind = "uint" /\ Element(72).name = "open_interest"
        BY DEF ValueKind, Element, String, UInt, Decimal, Field
      <3>2. CodeNamed["open_interest"] = 72
        BY DEF CodeNamed
      <3> QED BY <2>11, <3>1, <3>2 DEF KindRead
    <2>12. CASE code = 73
      <3>1. ValueKind(73) = "price" /\ Element(73).kind = "decimal" /\ Element(73).name = "tick"
        BY DEF ValueKind, Element, String, UInt, Decimal, Field
      <3>2. CodeNamed["tick"] = 73
        BY DEF CodeNamed
      <3> QED BY <2>12, <3>1, <3>2 DEF KindRead
    <2>13. CASE code = 74
      <3>1. ValueKind(74) = "price" /\ Element(74).kind = "decimal" /\ Element(74).name = "value_bid"
        BY DEF ValueKind, Element, String, UInt, Decimal, Field
      <3>2. CodeNamed["value_bid"] = 74
        BY DEF CodeNamed
      <3> QED BY <2>13, <3>1, <3>2 DEF KindRead
    <2>14. CASE code = 75
      <3>1. ValueKind(75) = "price" /\ Element(75).kind = "decimal" /\ Element(75).name = "value_ask"
        BY DEF ValueKind, Element, String, UInt, Decimal, Field
      <3>2. CodeNamed["value_ask"] = 75
        BY DEF CodeNamed
      <3> QED BY <2>14, <3>1, <3>2 DEF KindRead
    <2>15. CASE code = 81
      <3>1. ValueKind(81) = "uint" /\ Element(81).kind = "uint" /\ Element(81).name = "parent_locate_code"
        BY DEF ValueKind, Element, String, UInt, Decimal, Field
      <3>2. CodeNamed["parent_locate_code"] = 81
        BY DEF CodeNamed
      <3> QED BY <2>15, <3>1, <3>2 DEF KindRead
    <2>16. CASE code = 100
      <3>1. ValueKind(100) = "price" /\ Element(100).kind = "decimal" /\ Element(100).name = "underlying_price"
        BY DEF ValueKind, Element, String, UInt, Decimal, Field
      <3>2. CodeNamed["underlying_price"] = 100
        BY DEF CodeNamed
      <3> QED BY <2>16, <3>1, <3>2 DEF KindRead
    <2>17. code \in {1, 2, 3, 4, 65, 66, 67, 68, 70, 71, 72, 73, 74, 75, 81, 100}
      BY <1>3 DEF ValueTypes
    <2> QED BY <2>1, <2>2, <2>3, <2>4, <2>5, <2>6, <2>7, <2>8,
               <2>9, <2>10, <2>11, <2>12, <2>13, <2>14, <2>15, <2>16, <2>17
  <1> QED BY <1>1, <1>2, <1>3

\* The form of an element whose type the decoder knows.
LEMMA ElementShape ==
  ASSUME NEW e, IsElement(e), e.code \in ValueTypes, e.code < 128
  PROVE  LET kind == ValueKind(e.code)
         IN  /\ kind \in {"alpha", "uint", "date", "price"} /\ e.format < 128
             /\ e.format \in Formats(Element(e.code).kind)
             /\ kind = "alpha" => e.len = 0
             /\ kind = "uint" => e.bytes = << >> /\ e.len \in 1 .. 8 /\ Unsigned(e.v, e.len)
             /\ kind = "date" => /\ Len(e.bytes) = 2 /\ e.len = 2 /\ Unsigned(e.v, 2)
                                 /\ e.bytes[1] \in 1 .. 12 /\ e.bytes[2] \in 1 .. 31
             /\ kind = "price" =>
                   /\ e.len \in 1 .. 8 /\ Fits(e.v, e.len) /\ e.format \in {1, 2, 3}
                   /\ e.format # 3 => e.bytes = << >>
                   /\ e.format = 3 => Len(e.bytes) = 1
                   /\ e.format # 3 => e.len = 8 \/ PlacesOf(e) = 2 * e.format
                   /\ e.format # 3 /\ e.len = 8 => e.format = 2
  <1> DEFINE kind == ValueKind(e.code)
  <1>1. kind \in {"alpha", "uint", "date", "price"} /\ Element(e.code).kind = KindRead(kind)
    BY ElementFacts
  <1>2. e.len \in 0 .. 8
    BY ElementBytes
  <1> HIDE DEF kind
  <1>3. CASE kind = "alpha"
    <2>1. e.code \in {1, 2, 143}
      BY <1>3 DEF ValueKind, ValueTypes, kind
    <2>2. e.format \in {15, 22} /\ e.len = 0
      <3>1. CASE e.code = 2
        <4>1. ValueKind(2) = "alpha"
          BY DEF ValueKind
        <4> QED BY <3>1, <4>1 DEF IsElement
      <3>2. CASE e.code \in {1, 143}
        <4>1. ValueKind(1) = "alpha" /\ ValueKind(143) = "alpha"
          BY DEF ValueKind
        <4> QED BY <3>2, <4>1 DEF IsElement
      <3> QED BY <2>1, <3>1, <3>2
    <2> QED BY <1>1, <1>3, <2>2 DEF KindRead, Formats, kind
  <1>4. CASE kind = "uint"
    <2>1. e.format \in 7 .. 10 /\ e.bytes = << >> /\ Unsigned(e.v, e.len) /\ e.len = <<1, 2, 4, 8>>[e.format - 6]
      BY <1>4 DEF IsElement, kind
    <2>2. e.len \in 1 .. 8
      BY <2>1
    <2> QED BY <1>1, <1>4, <2>1, <2>2 DEF KindRead, Formats, kind
  <1>5. CASE kind = "date"
    <2>1. /\ e.format = 16 /\ Len(e.bytes) = 2 /\ e.bytes[1] \in 1 .. 12 /\ e.bytes[2] \in 1 .. 31
          /\ e.len = 2 /\ Unsigned(e.v, 2)
      BY <1>5 DEF IsElement, kind
    <2> QED BY <1>1, <1>5, <2>1 DEF KindRead, Formats, kind
  <1>6. CASE kind = "price"
    <2>1. /\ e.len # 0 /\ Fits(e.v, e.len)
          /\ \/ e.format = 1 /\ e.bytes = << >> /\ e.len = 2
             \/ e.format = 2 /\ e.bytes = << >> /\ e.len \in {4, 8}
             \/ e.format = 3 /\ Len(e.bytes) = 1
      BY <1>6 DEF IsElement, kind
    <2>2. e.len \in 1 .. 8 /\ e.format \in {1, 2, 3}
      BY <1>2, <2>1
    <2> QED BY <1>1, <1>6, <2>1, <2>2 DEF KindRead, Formats, PlacesOf, kind
  <1> QED BY <1>1, <1>3, <1>4, <1>5, <1>6 DEF kind

\* An element of a message that is read.
LEMMA ReadyElement ==
  ASSUME Ready, NEW j \in 1 .. Len(sent.list)
  PROVE  LET e == sent.list[j]
         IN  IsElement(e) /\ Len(e.bytes) + e.len \in 1 .. 127
  <1>1. IsElement(sent.list[j]) /\ InFormat(sent)
    BY MessageFacts DEF Ready
  <1>2. DOMAIN sent.list = 1 .. Len(sent.list)
    BY <1>1 DEF InFormat
  <1>3. Len(sent.list[j].bytes) + sent.list[j].len \in 1 .. 255
    BY <1>1, ElementBytes
  <1>4. Len(sent.list[j].bytes) + sent.list[j].len < 128
    BY <1>2 DEF Ready, Regular
  <1>5. \A x \in 1 .. 255 : x < 128 => x \in 1 .. 127
    OBVIOUS
  <1> QED BY <1>1, <1>3, <1>4, <1>5, ZenonT(40)

LEMMA HeaderRead ==
  ASSUME Ready, NEW j \in 1 .. Len(sent.list), offset = At((N + j) - 1)
  PROVE  LET e == sent.list[j]
             header == [i \in 1 .. 3 |-> Int64(Bytes(offset + i - 1, 1))]
         IN  /\ header[1] = Len(e.bytes) + e.len
             /\ header[2] = IF e.format < 128 THEN e.format ELSE e.format - 256
             /\ header[3] = IF e.code < 128 THEN e.code ELSE e.code - 256
  <1> DEFINE e == sent.list[j]
             l == Len(e.bytes) + e.len
  <1>1. IsElement(e) /\ l \in 1 .. 127 /\ MessageInv
    BY ReadyElement DEF Ready
  <1>2. e.code \in Byte /\ e.format \in Byte /\ l \in Byte
    <2>1. e.code \in Byte /\ e.format \in Byte
      BY <1>1, ElementBytes
    <2>2. \A x \in 1 .. 127 : x \in Byte
      BY DEF Byte
    <2> QED BY <1>1, <2>1, <2>2
  <1>3. /\ offset \in Nat /\ Bytes(offset + 0, 1) = << l >> /\ Bytes(offset + 1, 1) = << e.format >>
        /\ Bytes(offset + 2, 1) = << e.code >>
    BY <1>1, ElementRead
  <1> HIDE DEF e, l
  <1>4. offset + (1 - 1) = offset + 0 /\ offset + (2 - 1) = offset + 1 /\ offset + (3 - 1) = offset + 2
    BY <1>3
  <1>5. Int64(Bytes(offset + (1 - 1), 1)) = l
    BY <1>1, <1>2, <1>3, <1>4, OneByte
  <1>6. Int64(Bytes(offset + (2 - 1), 1)) = IF e.format < 128 THEN e.format ELSE e.format - 256
    BY <1>2, <1>3, <1>4, OneByte
  <1>7. Int64(Bytes(offset + (3 - 1), 1)) = IF e.code < 128 THEN e.code ELSE e.code - 256
    BY <1>2, <1>3, <1>4, OneByte
  <1> QED BY <1>5, <1>6, <1>7 DEF e, l

LEMMA NumericRead ==
  ASSUME NEW from, NEW len, len # 0
  PROVE  Numeric(from, len) = Int64(Bytes(from, len))
  BY DEF Numeric

LEMMA ListValueRead ==
  ASSUME Ready, NEW j \in 1 .. Len(sent.list), offset = At((N + j) - 1), sent.list[j].code \in ReadValues
  PROVE  LET e == sent.list[j]
         IN  ElementValue(Element(e.code).kind, e.format, offset + 3, Len(e.bytes) + e.len) = ListWorth(e)
  <1> DEFINE e == sent.list[j]
             l == Len(e.bytes)
             from == offset + 3
             kind == ValueKind(e.code)
             number == Int64(BigEndian(e.v, e.len))
  <1>1. IsElement(e) /\ e.code \in ValueTypes /\ e.code < 128 /\ MessageInv
    BY ReadyElement DEF Ready, ReadValues
  <1>2. /\ kind \in {"alpha", "uint", "date", "price"}
        /\ kind = "alpha" => e.len = 0
        /\ kind = "uint" => e.bytes = << >> /\ e.len \in 1 .. 8
        /\ kind = "date" => l = 2 /\ e.len = 2 /\ e.bytes[1] \in 1 .. 12 /\ e.bytes[2] \in 1 .. 31
        /\ kind = "price" =>
              /\ e.len \in 1 .. 8 /\ e.format \in {1, 2, 3}
              /\ e.format # 3 => e.bytes = << >>
              /\ e.format = 3 => l = 1
    BY <1>1, ElementShape
  <1>3. Element(e.code).kind = KindRead(kind)
    BY <1>1, ElementFacts
  <1>4. /\ offset \in Nat /\ Bytes(from, l) = e.bytes /\ Bytes(from + l, e.len) = BigEndian(e.v, e.len)
        /\ \A i \in 1 .. l : Bytes(from + (i - 1), 1) = << e.bytes[i] >>
    BY <1>1, ElementRead
  <1>5. /\ ListWorth(e) = CASE kind = "alpha" -> e.bytes
                            [] kind = "uint" -> number
                            [] kind = "date" -> 10000 * number + 100 * e.bytes[1] + e.bytes[2]
                            [] kind = "price" ->
                                 [num |-> number,
                                  den |-> IF e.format = 3 THEN Int64(<< e.bytes[1] >>) ELSE 2 * e.format]
    BY DEF ListWorth
  <1>6. from + 0 = from /\ e.bytes \in Seq(Byte) /\ from \in Nat
    BY <1>1, <1>4, ElementBytes, SMTT(40)
  <1>7. l \in Nat /\ e.len \in Nat
    BY <1>1, <1>6, ElementBytes
  <1>0. e.bytes = << >> => l = 0
    OBVIOUS
  <1> HIDE DEF e, from, kind, number, l
  <1>8. ASSUME kind = "alpha"
       PROVE  ElementValue(Element(e.code).kind, e.format, from, l + e.len) = ListWorth(e)
    <2>1. l + e.len = l
      BY <1>2, <1>7, <1>8
    <2>2. ElementValue("string", e.format, from, l + e.len) = e.bytes
      BY <1>4, <2>1 DEF ElementValue
    <2> QED BY <1>3, <1>5, <1>8, <2>2 DEF KindRead
  <1>9. ASSUME kind = "uint"
       PROVE  ElementValue(Element(e.code).kind, e.format, from, l + e.len) = ListWorth(e)
    <2>0. l = 0 /\ e.len # 0
      BY <1>0, <1>2, <1>9
    <2>1. l = 0 /\ l + e.len = e.len /\ from + l = from /\ e.len # 0
      BY <1>6, <1>7, <2>0
    <2>2. Bytes(from, e.len) = BigEndian(e.v, e.len)
      BY <1>4, <2>1
    <2>3. ElementValue("uint", e.format, from, l + e.len) = number
      BY <2>1, <2>2, NumericRead DEF ElementValue, number
    <2> QED BY <1>3, <1>5, <1>9, <2>3 DEF KindRead
  <1>10. ASSUME kind = "date"
        PROVE  ElementValue(Element(e.code).kind, e.format, from, l + e.len) = ListWorth(e)
    <2>1. l = 2 /\ e.len = 2 /\ e.bytes[1] \in 1 .. 12 /\ e.bytes[2] \in 1 .. 31
      BY <1>2, <1>10
    <2>2. Bytes(from, 1) = << e.bytes[1] >> /\ Bytes(from + 1, 1) = << e.bytes[2] >>
      <3>1. 1 \in 1 .. l /\ 2 \in 1 .. l /\ 1 - 1 = 0 /\ 2 - 1 = 1
        BY <2>1
      <3>2. Bytes(from + (1 - 1), 1) = << e.bytes[1] >> /\ Bytes(from + (2 - 1), 1) = << e.bytes[2] >>
        BY <1>4, <3>1
      <3> QED BY <1>6, <3>1, <3>2
    <2>3. Int64(<< e.bytes[1] >>) = e.bytes[1] /\ Int64(<< e.bytes[2] >>) = e.bytes[2]
      <3>1. \A x \in 1 .. 31 : x \in Byte /\ x < 128
        BY DEF Byte
      <3>2. e.bytes[1] \in 1 .. 31 /\ e.bytes[2] \in 1 .. 31
        BY <2>1
      <3> QED BY <3>1, <3>2, OneByte
    <2>4. Bytes(from + 2, 2) = BigEndian(e.v, e.len)
      BY <1>4, <2>1
    <2>5. ElementValue("date", e.format, from, l + e.len)
             = 10000 * Int64(Bytes(from + 2, 2)) + 100 * Int64(Bytes(from, 1)) + Int64(Bytes(from + 1, 1))
      BY DEF ElementValue
    <2>6. ElementValue("date", e.format, from, l + e.len) = 10000 * number + 100 * e.bytes[1] + e.bytes[2]
      BY <2>2, <2>3, <2>4, <2>5 DEF number
    <2> QED BY <1>3, <1>5, <1>10, <2>6 DEF KindRead
  <1>11. ASSUME kind = "price"
        PROVE  ElementValue(Element(e.code).kind, e.format, from, l + e.len) = ListWorth(e)
    <2>1. ASSUME e.format = 3
          PROVE  ElementValue(Element(e.code).kind, e.format, from, l + e.len) = ListWorth(e)
      <3>1. l = 1 /\ e.len # 0
        BY <1>2, <1>11, <2>1
      <3>2. (l + e.len) - 1 = e.len /\ 1 \in 1 .. l /\ 1 - 1 = 0
        BY <1>7, <3>1
      <3>3. Bytes(from + (1 - 1), 1) = << e.bytes[1] >>
        BY <1>4, <3>2
      <3>4. Bytes(from, 1) = << e.bytes[1] >>
        BY <1>6, <3>2, <3>3
      <3>5. Bytes(from + 1, (l + e.len) - 1) = BigEndian(e.v, e.len)
        BY <1>4, <3>1, <3>2
      <3>6. ElementValue("decimal", e.format, from, l + e.len)
               = [num |-> Int64(Bytes(from + 1, (l + e.len) - 1)), den |-> Int64(Bytes(from, 1))]
        BY <2>1, <3>1, <3>2, NumericRead DEF ElementValue
      <3>7. ElementValue("decimal", e.format, from, l + e.len) = [num |-> number, den |-> Int64(<< e.bytes[1] >>)]
        BY <3>4, <3>5, <3>6 DEF number
      <3> QED BY <1>3, <1>5, <1>11, <2>1, <3>7 DEF KindRead
    <2>2. ASSUME e.format # 3
          PROVE  ElementValue(Element(e.code).kind, e.format, from, l + e.len) = ListWorth(e)
      <3>0. l = 0 /\ e.len # 0
        BY <1>0, <1>2, <1>11, <2>2
      <3>1. l = 0 /\ l + e.len = e.len /\ from + l = from /\ e.len # 0
        BY <1>6, <1>7, <3>0
      <3>2. Bytes(from, e.len) = BigEndian(e.v, e.len)
        BY <1>4, <3>1
      <3>3. ElementValue("decimal", e.format, from, l + e.len) = [num |-> number, den |-> 2 * e.format]
        BY <2>2, <3>1, <3>2, NumericRead DEF ElementValue, number
      <3> QED BY <1>3, <1>5, <1>11, <2>2, <3>3 DEF KindRead
    <2> QED BY <2>1, <2>2
  <1>12. ElementValue(Element(e.code).kind, e.format, from, l + e.len) = ListWorth(e)
    BY <1>2, <1>8, <1>9, <1>10, <1>11
  <1> QED BY <1>12 DEF e, from, l

\* No element has the name of a column.
LEMMA HoldsAfterElement ==
  ASSUME Ready, TypeSent(sent) \notin QuoteTypes, ReadUpTo(N), NEW name \in ElementNames, NEW value
  PROVE  Holds(Put(rec, name, value), N)
  <1> DEFINE r == Put(rec, name, value)
  <1>1. \A i \in 1 .. N : Cs[i].of = "message" /\ Cs[i].name # name
    <2>1. Listable(Cs) /\ Len(Cs) = N
      BY LaidAll, ReadyFacts DEF Ready, Cs
    <2> QED BY <2>1 DEF Listable
  <1>2. \A i \in 1 .. N : Cs[i].name # "side"
    BY <1>1, NameFacts DEF Sides
  <1>3. \A n \in DOMAIN rec : n # name => n \in DOMAIN r /\ r[n] = rec[n]
    BY PutFacts
  <1> HIDE DEF r
  <1> QED BY <1>1, <1>2, <1>3 DEF Holds, ReadUpTo, r

\* The list after an element that is read, and after one that is not.
LEMMA ListsAfterElement ==
  ASSUME Ready, NEW j \in 1 .. Len(sent.list), ListedUpTo(j - 1)
  PROVE  LET e == sent.list[j]
         IN  /\ e.code \in ReadValues => Lists(Put(rec, Element(e.code).name, ListWorth(e)), j)
             /\ e.code \notin ReadValues => Lists(rec, j)
  <1> DEFINE e == sent.list[j]
             name == Element(e.code).name
             r == Put(rec, name, ListWorth(e))
  <1>1. Len(sent.list) \in Nat
    BY MessageFacts DEF Ready
  <1>2. ASSUME NEW h \in 1 .. j, h # j, Single(h, j)
        PROVE  /\ h \in 1 .. j - 1 /\ Single(h, j - 1)
               /\ Element(sent.list[h].code).name \in DOMAIN rec
               /\ rec[Element(sent.list[h].code).name] = ListWorth(sent.list[h])
               /\ e.code # sent.list[h].code /\ sent.list[h].code \in ReadValues
    <2>1. h \in 1 .. j - 1 /\ j \in 1 .. j
      BY <1>1, <1>2
    <2>2. Single(h, j - 1)
      BY <1>1, <1>2 DEF Single
    <2>3. e.code # sent.list[h].code /\ sent.list[h].code \in ReadValues
      BY <1>2, <2>1 DEF Single
    <2>4. /\ Element(sent.list[h].code).name \in DOMAIN rec
          /\ rec[Element(sent.list[h].code).name] = ListWorth(sent.list[h])
      BY <2>1, <2>2 DEF ListedUpTo, Lists
    <2> QED BY <2>1, <2>2, <2>3, <2>4
  <1>3. ASSUME e.code \in ReadValues PROVE Lists(r, j)
    <2>1. name \in DOMAIN r /\ r[name] = ListWorth(e)
      BY PutFacts
    <2>2. ASSUME NEW n \in DOMAIN rec, n # name PROVE n \in DOMAIN r /\ r[n] = rec[n]
      BY <2>2, PutFacts
    <2>3. e.code \in ValueTypes /\ e.code < 128
      BY <1>3 DEF ReadValues
    <2>4. ASSUME NEW h \in 1 .. j, Single(h, j)
          PROVE  /\ Element(sent.list[h].code).name \in DOMAIN r
                 /\ r[Element(sent.list[h].code).name] = ListWorth(sent.list[h])
      <3>1. CASE h = j
        BY <2>1, <3>1
      <3>2. CASE h # j
        <4>1. /\ Element(sent.list[h].code).name \in DOMAIN rec
              /\ rec[Element(sent.list[h].code).name] = ListWorth(sent.list[h])
              /\ e.code # sent.list[h].code /\ sent.list[h].code \in ReadValues
          BY <1>2, <2>4, <3>2
        <4>2. sent.list[h].code \in ValueTypes /\ sent.list[h].code < 128
          BY <4>1 DEF ReadValues
        <4>3. /\ CodeNamed[Element(sent.list[h].code).name] = sent.list[h].code
              /\ CodeNamed[name] = e.code
          BY <2>3, <4>2, ElementFacts
        <4>4. Element(sent.list[h].code).name # name
          BY <4>1, <4>3
        <4> QED BY <2>2, <4>1, <4>4
      <3> QED BY <3>1, <3>2
    <2> HIDE DEF r
    <2> QED BY <2>4 DEF Lists
  <1>4. ASSUME e.code \notin ReadValues PROVE Lists(rec, j)
    <2>1. ASSUME NEW h \in 1 .. j, Single(h, j)
          PROVE  /\ Element(sent.list[h].code).name \in DOMAIN rec
                 /\ rec[Element(sent.list[h].code).name] = ListWorth(sent.list[h])
      <3>1. h # j
        BY <1>4, <2>1 DEF Single
      <3> QED BY <1>2, <2>1, <3>1
    <2> QED BY <2>1 DEF Lists
  <1> QED BY <1>3, <1>4

\* Decoding the element that is next.
LEMMA ElementStep ==
  ASSUME Ready, TypeSent(sent) \notin QuoteTypes, NEW j \in 1 .. Len(sent.list),
         offset = At((N + j) - 1), ReadUpTo(N), ListedUpTo(j - 1), DecodeElement
  PROVE  pc' = pc /\ offset' = At(N + j) /\ Holds(rec', N) /\ Lists(rec', j)
  <1> DEFINE e == sent.list[j]
             len == Len(e.bytes) + e.len
             header == [i \in 1 .. 3 |-> Int64(Bytes(offset + i - 1, 1))]
             f == Element(header[3])
             reads == header[3] \in ElementCodes /\ header[2] \in Formats(f.kind)
             size == IF f.kind = "date" THEN 4
                     ELSE IF f.kind = "decimal" /\ header[2] = 3 THEN header[1] - 1 ELSE header[1]
  <1>1. /\ IsElement(e) /\ len \in 1 .. 127 /\ MessageInv
        /\ e.code \in ReadValues => e.code \in ValueTypes /\ e.code < 128
    BY ReadyElement DEF Ready, ReadValues
  <1>2. /\ header[1] = len
        /\ header[2] = IF e.format < 128 THEN e.format ELSE e.format - 256
        /\ header[3] = IF e.code < 128 THEN e.code ELSE e.code - 256
    BY HeaderRead
  <1>3. \/ reads /\ size < 0
        \/ /\ reads /\ rec' = Put(rec, f.name, ElementValue(f.kind, header[2], offset + 3, header[1]))
           /\ offset' = Past(header[1]) /\ pc' = pc
        \/ ~reads /\ offset' = Past(header[1]) /\ rec' = rec /\ pc' = pc
    BY DEF DecodeElement
  <1>4. e.code \in Byte
    BY <1>1, ElementBytes
  <1>5. Past(len) = At(N + j)
    <2>1. offset \in Nat /\ At(N + j) = offset + 3 + Len(e.bytes) + e.len
      BY <1>1, ElementRead
    <2>2. Len(e.bytes) \in Nat /\ e.len \in Nat
      <3>1. e.bytes \in Seq(Byte) /\ e.len \in 0 .. 8
        BY <1>1, ElementBytes
      <3> QED BY <3>1
    <2> HIDE DEF e
    <2> QED BY <2>1, <2>2 DEF Past
  <1> HIDE DEF header
  <1>6. ASSUME e.code \in ReadValues PROVE reads /\ header[3] = e.code /\ header[2] = e.format
    <2>1. e.format < 128 /\ e.format \in Formats(Element(e.code).kind)
      BY <1>1, <1>6, ElementShape
    <2>2. header[3] = e.code /\ header[2] = e.format
      BY <1>1, <1>2, <1>6, <2>1
    <2> QED BY <1>1, <1>6, <2>1, <2>2, ElementFacts
  <1>7. ASSUME e.code \notin ReadValues PROVE ~reads
    <2>1. CASE e.code < 128
      BY <1>2, <1>7, <2>1, ElementFacts DEF ReadValues
    <2>2. CASE ~(e.code < 128)
      <3>1. \A x \in Byte : ~(x < 128) => x - 256 \notin ElementCodes
        BY DEF ElementCodes, Byte
      <3>2. header[3] = e.code - 256
        BY <1>2, <2>2
      <3> QED BY <1>4, <2>2, <3>1, <3>2
    <2> QED BY <2>1, <2>2
  <1>8. ~(size < 0)
    <2>1. (\A x \in 1 .. 127 : ~(x < 0) /\ ~(x - 1 < 0)) /\ ~(4 < 0)
      OBVIOUS
    <2>2. size \in {4, len - 1, len}
      BY <1>2
    <2> HIDE DEF size, len
    <2> QED BY <1>1, <2>1, <2>2
  <1>9. CASE e.code \in ReadValues
    <2>1. rec' = Put(rec, Element(e.code).name, ElementValue(Element(e.code).kind, e.format, offset + 3, len))
          /\ offset' = Past(len) /\ pc' = pc
      BY <1>2, <1>3, <1>6, <1>8, <1>9
    <2>2. ElementValue(Element(e.code).kind, e.format, offset + 3, len) = ListWorth(e)
      BY <1>9, ListValueRead
    <2>3. Lists(rec', j)
      BY <1>9, <2>1, <2>2, ListsAfterElement
    <2>4. Holds(rec', N)
      <3>1. Element(e.code).name \in ElementNames
        BY <1>1, <1>9, ElementFacts
      <3> QED BY <2>1, <3>1, HoldsAfterElement
    <2> QED BY <1>5, <2>1, <2>3, <2>4
  <1>10. CASE e.code \notin ReadValues
    <2>1. rec' = rec /\ offset' = Past(len) /\ pc' = pc
      BY <1>2, <1>3, <1>7, <1>10
    <2>2. Lists(rec, j) /\ Holds(rec, N)
      BY <1>10, ListsAfterElement DEF ReadUpTo
    <2> QED BY <1>5, <2>1, <2>2
  <1> QED BY <1>9, <1>10

-----------------------------------------------------------------------------
\* The invariant.

\* What is said of the message alone is the same after a step.
LEMMA Carried ==
  ASSUME sent' = sent, shift' = shift
  PROVE  /\ N' = N /\ Fs' = Fs /\ Cs' = Cs /\ \A p : At(p)' = At(p)
         /\ \A k : Holds(rec', k) => ReadUpTo(k)'
         /\ \A n : Lists(rec', n) => ListedUpTo(n)'
  <1>1. N' = N /\ Fs' = Fs /\ Cs' = Cs /\ (\A p : At(p)' = At(p)) /\ (\A p : Piece(p)' = Piece(p))
    BY DEF N, Fs, Cs, At, Piece
  <1>2. \A b : Int64(b)' = Int64(b)
    BY DEF Int64
  <1>3. \A i : Number64(i)' = Number64(i)
    BY <1>1, <1>2 DEF Number64
  <1>4. \A i : Worth(i)' = Worth(i)
    BY <1>1, <1>2, <1>3 DEF Worth
  <1>5. \A i, k : Kept(i, k)' <=> Kept(i, k)
    BY <1>1 DEF Kept
  <1>6. \A j : SideNamed(j)' = SideNamed(j)
    BY <1>1 DEF SideNamed
  <1>7. \A e : ListWorth(e)' = ListWorth(e)
    BY <1>2 DEF ListWorth
  <1>8. \A j, n : Single(j, n)' <=> Single(j, n)
    BY DEF Single
  <1>9. \A k : Holds(rec', k) => ReadUpTo(k)'
    BY <1>1, <1>4, <1>5, <1>6 DEF Holds, ReadUpTo
  <1>10. \A n : Lists(rec', n) => ListedUpTo(n)'
    BY <1>7, <1>8 DEF Lists, ListedUpTo
  <1> QED BY <1>1, <1>9, <1>10

\* A layout is a sequence.
LEMMA SequenceFacts ==
  /\ \A s, u : IsSequence(s) /\ IsSequence(u) => IsSequence(s \o u)
  /\ IsSequence(<< >>)
  /\ \A a : IsSequence(<< a >>)
  /\ \A a, b : IsSequence(<< a, b >>)
  /\ \A a, b, c : IsSequence(<< a, b, c >>)
  /\ \A a, b, c, d : IsSequence(<< a, b, c, d >>)
  /\ \A a, b, c, d, e, f : IsSequence(<< a, b, c, d, e, f >>)
  /\ \A a, b, c, d, e, f, g, h : IsSequence(<< a, b, c, d, e, f, g, h >>)
  <1>1. ASSUME NEW s, NEW u, IsSequence(s), IsSequence(u) PROVE IsSequence(s \o u)
    <2>1. PICK S : s \in Seq(S)
      BY <1>1 DEF IsSequence
    <2>2. PICK U : u \in Seq(U)
      BY <1>1 DEF IsSequence
    <2>3. s \in Seq(S \cup U) /\ u \in Seq(S \cup U)
      BY <2>1, <2>2
    <2>4. s \o u \in Seq(S \cup U)
      BY <2>3
    <2> QED BY <2>4 DEF IsSequence
  <1>2. IsSequence(<< >>)
    <2>1. << >> \in Seq({})
      OBVIOUS
    <2> QED BY <2>1 DEF IsSequence
  <1>3. ASSUME NEW a PROVE IsSequence(<< a >>)
    <2>1. << a >> \in Seq({a})
      OBVIOUS
    <2> QED BY <2>1 DEF IsSequence
  <1>4. ASSUME NEW a, NEW b PROVE IsSequence(<< a, b >>)
    <2>1. << a, b >> \in Seq({a, b})
      OBVIOUS
    <2> QED BY <2>1 DEF IsSequence
  <1>5. ASSUME NEW a, NEW b, NEW c PROVE IsSequence(<< a, b, c >>)
    <2>1. << a, b, c >> \in Seq({a, b, c})
      OBVIOUS
    <2> QED BY <2>1 DEF IsSequence
  <1>6. ASSUME NEW a, NEW b, NEW c, NEW d PROVE IsSequence(<< a, b, c, d >>)
    <2>1. << a, b, c, d >> \in Seq({a, b, c, d})
      OBVIOUS
    <2> QED BY <2>1 DEF IsSequence
  <1>7. ASSUME NEW a, NEW b, NEW c, NEW d, NEW e, NEW f PROVE IsSequence(<< a, b, c, d, e, f >>)
    <2>1. << a, b, c, d, e, f >> \in Seq({a, b, c, d, e, f})
      OBVIOUS
    <2> QED BY <2>1 DEF IsSequence
  <1>8. ASSUME NEW a, NEW b, NEW c, NEW d, NEW e, NEW f, NEW g, NEW h
        PROVE  IsSequence(<< a, b, c, d, e, f, g, h >>)
    <2>1. << a, b, c, d, e, f, g, h >> \in Seq({a, b, c, d, e, f, g, h})
      OBVIOUS
    <2> QED BY <2>1 DEF IsSequence
  <1> QED BY <1>1, <1>2, <1>3, <1>4, <1>5, <1>6, <1>7, <1>8

LEMMA LayoutIsSequence ==
  ASSUME NEW t \in ReadTypes
  PROVE  IsSequence(Layout(t))
  <1>1. ASSUME t \in {\h20, \h22, \h30, \h33} PROVE IsSequence(Fixed(t))
    <2>1. CASE t = \h20
      <3>1. Fixed(\h20) = << UInt("msgtype", 1), UInt("timestamp", 8), String("event_code", 4) >>
        BY DEF Fixed
      <3> QED BY <2>1, <3>1, SequenceFacts, Zenon
    <2>2. CASE t = \h22
      <3>1. Fixed(\h22) = << UInt("msgtype", 1), UInt("protocol_id", 1), UInt("channel_index", 1),
                             UInt("seconds", 4) >>
        BY DEF Fixed
      <3> QED BY <2>2, <3>1, SequenceFacts, Zenon
    <2>3. CASE t = \h30
      <3>1. Fixed(\h30) = << UInt("msgtype", 1), UInt("locate_code", 2), String("MIC", 4) >>
        BY DEF Fixed
      <3> QED BY <2>3, <3>1, SequenceFacts, Zenon
    <2>4. CASE t = \h33
      <3>1. Fixed(\h33) = << UInt("msgtype", 1), UInt("locate_code", 4), String("country_code", 2),
                             String("currency_code", 3), String("MIC", 4), UInt("product_type", 1),
                             UInt("symbol_length", 1), String("symbol", 0) >>
        BY DEF Fixed
      <3> QED BY <2>4, <3>1, SequenceFacts, Zenon
    <2> QED BY <1>1, <2>1, <2>2, <2>3, <2>4
  <1>2. CASE t \in {\h20, \h22, \h30, \h33}
    <2>1. Layout(t) = << >> \o Fixed(t)
      BY <1>2, LayoutOf
    <2> QED BY <1>1, <1>2, <2>1, SequenceFacts
  <1>3. CASE t \in QuoteTypes
    <2> DEFINE depth == Depth(Form(t))
               two == depth \o << ToSide("bid") >> \o depth \o << ToSide("ask") >>
               one == depth \o << ToSide("given") >>
               middle == IF TwoSided(t) THEN two ELSE one
    <2>1. IsSequence(MarketHeader)
      BY SequenceFacts, Zenon DEF MarketHeader
    <2>2. IsSequence(depth)
      BY SequenceFacts, Zenon DEF Depth
    <2>3. /\ IsSequence(<< UInt("instrument_locate", 4) >>)
          /\ IsSequence(<< UInt("condition", 1), UInt("flags", 1) >>)
          /\ \A side : IsSequence(<< ToSide(side) >>)
      BY SequenceFacts, Zenon
    <2>4. Layout(t) = MarketHeader \o << UInt("instrument_locate", 4) >> \o middle
                      \o << UInt("condition", 1), UInt("flags", 1) >>
      BY <1>3, LayoutOf DEF NbboFields
    <2> HIDE DEF depth
    <2>5. IsSequence(two) /\ IsSequence(one)
      BY <2>2, <2>3, SequenceFacts
    <2> HIDE DEF two, one
    <2>6. IsSequence(middle)
      BY <2>5
    <2> HIDE DEF middle
    <2> QED BY <2>1, <2>3, <2>4, <2>6, SequenceFacts
  <1> QED BY <1>2, <1>3 DEF ReadTypes

LEMMA RestOfSequence ==
  ASSUME NEW s, IsSequence(s)
  PROVE  /\ Len(s) \in Nat /\ (s = << >> <=> Len(s) = 0)
         /\ s # << >> => /\ Head(s) = s[1] /\ Len(Tail(s)) = Len(s) - 1 /\ IsSequence(Tail(s))
                         /\ \A i \in 1 .. Len(s) - 1 : Tail(s)[i] = s[i + 1]
  <1>1. PICK S : s \in Seq(S)
    BY DEF IsSequence
  <1>2. Len(s) \in Nat /\ (s = << >> <=> Len(s) = 0)
    BY <1>1
  <1>3. ASSUME s # << >>
        PROVE  /\ Head(s) = s[1] /\ Len(Tail(s)) = Len(s) - 1 /\ Tail(s) \in Seq(S)
               /\ \A i \in 1 .. Len(s) - 1 : Tail(s)[i] = s[i + 1]
    BY <1>1, <1>3
  <1> QED BY <1>2, <1>3 DEF IsSequence

LEMMA StartInv == Init => DecodeInv
  <1> SUFFICES ASSUME Init PROVE DecodeInv
    OBVIOUS
  <1>1. MessageInv
    BY DEF Init, MessageInv
  <1>2. ReadingInv
    BY DEF Init, ReadingInv
  <1> QED BY <1>1, <1>2 DEF DecodeInv

LEMMA KeepsMessage == MessageInv /\ [Next]_vars => MessageInv' /\ sent' = sent /\ shift' = shift /\ raw_data' = raw_data
  <1> SUFFICES ASSUME MessageInv, [Next]_vars
               PROVE  sent' = sent /\ shift' = shift /\ raw_data' = raw_data
    BY DEF MessageInv
  <1> QED BY DEF Next, vars, Dispatch, Unknown, ReadField, FieldsRead, DecodeElement, EndOfList

\* The messages the decoder takes and the theorems are about.
LEMMA KnownType ==
  ASSUME MessageInv, Regular(sent), type \in DefaultTypes \cup NbboTypes \cup TradeTypes
  PROVE  type = TypeSent(sent) /\ TypeSent(sent) \in ReadTypes
  <1>1. TypeSent(sent) \in 0 .. 255 /\ type = IF TypeSent(sent) < 128 THEN TypeSent(sent) ELSE TypeSent(sent) - 256
    BY TypeRead DEF Byte
  <1>2. type > 0
    BY DEF DefaultTypes, NbboTypes, TradeTypes
  <1>3. TypeSent(sent) < 128 /\ type = TypeSent(sent)
    BY <1>1, <1>2
  <1>4. TypeSent(sent) \notin TradeTypes
    BY DEF Regular
  <1>5. TypeSent(sent) \in {\h20, \h22, \h30, \h33} \cup NbboTypes
    BY <1>1, <1>3, <1>4 DEF DefaultTypes
  <1> QED BY <1>3, <1>5 DEF ReadTypes, NbboTypes, QuoteTypes

LEMMA DispatchInv ==
  ASSUME MessageInv, Regular(sent), ReadingInv, Dispatch
  PROVE  ReadingInv'
  <1>1. /\ pc = "start" /\ todo' = Layout(type) /\ pc' = "fields"
        /\ sent' = sent /\ shift' = shift /\ rec' = rec /\ offset' = offset /\ proc' = proc
    BY DEF Dispatch
  <1>2. type = TypeSent(sent) /\ TypeSent(sent) \in ReadTypes
    BY KnownType DEF Dispatch
  <1>3. Ready /\ offset = 0 /\ proc = "none"
    BY <1>1, <1>2 DEF Ready, ReadingInv
  <1>4. todo' = Fs /\ IsSequence(todo') /\ Len(todo') = N /\ N \in Nat
    BY <1>1, <1>2, <1>3, LayoutIsSequence, ReadyFacts DEF Fs
  <1>5. Holds(rec', 0)
    BY DEF Holds
  <1>6. Doing(0)'
    <2>1. At(0)' = 0 /\ ReadUpTo(0)' /\ N' = N /\ Fs' = Fs
      BY <1>1, <1>3, <1>5, Carried, MessageFacts DEF Ready
    <2>2. N - 0 = N /\ \A i \in 1 .. N : 0 + i = i
      BY <1>4
    <2> QED BY <1>1, <1>3, <1>4, <2>1, <2>2 DEF Doing
  <1>7. 0 \in 0 .. N' /\ TypeSent(sent') \in ReadTypes
    BY <1>1, <1>2, <1>4, Carried
  <1> QED BY <1>1, <1>3, <1>4, <1>6, <1>7 DEF ReadingInv, IsSequence

LEMMA UnknownInv ==
  ASSUME ReadingInv, Unknown
  PROVE  ReadingInv'
  BY DEF Unknown, ReadingInv

LEMMA ReadFieldInv ==
  ASSUME MessageInv, Regular(sent), ReadingInv, ReadField
  PROVE  ReadingInv'
  <1>1. /\ pc = "fields" /\ todo # << >> /\ todo' = Tail(todo)
        /\ sent' = sent /\ shift' = shift /\ proc' = proc
        /\ \/ Length(Head(todo)) < 0
           \/ rec' = With(Head(todo)) /\ offset' = offset + Length(Head(todo)) /\ pc' = pc
    BY DEF ReadField
  <1>2. Ready /\ IsSequence(todo) /\ proc = "none"
    BY <1>1 DEF Ready, ReadingInv
  <1>3. PICK k \in 0 .. N : Doing(k)
    BY <1>1 DEF ReadingInv
  <1>4. Len(todo) = N - k /\ Len(todo) \in Nat /\ Len(todo) # 0 /\ N \in Nat
    BY <1>1, <1>2, <1>3, RestOfSequence, ReadyFacts DEF Doing
  <1>5. k + 1 \in 1 .. N /\ (k + 1) - 1 = k /\ 1 \in 1 .. N - k
    BY <1>4
  <1>6. Head(todo) = Fs[k + 1]
    BY <1>1, <1>2, <1>3, <1>5, RestOfSequence DEF Doing
  <1>7. /\ Holds(With(Fs[k + 1]), k + 1) /\ offset + Length(Fs[k + 1]) = At(k + 1)
        /\ rec' = With(Head(todo)) /\ offset' = offset + Length(Head(todo)) /\ pc' = pc
    <2>1. ReadUpTo((k + 1) - 1) /\ offset = At((k + 1) - 1)
      BY <1>3, <1>5 DEF Doing
    <2>2. /\ Holds(With(Fs[k + 1]), k + 1) /\ offset + Length(Fs[k + 1]) = At(k + 1)
          /\ Length(Fs[k + 1]) \in Nat
      BY <1>2, <1>5, <2>1, FieldRead
    <2>3. \A n \in Nat : ~(n < 0)
      OBVIOUS
    <2> QED BY <1>1, <1>6, <2>2, <2>3
  <1>8. /\ Len(todo') = N - (k + 1) /\ IsSequence(todo')
        /\ \A i \in 1 .. N - (k + 1) : todo'[i] = Fs[(k + 1) + i]
    <2>1. /\ Len(todo') = Len(todo) - 1 /\ IsSequence(todo')
          /\ \A i \in 1 .. Len(todo) - 1 : todo'[i] = todo[i + 1]
      BY <1>1, <1>2, RestOfSequence
    <2>2. ASSUME NEW i \in 1 .. N - (k + 1)
          PROVE  i + 1 \in 1 .. N - k /\ k + (i + 1) = (k + 1) + i /\ i \in 1 .. Len(todo) - 1
      BY <1>4, <1>5
    <2>3. \A i \in 1 .. N - k : todo[i] = Fs[k + i]
      BY <1>3 DEF Doing
    <2>4. ASSUME NEW i \in 1 .. N - (k + 1) PROVE todo'[i] = Fs[(k + 1) + i]
      BY <2>1, <2>2, <2>3
    <2>5. Len(todo') = N - (k + 1)
      BY <1>4, <1>5, <2>1
    <2> QED BY <2>1, <2>4, <2>5
  <1>9. Doing(k + 1)'
    <2>1. At(k + 1)' = At(k + 1) /\ ReadUpTo(k + 1)' /\ N' = N /\ Fs' = Fs
      BY <1>1, <1>6, <1>7, Carried
    <2> QED BY <1>1, <1>6, <1>7, <1>8, <2>1 DEF Doing
  <1>10. k + 1 \in 0 .. N' /\ TypeSent(sent') \in ReadTypes
    BY <1>1, <1>2, <1>4, <1>5, Carried DEF Ready
  <1> QED BY <1>1, <1>2, <1>7, <1>8, <1>9, <1>10 DEF ReadingInv, IsSequence

LEMMA FieldsReadInv ==
  ASSUME MessageInv, Regular(sent), ReadingInv, FieldsRead
  PROVE  ReadingInv'
  <1>1. /\ pc = "fields" /\ todo = << >> /\ sent' = sent /\ shift' = shift /\ rec' = rec /\ offset' = offset
        /\ todo' = todo /\ raw_data' = raw_data
        /\ IF type \in NbboTypes THEN pc' = "done" /\ proc' = Handler(type) ELSE pc' = "list" /\ proc' = proc
    BY DEF FieldsRead
  <1>2. Ready /\ IsSequence(todo) /\ proc = "none" /\ TypeSent(sent) \in ReadTypes
    BY <1>1 DEF Ready, ReadingInv
  <1>3. PICK k \in 0 .. N : Doing(k)
    BY <1>1 DEF ReadingInv
  <1>4. N \in Nat /\ Len(todo) = 0
    BY <1>1, <1>2, ReadyFacts, RestOfSequence
  <1>5. k = N
    BY <1>3, <1>4 DEF Doing
  <1>6. offset = At(N) /\ Holds(rec, N)
    BY <1>3, <1>5 DEF Doing, ReadUpTo
  <1>7. ReadUpTo(N)' /\ N' = N /\ \A p : At(p)' = At(p)
    BY <1>1, <1>6, Carried
  <1>8. type = TypeSent(sent) /\ (type \in NbboTypes <=> TypeSent(sent) \in QuoteTypes)
    BY <1>2, ReadyFacts, LaidAll
  <1>9. Lists(rec', 0)
    BY DEF Lists
  <1>10. ListedUpTo(0)'
    BY <1>1, <1>9, Carried
  <1>11. Len(sent.list) \in Nat /\ At(Parts(sent)) = Len(raw_data) /\ Parts(sent) = N + Len(sent.list)
    BY <1>2, MessageFacts DEF Ready
  <1>12. CASE TypeSent(sent) \in QuoteTypes
    <2>1. pc' = "done" /\ proc' \in {"none", "smt_nbbo"}
      BY <1>1, <1>8, <1>12 DEF Handler, NbboTypes, TradeTypes
    <2>2. Len(sent.list) = 0
      <3>1. sent.list = << >>
        BY <1>2, <1>12, MessageFacts DEF Ready, InFormat
      <3> QED BY <3>1
    <2>3. offset = Len(raw_data)
      BY <1>4, <1>6, <1>11, <2>2
    <2> QED BY <1>1, <1>2, <1>7, <1>10, <2>1, <2>2, <2>3 DEF ReadingInv
  <1>13. CASE TypeSent(sent) \notin QuoteTypes
    <2>1. pc' = "list" /\ proc' = "none"
      BY <1>1, <1>2, <1>8, <1>13
    <2>2. 0 \in 0 .. Len(sent.list') /\ offset' = At(N + 0)' /\ N + 0 = N
      BY <1>1, <1>4, <1>6, <1>7, <1>11
    <2> QED BY <1>1, <1>2, <1>7, <1>10, <1>13, <2>1, <2>2 DEF ReadingInv
  <1> QED BY <1>12, <1>13

\* In the list the cursor is at its end or an element comes next.
LEMMA ListCursor ==
  ASSUME Ready, NEW n \in 0 .. Len(sent.list), offset = At(N + n), pc = "list"
  PROVE  /\ InList <=> n < Len(sent.list)
         /\ ~InList => offset = Len(raw_data)
  <1>1. /\ Len(sent.list) \in Nat /\ N \in Nat /\ At(Parts(sent)) = Len(raw_data)
        /\ Parts(sent) = N + Len(sent.list) /\ MessageInv
        /\ \A p \in 0 .. Parts(sent) : At(p) \in 0 .. Len(raw_data)
    BY MessageFacts DEF Ready
  <1>2. Len(raw_data) \in Nat
    <2>1. raw_data \in Seq(Byte)
      BY <1>1, MessageFacts
    <2> QED BY <2>1
  <1>3. ASSUME n < Len(sent.list) PROVE InList
    <2>1. n + 1 \in 1 .. Len(sent.list) /\ (N + (n + 1)) - 1 = N + n /\ N + (n + 1) \in 0 .. Parts(sent)
      BY <1>1, <1>3
    <2> DEFINE e == sent.list[n + 1]
    <2>2. IsElement(e)
      BY <1>1, <2>1, MessageFacts
    <2>3. Len(e.bytes) \in Nat /\ e.len \in Nat
      <3>1. e.bytes \in Seq(Byte) /\ e.len \in 0 .. 8
        BY <2>2, ElementBytes
      <3> HIDE DEF e
      <3> QED BY <3>1
    <2>4. offset \in Nat /\ At(N + (n + 1)) = offset + 3 + Len(e.bytes) + e.len
      BY <1>1, <2>1, ElementRead
    <2>5. At(N + (n + 1)) <= Len(raw_data)
      BY <1>1, <1>2, <2>1
    <2> HIDE DEF e
    <2>6. offset + 3 <= Len(raw_data)
      BY <1>2, <2>3, <2>4, <2>5
    <2> QED BY <1>2, <2>4, <2>6 DEF InList
  <1>4. ASSUME ~(n < Len(sent.list)) PROVE offset = Len(raw_data) /\ ~InList
    <2>1. n = Len(sent.list)
      BY <1>1, <1>4
    <2>2. offset = Len(raw_data)
      BY <1>1, <2>1
    <2> QED BY <1>2, <2>2 DEF InList
  <1> QED BY <1>3, <1>4

LEMMA DecodeElementInv ==
  ASSUME MessageInv, Regular(sent), ReadingInv, DecodeElement
  PROVE  ReadingInv'
  <1>1. /\ pc = "list" /\ InList /\ sent' = sent /\ shift' = shift /\ todo' = todo /\ proc' = proc
    BY DEF DecodeElement, InList
  <1>2. Ready /\ TypeSent(sent) \notin QuoteTypes /\ ReadUpTo(N) /\ proc = "none" /\ todo = << >>
    BY <1>1 DEF Ready, ReadingInv
  <1>3. PICK n \in 0 .. Len(sent.list) : offset = At(N + n) /\ ListedUpTo(n)
    BY <1>1 DEF ReadingInv
  <1>4. Len(sent.list) \in Nat /\ N \in Nat
    BY <1>2, MessageFacts DEF Ready
  <1>5. n < Len(sent.list)
    BY <1>1, <1>2, <1>3, ListCursor
  <1>6. n + 1 \in 1 .. Len(sent.list) /\ (n + 1) - 1 = n /\ (N + (n + 1)) - 1 = N + n
    BY <1>4, <1>5
  <1>7. pc' = pc /\ offset' = At(N + (n + 1)) /\ Holds(rec', N) /\ Lists(rec', n + 1)
    BY <1>2, <1>3, <1>6, ElementStep
  <1>8. /\ N' = N /\ ReadUpTo(N)' /\ ListedUpTo(n + 1)' /\ offset' = At(N + (n + 1))'
    BY <1>1, <1>7, Carried
  <1>9. n + 1 \in 0 .. Len(sent.list') /\ TypeSent(sent') \in ReadTypes
    BY <1>1, <1>2, <1>4, <1>6 DEF Ready
  <1> QED BY <1>1, <1>2, <1>7, <1>8, <1>9 DEF ReadingInv

LEMMA EndOfListInv ==
  ASSUME MessageInv, Regular(sent), ReadingInv, EndOfList
  PROVE  ReadingInv'
  <1>1. /\ pc = "list" /\ ~InList /\ pc' = "done" /\ proc' = Handler(type) /\ sent' = sent /\ shift' = shift
        /\ todo' = todo /\ rec' = rec /\ offset' = offset /\ raw_data' = raw_data
    BY DEF EndOfList
  <1>2. /\ Ready /\ TypeSent(sent) \notin QuoteTypes /\ TypeSent(sent) \in ReadTypes /\ todo = << >>
        /\ Holds(rec, N)
    BY <1>1 DEF Ready, ReadingInv, ReadUpTo
  <1>3. PICK n \in 0 .. Len(sent.list) : offset = At(N + n) /\ ListedUpTo(n)
    BY <1>1 DEF ReadingInv
  <1>4. offset = Len(raw_data) /\ n = Len(sent.list)
    <2>1. offset = Len(raw_data) /\ ~(n < Len(sent.list))
      BY <1>1, <1>2, <1>3, ListCursor
    <2>2. Len(sent.list) \in Nat
      BY <1>2, MessageFacts DEF Ready
    <2> QED BY <2>1, <2>2
  <1>5. Lists(rec', Len(sent.list))
    BY <1>1, <1>3, <1>4 DEF ListedUpTo
  <1>6. N' = N /\ ReadUpTo(N)' /\ ListedUpTo(Len(sent.list))'
    BY <1>1, <1>2, <1>5, Carried
  <1>7. proc' \in {"none", "smt_0x22", "smt_0x30", "smt_0x33"}
    <2>1. type \in {\h20, \h22, \h30, \h33}
      BY <1>2, ReadyFacts DEF ReadTypes
    <2> QED BY <1>1, <2>1 DEF Handler, TradeTypes
  <1> QED BY <1>1, <1>2, <1>4, <1>6, <1>7 DEF ReadingInv

\* The invariant is inductive.
LEMMA DecodeStep == DecodeInv /\ [Next]_vars => DecodeInv'
  <1> SUFFICES ASSUME DecodeInv, [Next]_vars PROVE DecodeInv'
    OBVIOUS
  <1>1. MessageInv /\ MessageInv' /\ sent' = sent /\ shift' = shift /\ raw_data' = raw_data
    BY KeepsMessage DEF DecodeInv
  <1>2. ASSUME Regular(sent) PROVE ReadingInv'
    <2>1. MessageInv /\ ReadingInv
      BY <1>2 DEF DecodeInv
    <2>2. CASE Dispatch
      BY <1>2, <2>1, <2>2, DispatchInv
    <2>3. CASE Unknown
      BY <2>1, <2>3, UnknownInv
    <2>4. CASE ReadField
      BY <1>2, <2>1, <2>4, ReadFieldInv
    <2>5. CASE FieldsRead
      BY <1>2, <2>1, <2>5, FieldsReadInv
    <2>6. CASE DecodeElement
      BY <1>2, <2>1, <2>6, DecodeElementInv
    <2>7. CASE EndOfList
      BY <1>2, <2>1, <2>7, EndOfListInv
    <2>8. CASE UNCHANGED vars
      <3>1. /\ sent' = sent /\ shift' = shift /\ raw_data' = raw_data /\ rec' = rec /\ todo' = todo
            /\ offset' = offset /\ proc' = proc /\ pc' = pc
        BY <2>8 DEF vars
      <3>2. /\ N' = N /\ Fs' = Fs /\ \A p : At(p)' = At(p)
            /\ \A k : ReadUpTo(k) => ReadUpTo(k)'
            /\ \A n : ListedUpTo(n) => ListedUpTo(n)'
        BY <3>1, Carried DEF ReadUpTo, ListedUpTo
      <3>3. \A k : Doing(k) => Doing(k)'
        BY <3>1, <3>2 DEF Doing
      <3> QED BY <2>1, <3>1, <3>2, <3>3 DEF ReadingInv, IsSequence
    <2> QED BY <2>2, <2>3, <2>4, <2>5, <2>6, <2>7, <2>8 DEF Next
  <1> QED BY <1>1, <1>2 DEF DecodeInv

LEMMA InvAlways == Spec => []DecodeInv
  <1> QED BY StartInv, DecodeStep, PTL DEF Spec

-----------------------------------------------------------------------------
\* For every set of messages in the format, of every message that is not a trade
\* and whose lengths are read as they were sent: the cursor stays in the message
\* and the other variables keep their types (smt_decode).
THEOREM TypeCorrect == Spec => [](Regular(sent) => TypeOK)
  <1>1. DecodeInv => (Regular(sent) => TypeOK)
    <2> SUFFICES ASSUME DecodeInv, Regular(sent) PROVE TypeOK
      OBVIOUS
    <2>1. MessageInv /\ ReadingInv
      BY DEF DecodeInv
    <2>2. /\ raw_data \in Seq(Byte) /\ N \in Nat /\ Len(sent.list) \in Nat /\ Parts(sent) = N + Len(sent.list)
          /\ \A p \in 0 .. Parts(sent) : At(p) \in 0 .. Len(raw_data)
      BY <2>1, MessageFacts
    <2>3. Len(raw_data) \in Nat
      BY <2>2
    <2>4. offset \in 0 .. Len(raw_data)
      <3>1. CASE pc = "start"
        BY <2>1, <2>3, <3>1 DEF ReadingInv
      <3>2. CASE pc = "fields"
        <4>1. PICK k \in 0 .. N : offset = At(k)
          BY <2>1, <3>2 DEF ReadingInv, Doing
        <4>2. k \in 0 .. Parts(sent)
          BY <2>2
        <4> QED BY <2>2, <4>1, <4>2
      <3>3. CASE pc = "list"
        <4>1. PICK n \in 0 .. Len(sent.list) : offset = At(N + n)
          BY <2>1, <3>3 DEF ReadingInv
        <4>2. N + n \in 0 .. Parts(sent)
          BY <2>2
        <4> QED BY <2>2, <4>1, <4>2
      <3>4. CASE pc = "done"
        BY <2>1, <2>3, <3>4 DEF ReadingInv
      <3> QED BY <2>1, <3>1, <3>2, <3>3, <3>4 DEF ReadingInv
    <2>5. \A i \in DOMAIN raw_data : raw_data[i] \in 0 .. 255
      <3>1. \A i \in DOMAIN raw_data : raw_data[i] \in Byte
        BY <2>2
      <3> QED BY <3>1 DEF Byte
    <2>6. todo # << >> => pc = "fields"
      BY <2>1 DEF ReadingInv
    <2>7. /\ pc \in {"start", "fields", "list", "done"}
          /\ proc \in {"none", "smt_0x22", "smt_0x30", "smt_0x33", "smt_nbbo"}
      BY <2>1 DEF ReadingInv
    <2>8. shift \in {-1, 0}
      BY <2>1 DEF MessageInv
    <2> QED BY <2>4, <2>5, <2>6, <2>7, <2>8 DEF TypeOK
  <1> QED BY <1>1, InvAlways, PTL

\* For the same messages: a handler is only called with the cursor at the end of
\* the message, whatever its layout, its symbol and its appendage list
\* (smt_appendage_decode, decode_fixedfld).
THEOREM WholeMessageReadCorrect == Spec => [](Regular(sent) => WholeMessageRead)
  <1>1. DecodeInv => (Regular(sent) => WholeMessageRead)
    BY DEF DecodeInv, ReadingInv, WholeMessageRead
  <1> QED BY <1>1, InvAlways, PTL

-----------------------------------------------------------------------------
\* What the values mean.

LEMMA UnsignedIsNatural ==
  ASSUME NEW v \in Int, NEW n \in Nat, Unsigned(v, n)
  PROVE  v >= 0
  <1> DEFINE w == Shifted(v, n)
             S == {k \in 0 .. n : w[n - k] >= 0}
  <1>1. w \in [0 .. n -> Int] /\ w[0] = v
    BY ShiftedFacts
  <1>2. \A k \in 1 .. n : w[k] = w[k - 1] \div 256
    BY ShiftedFacts
  <1>3. w[n] = 0
    BY DEF Unsigned
  <1> HIDE DEF w
  <1>4. ASSUME NEW k \in 1 .. n, w[k] >= 0 PROVE w[k - 1] >= 0
    <2>1. k - 1 \in 0 .. n
      OBVIOUS
    <2>2. w[k - 1] \in Int /\ w[k] = w[k - 1] \div 256
      BY <1>1, <1>2, <2>1
    <2>3. \A x \in Int : x \div 256 >= 0 => x >= 0
      OBVIOUS
    <2> QED BY <1>4, <2>2, <2>3
  <1>5. n - 0 = n /\ n - n = 0 /\ 0 \in 0 .. n
    OBVIOUS
  <1>6. 0 \in S
    BY <1>3, <1>5
  <1>7. ASSUME NEW k \in 0 .. n, k \in S, k + 1 \in 0 .. n PROVE k + 1 \in S
    <2>1. n - k \in 1 .. n /\ (n - k) - 1 = n - (k + 1)
      BY <1>7
    <2> QED BY <1>4, <1>7, <2>1
  <1>8. n \in S
    <2> HIDE DEF S
    <2> QED BY <1>6, <1>7, UpTo
  <1> QED BY <1>1, <1>5, <1>8

\* A number that fits is read as it was sent, but for a negative one of 8 bytes.
LEMMA NumberMeant ==
  ASSUME NEW v \in Int, NEW n \in 1 .. 8, Fits(v, n)
  PROVE  /\ Int64(BigEndian(v, n)) \in {v, -1}
         /\ n < 8 \/ v >= 0 => Int64(BigEndian(v, n)) = v
         /\ Unsigned(v, n) => Int64(BigEndian(v, n)) = v
  <1>1. Int64(BigEndian(v, n)) = IF n = 8 /\ v < 0 /\ shift = -1 THEN -1 ELSE v
    BY ReadNumber
  <1>2. Unsigned(v, n) => v >= 0
    BY UnsignedIsNatural
  <1>3. n < 8 \/ v >= 0 => ~(n = 8 /\ v < 0 /\ shift = -1)
    OBVIOUS
  <1> QED BY <1>1, <1>2, <1>3

\* A message that has been read.
Read == Ready /\ ReadUpTo(N) /\ ListedUpTo(Len(sent.list))

\* The place of a column: the message or the side that follows it.
LEMMA MessagePlace ==
  ASSUME Read, NEW i \in 1 .. N, Cs[i].of = "message"
  PROVE  Arrived(Cs[i]) /\ Got(Cs[i]) = Worth(i) /\ Cs[i].kind \in {"uint", "alpha"}
  <1>1. Ready /\ Holds(rec, N) /\ N \in Nat
    BY ReadyFacts DEF Read, ReadUpTo
  <1>2. MessageColumn(Cs[i])
    <2>1. MessageColumn(Cs[i]) \/ SideColumnAt(Cs, i) \/ DepthColumnAt(Cs, i)
      BY <1>1, ReadyFacts DEF Laid
    <2> QED BY <2>1 DEF SideColumnAt, DepthColumnAt, Sides
  <1>3. ASSUME NEW j \in i + 1 .. N PROVE Cs[j].name # Cs[i].name
    <2>1. j \in 1 .. N /\ j # i
      BY <1>1
    <2>2. MessageColumn(Cs[j]) \/ SideColumnAt(Cs, j) \/ DepthColumnAt(Cs, j)
      BY <1>1, <2>1, ReadyFacts DEF Laid
    <2>3. CASE MessageColumn(Cs[j])
      <3>1. Cs[j].of = Cs[i].of
        BY <2>3 DEF MessageColumn
      <3> QED BY <1>1, <2>1, <3>1, ReadyFacts DEF Laid
    <2>4. CASE SideColumnAt(Cs, j)
      BY <1>2, <2>4 DEF SideColumnAt, MessageColumn
    <2>5. CASE DepthColumnAt(Cs, j)
      BY <1>2, <2>5 DEF DepthColumnAt, MessageColumn
    <2> QED BY <2>2, <2>3, <2>4, <2>5
  <1>4. Kept(i, N)
    BY <1>2, <1>3 DEF Kept, MessageColumn
  <1>5. Cs[i].name \in DOMAIN rec /\ rec[Cs[i].name] = Worth(i)
    BY <1>1, <1>4 DEF Holds
  <1> QED BY <1>2, <1>5 DEF Arrived, Got, MessageColumn

\* The side a message of one side gives.
LEMMA GivenSide ==
  ASSUME Ready, NEW j \in 1 .. N, Cs[j].name = "side"
  PROVE  Side(Cs[j].of) = SideNamed(j)
  <1>1. CASE Cs[j].of # "given"
    BY <1>1 DEF Side, SideNamed
  <1>2. CASE Cs[j].of = "given"
    <2>1. /\ Piece(j) = << sent.values[j].v >> /\ Cs[j].kind = "side" /\ SideColumnAt(Cs, j)
      BY <1>2, KindFacts DEF SideColumnAt
    <2>2. Piece(j)[1] = sent.values[j].v
      BY <2>1
    <2>3. DOMAIN sent.values = 1 .. N
      BY ReadyFacts
    <2>4. ASSUME NEW i \in 1 .. N, Cs[i].kind = "side" PROVE i = j
      <3>1. Cs[i].name = "side" /\ SideColumnAt(Cs, i)
        BY <2>4, KindFacts
      <3>2. Cs[i].of = "given"
        BY <2>4, <3>1 DEF SideColumnAt
      <3> QED BY <1>2, <3>1, <3>2, ReadyFacts DEF Laid
    <2>5. (\E i \in 1 .. N : Cs[i].kind = "side" /\ sent.values[i].v = CodeB) <=> sent.values[j].v = CodeB
      BY <2>1, <2>4
    <2>6. SideGiven = IF Piece(j)[1] = CodeB THEN "bid" ELSE "ask"
      BY <2>2, <2>3, <2>5 DEF SideGiven, Cs
    <2> QED BY <1>2, <2>6 DEF Side, SideNamed
  <1> QED BY <1>1, <1>2

LEMMA DepthPlace ==
  ASSUME Read, NEW i \in 1 .. N, Cs[i].of # "message", Cs[i].name # "side"
  PROVE  Arrived(Cs[i]) /\ Got(Cs[i]) = Worth(i)
  <1>1. Ready /\ Holds(rec, N) /\ N \in Nat
    BY ReadyFacts DEF Read, ReadUpTo
  <1>2. DepthColumnAt(Cs, i)
    <2>1. MessageColumn(Cs[i]) \/ SideColumnAt(Cs, i) \/ DepthColumnAt(Cs, i)
      BY <1>1, ReadyFacts DEF Laid
    <2> QED BY <2>1 DEF SideColumnAt, MessageColumn
  <1> DEFINE n == Cs[i].name
             j == i + Back[n]
  <1>3. n \in DepthNames /\ j \in 1 .. Len(Cs) /\ SideColumnAt(Cs, j) /\ Cs[j].of = Cs[i].of
    BY <1>2 DEF DepthColumnAt
  <1>4. j \in 1 .. N /\ Cs[j].name = "side"
    BY <1>1, <1>3, ReadyFacts DEF SideColumnAt
  <1>5. j - Back[n] = i
    <2>1. Back[n] \in 1 .. 4
      BY <1>3 DEF Back, DepthNames
    <2> QED BY <1>1, <2>1
  <1> HIDE DEF j
  <1>6. /\ SideNamed(j) \in DOMAIN rec /\ DOMAIN rec[SideNamed(j)] = DepthNames
        /\ rec[SideNamed(j)][n] = Worth(i)
    BY <1>1, <1>3, <1>4, <1>5 DEF Holds
  <1>7. Side(Cs[i].of) = SideNamed(j)
    BY <1>1, <1>3, <1>4, GivenSide
  <1> QED BY <1>3, <1>6, <1>7 DEF Arrived, Got

\* A value in its place is as it was meant.
LEMMA ValueMeant ==
  ASSUME Ready, NEW i \in 1 .. N, Cs[i].name # "side"
  PROVE  LET x == sent.values[i]
             c == Cs[i]
         IN  /\ Same(Worth(i), x, c)
             /\ c.kind = "uint" /\ x.len < 8 => BigEndian(Worth(i), x.len) = BigEndian(x.v, x.len)
             /\ c.kind = "price" => Worth(i).num \in {x.v, -1}
             /\ c.kind = "price" /\ Fits(PlacesMeant(sent.values[i - 1], Cs[i - 1]), 1)
                   => Worth(i).den = PlacesMeant(sent.values[i - 1], Cs[i - 1])
  <1> DEFINE x == sent.values[i]
             c == Cs[i]
             n == x.len
             v == x.v
  <1>1. c.kind \in {"uint", "alpha", "price", "implied"}
    BY KindFacts
  <1>2. CASE c.kind = "uint"
    <2>1. Reads(Fs[i], "uint", c) /\ n \in 1 .. 8 /\ v \in Int /\ Piece(i) = BigEndian(v, n) /\ Unsigned(v, n)
      BY <1>2, KindFacts
    <2>2. Worth(i) = Int64(BigEndian(v, n))
      BY <2>1 DEF Worth, Number64, Reads
    <2> HIDE DEF x, v, n
    <2>3. Fits(v, n) => Worth(i) = v
      BY <2>1, <2>2, NumberMeant
    <2>4. n < 8 => BigEndian(Worth(i), n) = BigEndian(v, n)
      <3>1. n < 8 => n \in 1 .. 7
        BY <2>1
      <3> QED BY <2>1, <2>2, <3>1, ReadBytes
    <2> QED BY <1>2, <2>3, <2>4 DEF Same, x, v, n
  <1>3. CASE c.kind = "alpha"
    <2>1. Reads(Fs[i], "string", c) /\ Piece(i) = x.bytes
      BY <1>3, KindFacts
    <2>2. Worth(i) = x.bytes
      BY <2>1 DEF Worth, Reads
    <2> QED BY <1>3, <2>2 DEF Same
  <1>4. CASE c.kind = "price"
    <2>1. Reads(Fs[i], "decimal", c) /\ n \in 1 .. 8 /\ v \in Int /\ Piece(i) = BigEndian(v, n) /\ Fits(v, n)
      BY <1>4, KindFacts
    <2>2. Worth(i) = [num |-> Int64(BigEndian(v, n)), den |-> Number64(i - 1)]
      BY <2>1 DEF Worth, Reads
    <2> HIDE DEF x, v, n
    <2>3. Worth(i).num \in {v, -1} /\ (n < 8 \/ v >= 0 => Worth(i).num = v)
      BY <2>1, <2>2, NumberMeant
    <2>4. ASSUME Fits(PlacesMeant(sent.values[i - 1], Cs[i - 1]), 1)
          PROVE  Worth(i).den = PlacesMeant(sent.values[i - 1], Cs[i - 1])
      <3>1. i - 1 \in 1 .. N /\ Cs[i - 1].name = "denominator" /\ Fs[i - 1].kind \in {"uint", "fix"}
        BY <1>4, DenominatorBefore
      <3>2. Cs[i - 1].kind \in {"uint", "implied"} /\ (Cs[i - 1].kind = "uint" => Cs[i - 1].len = 1)
        <4>1. MessageColumn(Cs[i - 1]) \/ SideColumnAt(Cs, i - 1) \/ DepthColumnAt(Cs, i - 1)
          BY <3>1, ReadyFacts DEF Laid
        <4>2. DepthColumnAt(Cs, i - 1)
          BY <3>1, <4>1 DEF MessageColumn, SideColumnAt, DepthNames
        <4>3. Cs[i - 1].kind \in (CASE Cs[i - 1].name \in {"center", "size"} -> {"uint"}
                                   [] Cs[i - 1].name = "price" -> {"price"}
                                   [] Cs[i - 1].name = "denominator" -> {"uint", "implied"})
          BY <4>2 DEF DepthColumnAt
        <4>4. Cs[i - 1].name = "denominator" /\ Cs[i - 1].kind = "uint" => Cs[i - 1].len = 1
          BY <4>2 DEF DepthColumnAt
        <4> QED BY <3>1, <4>3, <4>4
      <3>3. CASE Cs[i - 1].kind = "implied"
        <4>1. Reads(Fs[i - 1], "fix", Cs[i - 1])
          BY <3>1, <3>3, KindFacts
        <4>2. Number64(i - 1) = Cs[i - 1].len
          BY <4>1 DEF Number64, Reads
        <4> QED BY <2>2, <3>3, <4>2 DEF PlacesMeant
      <3>4. CASE Cs[i - 1].kind = "uint"
        <4> DEFINE d == sent.values[i - 1].v
                   m == 1
        <4>1. /\ Reads(Fs[i - 1], "uint", Cs[i - 1]) /\ d \in Int /\ Piece(i - 1) = BigEndian(d, 1)
              /\ Unsigned(d, 1)
          BY <3>1, <3>2, <3>4, KindFacts
        <4>2. Number64(i - 1) = Int64(BigEndian(d, 1))
          BY <4>1 DEF Number64, Reads
        <4>3. PlacesMeant(sent.values[i - 1], Cs[i - 1]) = d
          BY <3>4 DEF PlacesMeant
        <4>4. m \in 1 .. 8 /\ Fits(d, m) /\ Unsigned(d, m) /\ d \in Int
          BY <2>4, <4>1, <4>3
        <4>5. Number64(i - 1) = Int64(BigEndian(d, m))
          BY <4>2
        <4> HIDE DEF d, m
        <4>6. Int64(BigEndian(d, m)) = d
          BY <4>4, NumberMeant
        <4> QED BY <2>2, <4>3, <4>5, <4>6
      <3> QED BY <3>2, <3>3, <3>4
    <2> QED BY <1>4, <2>3, <2>4 DEF Same, x, v, n
  <1>5. CASE c.kind = "implied"
    <2>1. Reads(Fs[i], "fix", c)
      BY <1>5, KindFacts
    <2>2. Worth(i) = c.len
      BY <2>1 DEF Worth, Number64, Reads
    <2> QED BY <1>5, <2>2 DEF Same
  <1> QED BY <1>1, <1>2, <1>3, <1>4, <1>5

LEMMA ReadWhenDone ==
  ASSUME DecodeInv, Regular(sent), pc = "done", proc # "none"
  PROVE  Read
  BY DEF DecodeInv, ReadingInv, Read, Ready

\* Every column that is not a side is in its place.
LEMMA ColumnsArrive ==
  ASSUME Read, NEW i \in 1 .. N, Cs[i].name # "side"
  PROVE  Arrived(Cs[i]) /\ Got(Cs[i]) = Worth(i)
  BY MessagePlace, DepthPlace

\* The value of an element is as it was meant.
LEMMA ElementMeant ==
  ASSUME Ready, NEW j \in 1 .. Len(sent.list), sent.list[j].code \in ReadValues,
         ~(sent.list[j].format = 2 /\ sent.list[j].len = 8)
  PROVE  Means(ListWorth(sent.list[j]), sent.list[j])
  <1> DEFINE e == sent.list[j]
             kind == ValueKind(e.code)
             n == e.len
             v == e.v
             number == Int64(BigEndian(v, n))
             value == ListWorth(e)
             places == PlacesOf(e)
             first == e.bytes[1]
             second == e.bytes[2]
             format == e.format
  <1>1. IsElement(e) /\ e.code \in ValueTypes /\ e.code < 128 /\ ~(format = 2 /\ n = 8)
    BY ReadyElement DEF ReadValues
  <1>2. /\ kind \in {"alpha", "uint", "date", "price"}
        /\ kind = "uint" => n \in 1 .. 8 /\ Unsigned(v, n)
        /\ kind = "date" => n = 2 /\ Unsigned(v, 2)
        /\ kind = "price" =>
              /\ n \in 1 .. 8 /\ Fits(v, n) /\ format \in {1, 2, 3}
              /\ format = 3 => Len(e.bytes) = 1
              /\ format # 3 => n = 8 \/ places = 2 * format
              /\ format # 3 /\ n = 8 => format = 2
    BY <1>1, ElementShape
  <1>3. value = CASE kind = "alpha" -> e.bytes
                  [] kind = "uint" -> number
                  [] kind = "date" -> 10000 * number + 100 * first + second
                  [] kind = "price" ->
                       [num |-> number, den |-> IF format = 3 THEN Int64(<< first >>) ELSE 2 * format]
    BY DEF ListWorth
  <1>4. Means(value, e) <=>
           CASE kind = "alpha" -> value = e.bytes
             [] kind = "uint" -> Fits(v, n) => value = v
             [] kind = "date" -> Fits(v, 2) => value = 10000 * v + 100 * first + second
             [] kind = "price" -> (n < 8 \/ v >= 0 => value.num = v) /\ (places < 128 => value.den = places)
    BY DEF Means
  <1>5. format = 3 => places = first
    BY DEF PlacesOf
  <1>6. e.bytes \in Seq(Byte)
    BY <1>1, ElementBytes
  <1>7. Len(e.bytes) = 1 => first \in Byte
    BY <1>6
  <1> HIDE DEF e, kind, v, n, number, value, places, first, second, format
  <1>8. n \in 1 .. 8 /\ Fits(v, n) =>
          (n < 8 \/ v >= 0 => number = v) /\ (Unsigned(v, n) => number = v)
    <2> SUFFICES ASSUME n \in 1 .. 8, Fits(v, n)
                 PROVE  (n < 8 \/ v >= 0 => number = v) /\ (Unsigned(v, n) => number = v)
      OBVIOUS
    <2>1. v \in Int
      BY DEF Fits
    <2> QED BY <2>1, NumberMeant DEF number
  <1>9. CASE kind = "alpha"
    <2>1. value = e.bytes
      BY <1>3, <1>9
    <2> QED BY <1>4, <1>9, <2>1 DEF value, e
  <1>10. CASE kind = "uint"
    <2>1. value = number
      BY <1>3, <1>10
    <2>2. Fits(v, n) => value = v
      BY <1>2, <1>8, <1>10, <2>1
    <2> QED BY <1>4, <1>10, <2>2 DEF value, e
  <1>11. CASE kind = "date"
    <2>1. value = 10000 * number + 100 * first + second /\ n = 2
      BY <1>2, <1>3, <1>11
    <2>2. 2 \in 1 .. 8
      OBVIOUS
    <2>3. Fits(v, 2) => value = 10000 * v + 100 * first + second
      BY <1>2, <1>8, <1>11, <2>1, <2>2
    <2> QED BY <1>4, <1>11, <2>3 DEF value, e
  <1>12. CASE kind = "price"
    <2>1. value.num = number /\ value.den = IF format = 3 THEN Int64(<< first >>) ELSE 2 * format
      BY <1>3, <1>12
    <2>2. n < 8 \/ v >= 0 => value.num = v
      BY <1>2, <1>8, <1>12, <2>1
    <2>3. ASSUME places < 128 PROVE value.den = places
      <3>1. CASE format = 3
        <4>1. first \in Byte /\ first < 128
          BY <1>2, <1>5, <1>7, <1>12, <2>3, <3>1
        <4>2. Int64(<< first >>) = first
          BY <4>1, OneByte
        <4> QED BY <1>5, <2>1, <3>1, <4>2
      <3>2. CASE format # 3
        <4>1. n # 8
          BY <1>1, <1>2, <1>12, <3>2
        <4> QED BY <1>2, <1>12, <2>1, <3>2, <4>1
      <3> QED BY <3>1, <3>2
    <2> QED BY <1>4, <1>12, <2>2, <2>3 DEF value, e
  <1> QED BY <1>2, <1>9, <1>10, <1>11, <1>12 DEF e, kind

-----------------------------------------------------------------------------
\* For the same messages, if the elements of the list are read as they are meant:
\* when a handler is called, every field, every side and every element that is
\* there once is in the record, as the exchange meant it (smt_decode,
\* smt_nbbo_decode, smt_appendage_decode).
THEOREM MeantCorrect == Spec => [](Regular(sent) /\ ListRegular(sent) => Meant)
  <1>1. DecodeInv => (Regular(sent) /\ ListRegular(sent) => Meant)
    <2> SUFFICES ASSUME DecodeInv, Regular(sent), ListRegular(sent), pc = "done", proc # "none"
                 PROVE  FieldsMeant /\ ListMeant
      BY DEF Meant
    <2>1. Read /\ Ready
      BY ReadWhenDone DEF Read
    <2>2. DOMAIN sent.values = 1 .. N
      BY <2>1, ReadyFacts
    <2>3. FieldsMeant
      <3>1. ASSUME NEW i \in 1 .. N, Cs[i].name # "side"
            PROVE  /\ Arrived(Cs[i]) /\ Same(Got(Cs[i]), sent.values[i], Cs[i])
                   /\ Cs[i].kind = "price" /\ Fits(PlacesMeant(sent.values[i - 1], Cs[i - 1]), 1)
                         => Got(Cs[i]).den = PlacesMeant(sent.values[i - 1], Cs[i - 1])
        <4>1. Arrived(Cs[i]) /\ Got(Cs[i]) = Worth(i)
          BY <2>1, <3>1, ColumnsArrive
        <4> QED BY <2>1, <3>1, <4>1, ValueMeant
      <3> QED BY <2>2, <3>1 DEF FieldsMeant, Cs
    <2>4. ListMeant
      <3>1. DOMAIN sent.list = 1 .. Len(sent.list)
        BY <2>1, MessageFacts DEF Ready, InFormat
      <3>2. ASSUME NEW j \in 1 .. Len(sent.list), Once(j)
            PROVE  LET name == Element(sent.list[j].code).name
                   IN  name \in DOMAIN rec /\ Means(rec[name], sent.list[j])
        <4>1. /\ sent.list[j].code \in ReadValues /\ ~(sent.list[j].format = 2 /\ sent.list[j].len = 8)
              /\ Single(j, Len(sent.list))
          BY <3>1, <3>2 DEF Once, Single, ListRegular
        <4>2. LET name == Element(sent.list[j].code).name
              IN  name \in DOMAIN rec /\ rec[name] = ListWorth(sent.list[j])
          BY <2>1, <4>1 DEF Read, ListedUpTo, Lists
        <4> QED BY <2>1, <4>1, <4>2, ElementMeant
      <3> QED BY <3>1, <3>2 DEF ListMeant
    <2> QED BY <2>3, <2>4
  <1> QED BY <1>1, InvAlways, PTL

\* For regular messages, whatever is in the list: what is not as it was meant is off by its sign only
\* (convert_big_endian_to_uint64_t).
THEOREM OffBySignOnlyCorrect == Spec => [](Regular(sent) => OffBySignOnly)
  <1>1. DecodeInv => (Regular(sent) => OffBySignOnly)
    <2> SUFFICES ASSUME DecodeInv, Regular(sent), pc = "done", proc # "none", NEW i \in DOMAIN sent.values
                 PROVE  LET c == Columns(TypeSent(sent))[i]
                            x == sent.values[i]
                        IN  /\ c.kind = "uint" /\ x.len < 8 => BigEndian(Got(c), x.len) = BigEndian(x.v, x.len)
                            /\ c.kind = "price" => Got(c).num \in {x.v, -1}
      BY DEF OffBySignOnly
    <2>1. Read /\ Ready
      BY ReadWhenDone DEF Read
    <2>2. i \in 1 .. N /\ Cs[i] = Columns(TypeSent(sent))[i]
      BY <2>1, ReadyFacts DEF Cs
    <2>3. CASE Cs[i].kind \in {"uint", "price"}
      <3>1. Cs[i].name # "side"
        BY <2>1, <2>2, <2>3, KindFacts
      <3>2. Got(Cs[i]) = Worth(i)
        BY <2>1, <2>2, <3>1, ColumnsArrive
      <3> QED BY <2>1, <2>2, <3>1, <3>2, ValueMeant
    <2> QED BY <2>2, <2>3
  <1> QED BY <1>1, InvAlways, PTL
=============================================================================
