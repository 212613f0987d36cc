-------------------------- MODULE LoadStoreProofs --------------------------
(***************************************************************************)
(* Theorems about the loads and stores, for bytes of any size, any memory  *)
(* map of whole doublewords and any number of registers.                   *)
(***************************************************************************)
EXTENDS LoadStore, TLAPS, WellFoundedInduction

-----------------------------------------------------------------------------
(* Induction and recursion over natural numbers, with sets and functions.  *)

LEMMA SetInduction ==
    ASSUME NEW S, 0 \in S, \A n \in Nat : n \in S => n + 1 \in S
    PROVE  \A n \in Nat : n \in S
<1> DEFINE T == Nat \ S
           R == OpToRel(<, Nat)
<1>1. SUFFICES ASSUME T # {} PROVE FALSE
  OBVIOUS
<1>2. PICK x \in T : \A y \in T : ~ (<<y, x>> \in R)
  <2> HIDE DEF R
  <2>1. IsWellFoundedOn(R, Nat)
    BY NatLessThanWellFounded DEF R
  <2> QED
    BY <1>1, <2>1, WFMin
<1>3. x - 1 \in Nat
  OBVIOUS
<1>4. x - 1 \notin T
  <2>1. <<x - 1, x>> \in R
    BY <1>3 DEF OpToRel
  <2> QED
    BY <2>1, <1>2
<1> QED
  BY <1>3, <1>4

\* The first values of a function given by its value at 0 and its steps.
Chain(V, a, step, n) ==
    {g \in [0 .. n -> V] : /\ g[0] = a
                           /\ \A k \in 0 .. (n - 1) : g[k + 1] = step[k][g[k]]}

LEMMA ChainsExist ==
    ASSUME NEW V, NEW a \in V, NEW step \in [Nat -> [V -> V]]
    PROVE  \A n \in Nat : Chain(V, a, step, n) # {}
<1> DEFINE S == {n \in Nat : Chain(V, a, step, n) # {}}
<1>1. 0 \in S
  <2> DEFINE g == [k \in 0 .. 0 |-> a]
  <2>1. g \in Chain(V, a, step, 0)
    BY DEF Chain
  <2> QED
    BY <2>1
<1>2. ASSUME NEW n \in Nat, n \in S PROVE n + 1 \in S
  <2>1. PICK g : g \in Chain(V, a, step, n)
    BY <1>2
  <2> DEFINE h == [k \in 0 .. (n + 1) |-> IF k <= n THEN g[k] ELSE step[n][g[n]]]
  <2>2. g \in [0 .. n -> V] /\ g[0] = a /\ \A k \in 0 .. (n - 1) : g[k + 1] = step[k][g[k]]
    BY <2>1 DEF Chain
  <2>3. h \in [0 .. (n + 1) -> V]
    <3>1. g[n] \in V /\ step[n][g[n]] \in V
      BY <2>2
    <3> QED
      BY <2>2, <3>1
  <2>4. h[0] = a
    BY <2>2
  <2>5. ASSUME NEW k \in 0 .. n PROVE h[k + 1] = step[k][h[k]]
    <3>1. CASE k = n
      BY <3>1
    <3>2. CASE k < n
      BY <2>2, <3>2
    <3> QED
      BY <3>1, <3>2
  <2> HIDE DEF h
  <2>6. h \in Chain(V, a, step, n + 1)
    BY <2>3, <2>4, <2>5 DEF Chain
  <2> QED
    BY <2>6
<1> HIDE DEF S
<1>3. \A n \in Nat : n \in S
  BY <1>1, <1>2, SetInduction
<1> QED
  BY <1>3 DEF S

LEMMA ChainsAgree ==
    ASSUME NEW V, NEW a \in V, NEW step \in [Nat -> [V -> V]],
           NEW m \in Nat, NEW n \in Nat,
           NEW g \in Chain(V, a, step, m), NEW h \in Chain(V, a, step, n)
    PROVE  \A k \in Nat : k <= m /\ k <= n => g[k] = h[k]
<1> DEFINE S == {k \in Nat : k <= m /\ k <= n => g[k] = h[k]}
<1>1. 0 \in S
  BY DEF Chain
<1>2. ASSUME NEW k \in Nat, k \in S PROVE k + 1 \in S
  <2>1. SUFFICES ASSUME k + 1 <= m, k + 1 <= n PROVE g[k + 1] = h[k + 1]
    OBVIOUS
  <2>2. k \in 0 .. (m - 1) /\ k \in 0 .. (n - 1) /\ g[k] = h[k]
    BY <1>2, <2>1
  <2> QED
    BY <2>2 DEF Chain
<1> HIDE DEF S
<1>3. \A k \in Nat : k \in S
  BY <1>1, <1>2, SetInduction
<1> QED
  BY <1>3 DEF S

Follows(f, V, a, step) ==
    /\ f \in [Nat -> V]
    /\ f[0] = a
    /\ \A n \in Nat : f[n + 1] = step[n][f[n]]

LEMMA Recursion ==
    ASSUME NEW V, NEW a \in V, NEW step \in [Nat -> [V -> V]]
    PROVE  \E f : Follows(f, V, a, step)
<1> DEFINE g == [n \in Nat |-> CHOOSE h : h \in Chain(V, a, step, n)]
           f == [n \in Nat |-> g[n][n]]
<1>1. \A n \in Nat : g[n] \in Chain(V, a, step, n)
  BY ChainsExist
<1> HIDE DEF g
<1>2. \A n \in Nat : g[n][n] \in V /\ g[n][0] = a
  BY <1>1 DEF Chain
<1>3. f \in [Nat -> V] /\ f[0] = a
  BY <1>2
<1>4. ASSUME NEW n \in Nat PROVE f[n + 1] = step[n][f[n]]
  <2>1. g[n + 1][n + 1] = step[n][g[n + 1][n]]
    BY <1>1 DEF Chain
  <2>2. g[n + 1][n] = g[n][n]
    <3>1. n + 1 \in Nat /\ n <= n + 1 /\ n <= n
      OBVIOUS
    <3>2. /\ g[n] \in Chain(V, a, step, n)
          /\ g[n + 1] \in Chain(V, a, step, n + 1)
      BY <1>1, <3>1
    <3>3. \A k \in Nat : k <= n + 1 /\ k <= n => g[n + 1][k] = g[n][k]
      BY <3>1, <3>2, ChainsAgree
    <3> QED
      BY <3>1, <3>3
  <2> QED
    BY <2>1, <2>2
<1> HIDE DEF f
<1> QED
  BY <1>3, <1>4 DEF Follows

-----------------------------------------------------------------------------
(* Weights.                                                                *)

LEMMA PowerNext ==
    /\ Power[0] = 1
    /\ \A n \in Nat : Power[n] \in Nat \ {0} /\ Power[n + 1] = ByteSize * Power[n]
<1> DEFINE P(f) == f = [n \in Nat |-> IF n = 0 THEN 1 ELSE ByteSize * f[n - 1]]
           step == [n \in Nat |-> [v \in Nat \ {0} |-> ByteSize * v]]
<1>1. step \in [Nat -> [(Nat \ {0}) -> Nat \ {0}]]
  BY ByteAssumption
<1>2. PICK f \in [Nat -> Nat \ {0}] : f[0] = 1 /\ \A n \in Nat : f[n + 1] = step[n][f[n]]
  <2> DEFINE V == Nat \ {0}
             a == 1
  <2>1. a \in V /\ step \in [Nat -> [V -> V]]
    BY <1>1
  <2> HIDE DEF step, V, a
  <2>2. \E f : Follows(f, V, a, step)
    BY <2>1, Recursion
  <2> QED
    BY <2>2 DEF Follows, V, a
<1>3. \A n \in Nat : n # 0 => f[n] = ByteSize * f[n - 1]
  <2> TAKE n \in Nat
  <2>1. n # 0 => n - 1 \in Nat /\ (n - 1) + 1 = n
    OBVIOUS
  <2> QED
    BY <1>2, <2>1
<1>4. P(f)
  BY <1>2, <1>3
<1>5. Power = CHOOSE h : P(h)
  BY DEF Power
<1> HIDE DEF P
<1>6. P(Power)
  BY <1>4, <1>5
<1>7. Power = [n \in Nat |-> IF n = 0 THEN 1 ELSE ByteSize * Power[n - 1]]
  BY <1>6 DEF P
<1>8. Power[0] = 1 /\ \A n \in Nat : Power[n + 1] = ByteSize * Power[n]
  <2>1. \A n \in Nat : Power[n] = IF n = 0 THEN 1 ELSE ByteSize * Power[n - 1]
    BY <1>7
  <2>2. ASSUME NEW n \in Nat PROVE Power[n + 1] = ByteSize * Power[n]
    <3>1. n + 1 \in Nat /\ n + 1 # 0 /\ (n + 1) - 1 = n
      OBVIOUS
    <3> QED
      BY <2>1, <3>1
  <2> QED
    BY <2>1, <2>2
<1> DEFINE S == {n \in Nat : Power[n] \in Nat \ {0}}
<1>9. 0 \in S
  BY <1>8
<1>10. ASSUME NEW n \in Nat, n \in S PROVE n + 1 \in S
  BY <1>8, <1>10, ByteAssumption
<1> HIDE DEF S
<1>11. \A n \in Nat : n \in S
  BY <1>9, <1>10, SetInduction
<1> QED
  BY <1>8, <1>11 DEF S

LEMMA WeightIsPower == \A n \in 0 .. 8 : Weight[n] = Power[n]
BY DEF Weight

\* A sum of exponents is a product.
LEMMA PowerSum == \A m, n \in Nat : Power[m + n] = Power[m] * Power[n]
<1> SUFFICES ASSUME NEW m \in Nat PROVE \A n \in Nat : Power[m + n] = Power[m] * Power[n]
  OBVIOUS
<1> DEFINE S == {n \in Nat : Power[m + n] = Power[m] * Power[n]}
<1>1. 0 \in S
  BY PowerNext
<1>2. ASSUME NEW n \in Nat, n \in S PROVE n + 1 \in S
  <2>1. Power[m + (n + 1)] = ByteSize * Power[m + n]
    <3>1. m + (n + 1) = (m + n) + 1 /\ m + n \in Nat
      OBVIOUS
    <3> QED
      BY <3>1, PowerNext
  <2>2. Power[n + 1] = ByteSize * Power[n] /\ Power[m + n] = Power[m] * Power[n]
    BY <1>2, PowerNext
  <2>3. Power[m] * (ByteSize * Power[n]) = ByteSize * (Power[m] * Power[n])
    BY PowerNext, ByteAssumption
  <2> QED
    BY <2>1, <2>2, <2>3
<1> HIDE DEF S
<1>3. \A n \in Nat : n \in S
  BY <1>1, <1>2, SetInduction
<1> QED
  BY <1>3 DEF S

LEMMA PowerGrows ==
    \A m, n \in Nat : m <= n => /\ Power[n] = Power[m] * Power[n - m]
                                /\ Power[m] <= Power[n]
<1> TAKE m, n \in Nat
<1> HAVE m <= n
<1>1. n - m \in Nat /\ m + (n - m) = n
  OBVIOUS
<1>2. Power[n] = Power[m] * Power[n - m]
  BY <1>1, PowerSum
<1>3. Power[m] \in Nat \ {0} /\ Power[n - m] \in Nat \ {0}
  BY <1>1, PowerNext
<1>4. Power[m] * Power[n - m] >= Power[m] * 1
  BY <1>3
<1> QED
  BY <1>2, <1>3, <1>4

-----------------------------------------------------------------------------
(* Division.                                                               *)

LEMMA Digits ==
    ASSUME NEW d \in Nat \ {0}, NEW q \in Int, NEW r \in 0 .. (d - 1)
    PROVE  (d * q + r) \div d = q /\ (d * q + r) % d = r
<1> DEFINE n == d * q + r
           p == n \div d
           m == n % d
<1>1. n \in Int /\ p \in Int /\ m \in 0 .. (d - 1) /\ n = d * p + m
  OBVIOUS
<1>2. d * (p - q) = r - m
  <2> HIDE DEF p, m
  <2>1. d * (p - q) = d * p - d * q
    BY <1>1
  <2> QED
    BY <1>1, <2>1
<1>3. p = q
  <2> HIDE DEF n, p, m
  <2>1. CASE p - q >= 1
    <3>1. d * (p - q) >= d * 1
      BY <2>1, <1>1
    <3> QED
      BY <3>1, <1>1, <1>2
  <2>2. CASE p - q <= -1
    <3>1. d * (p - q) <= d * (-1)
      BY <2>2, <1>1
    <3> QED
      BY <3>1, <1>1, <1>2
  <2> QED
    BY <2>1, <2>2, <1>1
<1> QED
  BY <1>1, <1>2, <1>3

\* Numbers of two digits in any order of the factors.
LEMMA TwoDigits ==
    ASSUME NEW d \in Nat \ {0}, NEW q \in Int, NEW r \in 0 .. (d - 1), NEW i, i = r + d * q
    PROVE  i \div d = q /\ i % d = r
<1>1. d * q \in Int
  OBVIOUS
<1>2. i = d * q + r
  BY <1>1
<1> QED
  BY <1>2, Digits

-----------------------------------------------------------------------------
(* Numbers.                                                                *)

AreBytes(b, n) == \A k \in 0 .. (n - 1) : b[k] \in Byte

Sums(F, b, n) ==
    /\ F \in [Nat -> Int]
    /\ F[0] = 0
    /\ \A k \in 0 .. (n - 1) : F[k + 1] = F[k] + Power[k] * b[k]
    /\ \A k \in 0 .. n : Number(b, k) = F[k]

LEMMA SumsExist ==
    ASSUME NEW b, NEW m \in 0 .. 8, AreBytes(b, m)
    PROVE  \E F : Sums(F, b, m)
<1> DEFINE V == Int
           a == 0
           step == [n \in Nat |-> [v \in Int |->
                      v + (IF n < m THEN Power[n] * b[n] ELSE 0)]]
<1>1. a \in V /\ step \in [Nat -> [V -> V]]
  <2>1. \A n \in Nat : (IF n < m THEN Power[n] * b[n] ELSE 0) \in Int
    <3> TAKE n \in Nat
    <3>1. CASE n < m
      <4>1. b[n] \in Int
        BY <3>1, ByteAssumption DEF AreBytes, Byte
      <4>2. Power[n] \in Nat
        BY PowerNext
      <4> QED
        BY <3>1, <4>1, <4>2
    <3> QED
      BY <3>1
  <2> QED
    BY <2>1
<1>2. \E F : Follows(F, V, a, step)
  <2> HIDE DEF V, a, step
  <2> QED
    BY <1>1, Recursion
<1>3. PICK F : F \in [Nat -> Int] /\ F[0] = 0 /\ \A n \in Nat : F[n + 1] = step[n][F[n]]
  BY <1>2 DEF Follows
<1>4. \A n \in 0 .. (m - 1) : F[n + 1] = F[n] + Power[n] * b[n]
  <2> TAKE n \in 0 .. (m - 1)
  <2>1. n \in Nat /\ n < m
    OBVIOUS
  <2>2. F[n + 1] = step[n][F[n]] /\ F[n] \in Int
    BY <1>3, <2>1
  <2> QED
    BY <2>1, <2>2
<1> HIDE DEF step
<1>5. ASSUME NEW n \in 0 .. m PROVE Number(b, n) = F[n]
  <2> DEFINE P(f) == f = [k \in 0 .. n |->
                            IF k = 0 THEN 0 ELSE f[k - 1] + Weight[k - 1] * b[k - 1]]
             G == [k \in 0 .. n |-> F[k]]
  <2>1. \A k \in 1 .. n : F[k] = F[k - 1] + Weight[k - 1] * b[k - 1]
    <3> TAKE k \in 1 .. n
    <3>1. k - 1 \in 0 .. (m - 1) /\ (k - 1) + 1 = k /\ k - 1 \in 0 .. 8
      BY <1>5
    <3> QED
      BY <1>4, <3>1, WeightIsPower
  <2>2. P(G)
    <3>1. G = [k \in 0 .. n |->
                 IF k = 0 THEN 0 ELSE G[k - 1] + Weight[k - 1] * b[k - 1]]
      <4>1. ASSUME NEW k \in 0 .. n
            PROVE F[k] = IF k = 0 THEN 0 ELSE G[k - 1] + Weight[k - 1] * b[k - 1]
        <5>1. CASE k = 0
          BY <1>3, <5>1
        <5>2. CASE k # 0
          <6>1. k \in 1 .. n /\ k - 1 \in 0 .. n
            BY <1>5, <4>1, <5>2
          <6> QED
            BY <2>1, <5>2, <6>1
        <5> QED
          BY <5>1, <5>2
      <4> QED
        BY <4>1
    <3> QED
      BY <3>1
  <2>3. Number(b, n) = (CHOOSE f : P(f))[n]
    BY DEF Number
  <2>4. PICK H : P(H) /\ H = CHOOSE f : P(f)
    <3> HIDE DEF P
    <3> QED
      BY <2>2
  <2> DEFINE S == {k \in Nat : k <= n => H[k] = F[k]}
  <2>5. 0 \in S
    BY <1>3, <1>5, <2>4
  <2>6. ASSUME NEW k \in Nat, k \in S PROVE k + 1 \in S
    <3>1. SUFFICES ASSUME k + 1 <= n PROVE H[k + 1] = F[k + 1]
      OBVIOUS
    <3>2. k + 1 \in 1 .. n /\ (k + 1) - 1 = k /\ H[k] = F[k] /\ k + 1 \in 0 .. n
      BY <1>5, <2>6, <3>1
    <3>3. H[k + 1] = H[k] + Weight[k] * b[k]
      BY <2>4, <3>2
    <3>4. F[k + 1] = F[k] + Weight[k] * b[k]
      BY <2>1, <3>2
    <3> QED
      BY <3>2, <3>3, <3>4
  <2> HIDE DEF S
  <2>7. \A k \in Nat : k \in S
    BY <2>5, <2>6, SetInduction
  <2>8. n \in Nat /\ n <= n
    BY <1>5
  <2> QED
    BY <2>3, <2>4, <2>7, <2>8 DEF S
<1> QED
  BY <1>3, <1>4, <1>5 DEF Sums

LEMMA NumberNext ==
    ASSUME NEW b, NEW n \in 0 .. 8, AreBytes(b, n)
    PROVE  /\ Number(b, 0) = 0
           /\ \A k \in 0 .. n : Number(b, k) \in Int
           /\ \A k \in 0 .. (n - 1) :
                /\ b[k] \in Byte /\ b[k] \in Int
                /\ Number(b, k + 1) = Number(b, k) + Power[k] * b[k]
<1>1. PICK F : Sums(F, b, n)
  BY SumsExist
<1>2. 0 \in 0 .. n /\ \A k \in 0 .. n : k \in Nat
  OBVIOUS
<1>3. \A k \in 0 .. (n - 1) : k \in 0 .. n /\ k + 1 \in 0 .. n
  OBVIOUS
<1>4. \A k \in 0 .. (n - 1) : b[k] \in Byte /\ b[k] \in Int
  BY ByteAssumption DEF AreBytes, Byte
<1> QED
  BY <1>1, <1>2, <1>3, <1>4 DEF Sums

LEMMA NumberRange ==
    ASSUME NEW b, NEW n \in 0 .. 8, AreBytes(b, n)
    PROVE  Number(b, n) \in 0 .. (Power[n] - 1)
<1> DEFINE S == {k \in Nat : k <= n => Number(b, k) \in 0 .. (Power[k] - 1)}
<1>1. 0 \in S
  BY NumberNext, PowerNext
<1>2. ASSUME NEW k \in Nat, k \in S PROVE k + 1 \in S
  <2>1. SUFFICES ASSUME k + 1 <= n
                 PROVE  Number(b, k + 1) \in 0 .. (Power[k + 1] - 1)
    OBVIOUS
  <2>2. k \in 0 .. (n - 1) /\ Number(b, k) \in 0 .. (Power[k] - 1)
    BY <1>2, <2>1
  <2>3. b[k] \in 0 .. (ByteSize - 1) /\ Number(b, k + 1) = Number(b, k) + Power[k] * b[k]
    BY <2>2, NumberNext DEF Byte
  <2>4. Power[k] \in Nat \ {0} /\ Power[k + 1] = ByteSize * Power[k] /\ ByteSize \in Nat
    BY PowerNext, ByteAssumption
  <2> DEFINE p == Power[k]
             c == b[k]
             l == Number(b, k)
  <2>5. p * c >= 0 /\ p * c <= p * (ByteSize - 1) /\ p * c \in Int
    BY <2>3, <2>4
  <2>6. p * (ByteSize - 1) = ByteSize * p - p /\ ByteSize * p \in Int
    BY <2>4
  <2>7. l \in 0 .. (p - 1) /\ p \in Nat
    BY <2>2, <2>4
  <2>8. Number(b, k + 1) = l + p * c /\ Power[k + 1] = ByteSize * p
    BY <2>3, <2>4
  <2> HIDE DEF p, c, l
  <2> QED
    BY <2>5, <2>6, <2>7, <2>8
<1> HIDE DEF S
<1>3. \A k \in Nat : k \in S
  BY <1>1, <1>2, SetInduction
<1> QED
  BY <1>3 DEF S

\* Zeros on the left count for nothing.
LEMMA LeadingZeros ==
    ASSUME NEW b, NEW n \in 0 .. 8, AreBytes(b, n), NEW m \in 0 .. n,
           \A k \in m .. (n - 1) : b[k] = 0
    PROVE  Number(b, n) = Number(b, m)
<1> DEFINE S == {j \in Nat : m + j <= n => Number(b, m + j) = Number(b, m)}
<1>1. 0 \in S
  OBVIOUS
<1>2. ASSUME NEW j \in Nat, j \in S PROVE j + 1 \in S
  <2>1. SUFFICES ASSUME m + (j + 1) <= n PROVE Number(b, m + (j + 1)) = Number(b, m)
    OBVIOUS
  <2> DEFINE i == m + j
  <2>2. i \in Nat /\ i \in 0 .. (n - 1) /\ i \in 0 .. n /\ i \in m .. (n - 1) /\ m + (j + 1) = i + 1
    BY <2>1
  <2>3. Number(b, i) = Number(b, m)
    BY <1>2, <2>1
  <2> HIDE DEF i
  <2>4. Number(b, i + 1) = Number(b, i) + Power[i] * 0
    BY <2>2, NumberNext
  <2>5. Power[i] \in Int
    BY <2>2, PowerNext
  <2>6. Number(b, i) \in Int
    BY <2>2, NumberNext
  <2> QED
    BY <2>2, <2>3, <2>4, <2>5, <2>6
<1> HIDE DEF S
<1>3. \A j \in Nat : j \in S
  BY <1>1, <1>2, SetInduction
<1>4. n - m \in Nat /\ m + (n - m) = n
  OBVIOUS
<1> QED
  BY <1>3, <1>4 DEF S

Shifted(x, b, m, n) == \A k \in 0 .. (n - 1) : x[k] = b[m + k]

\* A number is its low m bytes and the number of the n bytes above.
LEMMA SplitNumber ==
    ASSUME NEW m \in Nat, NEW n \in Nat, m + n <= 8,
           NEW b, NEW x, AreBytes(b, m + n), Shifted(x, b, m, n)
    PROVE  /\ AreBytes(x, n) /\ AreBytes(b, m)
           /\ Number(b, m + n) = Number(b, m) + Power[m] * Number(x, n)
<1>0. \A k \in 0 .. (n - 1) : x[k] = b[m + k]
  BY DEF Shifted
<1>1. AreBytes(x, n) /\ AreBytes(b, m) /\ m + n \in 0 .. 8 /\ n \in 0 .. 8
  BY <1>0 DEF AreBytes
<1> DEFINE S == {j \in Nat : j <= n =>
                   Number(b, m + j) = Number(b, m) + Power[m] * Number(x, j)}
<1>2. 0 \in S
  <2>1. m \in 0 .. (m + n)
    OBVIOUS
  <2>2. Number(b, m) \in Int /\ Power[m] \in Int /\ Number(x, 0) = 0
    BY <1>1, <2>1, NumberNext, PowerNext
  <2> QED
    BY <2>2
<1>3. ASSUME NEW j \in Nat, j \in S PROVE j + 1 \in S
  <2>1. SUFFICES ASSUME j + 1 <= n
                 PROVE  Number(b, m + (j + 1)) = Number(b, m) + Power[m] * Number(x, j + 1)
    OBVIOUS
  <2> DEFINE i == m + j
  <2>2. /\ i \in Nat /\ i \in 0 .. (m + n - 1) /\ m + (j + 1) = i + 1 /\ i \in 0 .. (m + n)
        /\ j \in 0 .. (n - 1) /\ j \in 0 .. n /\ m \in 0 .. (m + n)
    BY <2>1
  <2>3. Number(b, i) = Number(b, m) + Power[m] * Number(x, j)
    BY <1>3, <2>1
  <2>4. Power[i] = Power[m] * Power[j]
    BY PowerSum
  <2>5. b[i] = x[j]
    BY <1>0, <2>2
  <2> HIDE DEF i
  <2>6. /\ Number(b, i + 1) = Number(b, i) + Power[i] * x[j] /\ x[j] \in Int
        /\ Number(x, j + 1) = Number(x, j) + Power[j] * x[j]
        /\ Number(b, m) \in Int /\ Number(x, j) \in Int
    <3>1. Number(b, i + 1) = Number(b, i) + Power[i] * b[i] /\ Number(b, m) \in Int
      <4> DEFINE t == m + n
      <4>1. t \in 0 .. 8 /\ AreBytes(b, t) /\ i \in 0 .. (t - 1) /\ m \in 0 .. t
        BY <1>1, <2>2
      <4> HIDE DEF t
      <4> QED
        BY <4>1, NumberNext
    <3>2. /\ Number(x, j + 1) = Number(x, j) + Power[j] * x[j] /\ x[j] \in Int
          /\ Number(x, j) \in Int
      BY <1>1, <2>2, NumberNext
    <3> QED
      BY <2>5, <3>1, <3>2
  <2>7. Power[m] \in Int /\ Power[j] \in Int
    BY PowerNext
  <2> DEFINE p == Power[m]
             q == Power[j]
             c == x[j]
             h == Number(x, j)
             l == Number(b, m)
  <2>8. p \in Int /\ q \in Int /\ c \in Int /\ h \in Int /\ l \in Int
    BY <2>6, <2>7
  <2>9. Number(b, i + 1) = (l + p * h) + (p * q) * c /\ Number(x, j + 1) = h + q * c
    BY <2>3, <2>4, <2>6
  <2> HIDE DEF p, q, c, h, l
  <2>10. (l + p * h) + (p * q) * c = l + p * (h + q * c)
    <3>1. (p * q) * c = p * (q * c) /\ q * c \in Int
      BY <2>8
    <3>2. p * (h + q * c) = p * h + p * (q * c)
      BY <2>8, <3>1
    <3>3. p * h \in Int /\ p * (q * c) \in Int
      BY <2>8, <3>1
    <3> QED
      BY <2>8, <3>1, <3>2, <3>3
  <2> QED
    BY <2>2, <2>9, <2>10 DEF l, p
<1> HIDE DEF S
<1>4. \A j \in Nat : j \in S
  BY <1>2, <1>3, SetInduction
<1>5. n <= n
  OBVIOUS
<1> QED
  BY <1>1, <1>4, <1>5 DEF S

\* Numbers depend on nothing but their bytes.
LEMMA SameNumber ==
    ASSUME NEW b, NEW x, NEW n \in 0 .. 8, AreBytes(b, n), \A k \in 0 .. (n - 1) : x[k] = b[k]
    PROVE  Number(x, n) = Number(b, n)
<1>1. 0 \in Nat /\ n \in Nat /\ 0 + n = n
  OBVIOUS
<1>2. \A k \in 0 .. (n - 1) : x[k] = b[0 + k]
  OBVIOUS
<1>3. AreBytes(x, n) /\ Number(b, 0 + n) = Number(b, 0) + Power[0] * Number(x, n)
  <2>1. Shifted(x, b, 0, n)
    BY <1>2 DEF Shifted
  <2> QED
    BY <1>1, <2>1, SplitNumber
<1>4. Number(b, 0) = 0 /\ Power[0] = 1 /\ Number(x, n) \in Int
  BY <1>1, <1>3, NumberNext, PowerNext
<1> QED
  BY <1>1, <1>3, <1>4

\* The same, with the length of the sum named.
LEMMA SplitAt ==
    ASSUME NEW t \in 0 .. 8, NEW m \in Nat, NEW n \in Nat, t = m + n,
           NEW b, NEW x, AreBytes(b, t), Shifted(x, b, m, n)
    PROVE  /\ AreBytes(x, n) /\ AreBytes(b, m)
           /\ Number(b, t) = Number(b, m) + Power[m] * Number(x, n)
<1>1. m + n <= 8 /\ AreBytes(b, m + n)
  OBVIOUS
<1>2. /\ AreBytes(x, n) /\ AreBytes(b, m)
      /\ Number(b, m + n) = Number(b, m) + Power[m] * Number(x, n)
  BY <1>1, SplitNumber
<1> QED
  BY <1>2

\* The n bytes from the o-th one are a quotient's remainder.
LEMMA PartOf ==
    ASSUME NEW o \in Nat, NEW n \in Nat, o + n <= 8,
           NEW b, NEW x, AreBytes(b, 8), Shifted(x, b, o, n)
    PROVE  /\ AreBytes(x, n)
           /\ (Number(b, 8) \div Power[o]) % Power[n] = Number(x, n)
<1>0. PICK m \in Nat, s \in Nat : s = n + m /\ 8 = o + s
  <2>1. 8 - (o + n) \in Nat /\ 8 - o \in Nat
    OBVIOUS
  <2> QED
    BY <2>1
<1> DEFINE y == [k \in Nat |-> b[o + k]]
           z == [k \in Nat |-> b[o + (n + k)]]
           h == Number(z, m)
           X == Number(x, n)
           Y == Number(y, s)
           L == Number(b, o)
<1>1. /\ o \in 0 .. 8 /\ n \in 0 .. 8 /\ m \in 0 .. 8 /\ s \in 0 .. 8
      /\ 8 \in 0 .. 8
  BY <1>0
<1>2. AreBytes(y, s) /\ AreBytes(b, o) /\ Number(b, 8) = L + Power[o] * Y
  <2>1. Shifted(y, b, o, s)
    BY <1>0, <1>1 DEF Shifted
  <2> HIDE DEF y
  <2> QED
    BY <1>0, <1>1, <2>1, SplitAt
<1>3. AreBytes(z, m) /\ AreBytes(y, n) /\ Y = Number(y, n) + Power[n] * h
  <2>1. Shifted(z, y, n, m)
    BY <1>0, <1>1 DEF Shifted
  <2> HIDE DEF y, z
  <2> QED
    BY <1>0, <1>1, <1>2, <2>1, SplitAt
<1>4. Number(y, n) = X /\ AreBytes(x, n)
  <2>1. \A k \in 0 .. (n - 1) : x[k] = y[k]
    BY DEF Shifted
  <2> HIDE DEF y
  <2>2. AreBytes(x, n)
    BY <2>1, <1>3 DEF AreBytes
  <2> QED
    BY <1>0, <1>1, <1>3, <2>1, <2>2, SameNumber
<1>5. X \in 0 .. (Power[n] - 1) /\ L \in 0 .. (Power[o] - 1)
  BY <1>0, <1>1, <1>2, <1>4, NumberRange
<1>6. h \in Int
  <2>1. h \in 0 .. (Power[m] - 1)
    <3> HIDE DEF z
    <3> QED
      BY <1>0, <1>1, <1>3, NumberRange
  <2> QED
    BY <2>1
<1>7. Power[o] \in Nat \ {0} /\ Power[n] \in Nat \ {0}
  BY PowerNext
<1> HIDE DEF h, X, Y, L, y, z
<1>8. Y = X + Power[n] * h
  BY <1>3, <1>4
<1>9. Y \in Int
  BY <1>5, <1>6, <1>7, <1>8
<1>10. Number(b, 8) \div Power[o] = Y
  <2>1. (Power[o] * Y + L) \div Power[o] = Y
    BY <1>5, <1>7, <1>9, Digits
  <2>2. Power[o] * Y \in Int
    BY <1>7, <1>9
  <2> QED
    BY <1>2, <1>5, <2>1, <2>2
<1>11. Y % Power[n] = X
  <2>1. (Power[n] * h + X) % Power[n] = X
    BY <1>5, <1>6, <1>7, Digits
  <2>2. Power[n] * h \in Int
    BY <1>6, <1>7
  <2> QED
    BY <1>5, <1>8, <2>1, <2>2
<1> QED
  BY <1>4, <1>10, <1>11 DEF X

AgreeOutside(c, b, o, n) == \A k \in 0 .. 7 : (k < o \/ k >= o + n) => c[k] = b[k]

\* Other n bytes from the o-th one add the weighted difference.
LEMMA ReplaceIn ==
    ASSUME NEW o \in Nat, NEW n \in Nat, o + n <= 8,
           NEW b, AreBytes(b, 8), NEW c, AreBytes(c, 8), NEW x, NEW y,
           Shifted(x, b, o, n), Shifted(y, c, o, n), AgreeOutside(c, b, o, n)
    PROVE  Number(c, 8) = Number(b, 8) + Power[o] * (Number(y, n) - Number(x, n))
<1>0. PICK m \in Nat, s \in Nat : s = n + m /\ 8 = o + s
  <2>1. 8 - (o + n) \in Nat /\ 8 - o \in Nat
    OBVIOUS
  <2> QED
    BY <2>1
<1> DEFINE v == [k \in Nat |-> b[o + k]]
           w == [k \in Nat |-> c[o + k]]
           z == [k \in Nat |-> b[o + (n + k)]]
           h == Number(z, m)
           X == Number(x, n)
           Y == Number(y, n)
           L == Number(b, o)
<1>1. /\ o \in 0 .. 8 /\ n \in 0 .. 8 /\ m \in 0 .. 8 /\ s \in 0 .. 8
      /\ 8 \in 0 .. 8
  BY <1>0
<1>2. /\ AreBytes(v, s) /\ AreBytes(b, o)
      /\ Number(b, 8) = L + Power[o] * Number(v, s)
  <2>1. Shifted(v, b, o, s)
    BY <1>0, <1>1 DEF Shifted
  <2> HIDE DEF v
  <2> QED
    BY <1>0, <1>1, <2>1, SplitAt
<1>3. /\ AreBytes(w, s) /\ AreBytes(c, o)
      /\ Number(c, 8) = Number(c, o) + Power[o] * Number(w, s)
  <2>1. Shifted(w, c, o, s)
    BY <1>0, <1>1 DEF Shifted
  <2> HIDE DEF w
  <2> QED
    BY <1>0, <1>1, <2>1, SplitAt
<1>4. AreBytes(z, m) /\ AreBytes(v, n) /\ Number(v, s) = Number(v, n) + Power[n] * h
  <2>1. Shifted(z, v, n, m)
    BY <1>0, <1>1 DEF Shifted
  <2> HIDE DEF v, z
  <2> QED
    BY <1>0, <1>1, <1>2, <2>1, SplitAt
<1>5. AreBytes(w, n) /\ Number(w, s) = Number(w, n) + Power[n] * h
  <2>1. Shifted(z, w, n, m)
    BY <1>0, <1>1 DEF Shifted, AgreeOutside
  <2> HIDE DEF w, z
  <2> QED
    BY <1>0, <1>1, <1>3, <2>1, SplitAt
<1>6. Number(v, n) = X
  <2>1. \A k \in 0 .. (n - 1) : x[k] = v[k]
    BY DEF Shifted
  <2> HIDE DEF v
  <2> QED
    BY <1>0, <1>1, <1>4, <2>1, SameNumber
<1>7. Number(w, n) = Y
  <2>1. \A k \in 0 .. (n - 1) : y[k] = w[k]
    BY DEF Shifted
  <2> HIDE DEF w
  <2> QED
    BY <1>0, <1>1, <1>5, <2>1, SameNumber
<1>8. Number(c, o) = L
  <2>1. \A k \in 0 .. (o - 1) : c[k] = b[k]
    BY <1>1 DEF AgreeOutside
  <2> QED
    BY <1>0, <1>1, <1>2, <2>1, SameNumber
<1>9. X \in Int /\ Y \in Int
  <2>1. Number(v, n) \in 0 .. (Power[n] - 1) /\ Number(w, n) \in 0 .. (Power[n] - 1)
    <3> HIDE DEF v, w
    <3> QED
      BY <1>0, <1>1, <1>4, <1>5, NumberRange
  <2> QED
    BY <2>1, <1>6, <1>7
<1>10. L \in Int
  <2>1. L \in 0 .. (Power[o] - 1)
    BY <1>0, <1>1, <1>2, NumberRange
  <2> QED
    BY <2>1
<1>11. h \in Int
  <2>1. h \in 0 .. (Power[m] - 1)
    <3> HIDE DEF z
    <3> QED
      BY <1>0, <1>1, <1>4, NumberRange
  <2> QED
    BY <2>1
<1>12. Power[o] \in Int /\ Power[n] \in Int
  BY PowerNext
<1> DEFINE p == Power[o]
           q == Power[n] * h
<1>13. p \in Int /\ q \in Int
  BY <1>11, <1>12
<1>14. Number(b, 8) = L + p * (X + q) /\ Number(c, 8) = L + p * (Y + q)
  BY <1>2, <1>3, <1>4, <1>5, <1>6, <1>7, <1>8
<1> HIDE DEF p, q, h, X, Y, L, v, w, z
<1>15. Number(c, 8) = Number(b, 8) + p * (Y - X)
  <2>1. p * (X + q) = p * X + p * q /\ p * (Y + q) = p * Y + p * q /\ p * (Y - X) = p * Y - p * X
    BY <1>9, <1>13
  <2>2. p * X \in Int /\ p * Y \in Int /\ p * q \in Int
    BY <1>9, <1>13
  <2> QED
    BY <1>10, <1>14, <2>1, <2>2
<1> QED
  BY <1>15 DEF p, X, Y

\* A register's lowest bytes are the remainder of its number.
LEMMA LowPart ==
    ASSUME NEW b, NEW m \in 0 .. 8, AreBytes(b, m), NEW n \in 0 .. m
    PROVE  Number(b, m) % Power[n] = Number(b, n)
<1> DEFINE x == [k \in Nat |-> b[n + k]]
           s == m - n
<1>1. s \in Nat /\ s \in 0 .. 8 /\ n \in Nat /\ m = n + s /\ n \in 0 .. 8
  OBVIOUS
<1>2. Shifted(x, b, n, s)
  BY <1>1 DEF Shifted
<1> HIDE DEF x, s
<1>3. /\ AreBytes(x, s) /\ AreBytes(b, n)
      /\ Number(b, m) = Number(b, n) + Power[n] * Number(x, s)
  BY <1>1, <1>2, SplitAt
<1>4. Number(x, s) \in 0 .. (Power[s] - 1) /\ Number(b, n) \in 0 .. (Power[n] - 1)
  BY <1>1, <1>3, NumberRange
<1>5. Power[n] \in Nat \ {0} /\ Number(x, s) \in Int
  BY <1>1, <1>4, PowerNext
<1>6. (Power[n] * Number(x, s) + Number(b, n)) % Power[n] = Number(b, n)
  BY <1>4, <1>5, Digits
<1>7. Power[n] * Number(x, s) \in Int /\ Number(b, n) \in Int
  BY <1>4, <1>5
<1> QED
  BY <1>3, <1>6, <1>7

\* Adding a multiple does not change a remainder.
LEMMA AddMultiple ==
    ASSUME NEW d \in Nat \ {0}, NEW n \in Int, NEW q \in Int
    PROVE  (n + d * q) % d = n % d
<1> DEFINE p == n \div d
           r == n % d
<1>1. p \in Int /\ r \in 0 .. (d - 1) /\ n = d * p + r
  OBVIOUS
<1> HIDE DEF p, r
<1>2. p + q \in Int
  BY <1>1
<1>3. (d * (p + q) + r) % d = r
  BY <1>1, <1>2, Digits
<1>4. d * (p + q) = d * p + d * q /\ d * p \in Int /\ d * q \in Int
  BY <1>1
<1>5. d * (p + q) + r = n + d * q
  BY <1>1, <1>4
<1> QED
  BY <1>3, <1>5 DEF r

-----------------------------------------------------------------------------
(* The memory map.                                                         *)

\* Mapped doublewords are eight cells in order.
LEMMA Layout ==
    ASSUME NEW a \in DOMAIN Cell, a % 8 = 0
    PROVE  /\ a \in Nat /\ Cell[a] \in Nat /\ Cell[a] % 8 = 0 /\ Cell[a] \in Firsts
           /\ \A i \in 0 .. 7 : /\ a + i \in DOMAIN Cell
                                /\ Cell[a + i] = Cell[a] + i
                                /\ Cell[a] + i \in Cells
<1>1. a \in Nat /\ a \in Int
  <2>1. a \in 0 .. (Weight[4] - 1)
    BY LoadStoreAssumption
  <2>2. Weight[4] \in Nat
    BY WeightIsPower, PowerNext
  <2> QED
    BY <2>1, <2>2
<1>2. Cell[a] \in Nat /\ Cell[a] % 8 = 0
  <2>1. a - (a % 8) = a
    BY <1>1
  <2> QED
    BY <2>1, LoadStoreAssumption
<1> DEFINE S == {i \in Nat : i <= 7 => a + i \in DOMAIN Cell}
<1>3. 0 \in S
  BY <1>1
<1>4. ASSUME NEW i \in Nat, i \in S PROVE i + 1 \in S
  <2>1. SUFFICES ASSUME i + 1 <= 7 PROVE a + (i + 1) \in DOMAIN Cell
    OBVIOUS
  <2>2. a + i \in DOMAIN Cell /\ i < 7
    BY <1>4, <2>1
  <2>3. (a + i) % 8 = i
    BY <1>1, <2>2
  <2>4. (a + i) % 8 # 7
    BY <2>2, <2>3
  <2>5. (a + i) + 1 \in DOMAIN Cell
    BY <2>2, <2>4, LoadStoreAssumption
  <2>6. (a + i) + 1 = a + (i + 1)
    BY <1>1
  <2> QED
    BY <2>5, <2>6
<1> HIDE DEF S
<1>5. \A i \in Nat : i \in S
  BY <1>3, <1>4, SetInduction
<1>6. ASSUME NEW i \in 0 .. 7
      PROVE  a + i \in DOMAIN Cell /\ Cell[a + i] = Cell[a] + i
  <2>1. a + i \in DOMAIN Cell
    BY <1>5 DEF S
  <2>2. (a + i) % 8 = i /\ (a + i) - i = a
    BY <1>1
  <2> QED
    BY <2>1, <2>2, LoadStoreAssumption
<1>7. \A i \in 0 .. 7 : Cell[a] + i \in Cells
  BY <1>6 DEF Cells
<1>8. Cell[a] \in Firsts
  BY <1>2 DEF Firsts, Cells
<1> QED
  BY <1>1, <1>2, <1>6, <1>7, <1>8

LEMMA FirstsLayout ==
    ASSUME NEW d \in Firsts
    PROVE  d \in Nat /\ d % 8 = 0 /\ \A i \in 0 .. 7 : d + i \in Cells
<1>1. PICK a \in DOMAIN Cell : d = Cell[a] /\ d % 8 = 0
  BY DEF Firsts, Cells
<1> DEFINE base == a - (a % 8)
<1>2. a \in Nat
  <2>1. Weight[4] \in Nat
    BY WeightIsPower, PowerNext
  <2> QED
    BY <2>1, LoadStoreAssumption
<1>3. base \in DOMAIN Cell /\ Cell[base] % 8 = 0 /\ Cell[a] = Cell[base] + (a % 8)
  BY LoadStoreAssumption
<1>4. base % 8 = 0 /\ a % 8 \in 0 .. 7
  BY <1>2
<1> HIDE DEF base
<1>5. Cell[base] \in Nat
  BY <1>3, LoadStoreAssumption
<1>6. a % 8 = 0
  BY <1>1, <1>3, <1>4, <1>5
<1>7. d = Cell[base]
  BY <1>1, <1>3, <1>5, <1>6
<1> QED
  BY <1>3, <1>4, <1>7, Layout

\* Aligned accesses stay in a doubleword.
LEMMA AlignedFits ==
    ASSUME NEW a \in Nat, NEW n \in {1, 2, 4, 8}, a % n = 0
    PROVE  /\ n \in 0 .. 8 /\ a % 8 \in 0 .. 7 /\ (a % 8) + n <= 8
           /\ a - (a % 8) \in Nat /\ (a - (a % 8)) % 8 = 0
<1>1. CASE n = 1
  BY <1>1
<1>2. CASE n = 2
  BY <1>2
<1>3. CASE n = 4
  BY <1>3
<1>4. CASE n = 8
  BY <1>4
<1> QED
  BY <1>1, <1>2, <1>3, <1>4

LEMMA AlignedReaches ==
    ASSUME NEW a \in Nat, NEW n \in {1, 2, 4, 8}, a % n = 0
    PROVE  Reaches(a, n) <=> a - (a % 8) \in DOMAIN Cell
<1> DEFINE base == a - (a % 8)
           o == a % 8
<1>1. n \in 1 .. 8 /\ o \in 0 .. 7 /\ o + n <= 8 /\ base \in Nat /\ base % 8 = 0 /\ a = base + o
  BY AlignedFits
<1>2. ASSUME Reaches(a, n) PROVE base \in DOMAIN Cell
  <2>1. 0 \in 0 .. (n - 1) /\ a + 0 = a
    BY <1>1
  <2>2. a \in DOMAIN Cell
    BY <1>2, <2>1 DEF Reaches
  <2> QED
    BY <2>2, LoadStoreAssumption
<1>3. ASSUME base \in DOMAIN Cell PROVE Reaches(a, n)
  <2>1. SUFFICES ASSUME NEW i \in 0 .. (n - 1) PROVE a + i \in DOMAIN Cell
    BY DEF Reaches
  <2>2. o + i \in 0 .. 7 /\ a + i = base + (o + i)
    BY <1>1
  <2> HIDE DEF base, o
  <2>3. base + (o + i) \in DOMAIN Cell
    BY <1>1, <1>3, <2>2, Layout
  <2> QED
    BY <2>2, <2>3
<1> QED
  BY <1>2, <1>3

\* The n bytes at a are in a mapped doubleword, from its o-th one.
Selects(a, n, base, o) ==
    /\ base \in DOMAIN Cell /\ base % 8 = 0
    /\ n \in 0 .. 8 /\ o \in 0 .. 7 /\ o + n <= 8
    /\ a = base + o

\* Their cells are in order.
LEMMA CellsInOrder ==
    ASSUME NEW a, NEW n, NEW base, NEW o, Selects(a, n, base, o)
    PROVE  \A i \in 0 .. (n - 1) : /\ a + i \in DOMAIN Cell
                                   /\ Cell[a + i] = Cell[base] + (o + i)
                                   /\ Cell[a + i] \in Cells
<1> USE DEF Selects
<1> TAKE i \in 0 .. (n - 1)
<1>1. base \in Nat
  BY Layout
<1>2. o + i \in 0 .. 7 /\ a + i = base + (o + i)
  <2>1. o \in Int /\ n \in Int /\ i \in Int /\ 0 <= i /\ i < n
    OBVIOUS
  <2>2. o + i \in 0 .. 7
    BY <2>1
  <2>3. a + i = base + (o + i)
    BY <1>1, <2>1
  <2> QED
    BY <2>2, <2>3
<1>3. /\ base + (o + i) \in DOMAIN Cell /\ Cell[base + (o + i)] = Cell[base] + (o + i)
      /\ Cell[base] + (o + i) \in Cells
  BY <1>2, Layout
<1> QED
  BY <1>2, <1>3

-----------------------------------------------------------------------------
(* Types.                                                                  *)

LEMMA RegisterBytes ==
    ASSUME TypeOK
    PROVE  /\ \A r \in Regs, n \in 0 .. 8 : AreBytes(gpr[r], n)
           /\ \A f \in FRegs, n \in 0 .. 4 : AreBytes(fpr[f], n)
           /\ \A c \in Cells : memory[c] \in Byte
BY DEF TypeOK, Register, FloatRegister, AreBytes

LEMMA WeightFour == Weight[4] = Power[4] /\ Weight[4] \in Nat \ {0}
BY WeightIsPower, PowerNext

LEMMA AddressType ==
    ASSUME TypeOK, NEW rs \in Regs, NEW offset \in Offsets
    PROVE  Address(rs, offset) \in Nat
<1>1. Number(gpr[rs], 4) \in 0 .. (Power[4] - 1)
  BY RegisterBytes, NumberRange
<1>2. offset \in Int
  BY LoadStoreAssumption
<1> DEFINE n == Number(gpr[rs], 4)
           w == Weight[4]
<1>3. n \in Int /\ w \in Nat \ {0}
  BY <1>1, WeightFour
<1>4. (n + offset) % w \in Nat
  <2> HIDE DEF n, w
  <2> QED
    BY <1>2, <1>3
<1> QED
  BY <1>4 DEF Address

LEMMA LoadedType ==
    ASSUME TypeOK, NEW a \in Nat, NEW n \in 0 .. 8, Reaches(a, n)
    PROVE  Loaded(a, n) \in Register
<1>1. \A i \in 0 .. (n - 1) : Cell[a + i] \in Cells
  BY DEF Reaches, Cells
<1>2. \A i \in 0 .. (n - 1) : ByteAt(a + i) \in Byte
  BY <1>1, RegisterBytes DEF ByteAt
<1>3. 0 \in Byte
  BY ByteAssumption DEF Byte
<1>4. \A i \in 0 .. 7 : i < n => i \in 0 .. (n - 1)
  OBVIOUS
<1>5. \A i \in 0 .. 7 : (IF i < n THEN ByteAt(a + i) ELSE 0) \in Byte
  BY <1>2, <1>3, <1>4
<1> QED
  BY <1>5 DEF Loaded, Register

LEMMA StoredType ==
    ASSUME TypeOK, NEW a \in Nat, NEW n \in 0 .. 8, NEW b, AreBytes(b, n)
    PROVE  Stored(a, n, b) \in [Cells -> Byte]
<1>1. ASSUME NEW c \in Cells
      PROVE  (IF \E i \in 0 .. (n - 1) : Cell[a + i] = c
              THEN b[CHOOSE i \in 0 .. (n - 1) : Cell[a + i] = c]
              ELSE memory[c]) \in Byte
  <2>1. CASE \E i \in 0 .. (n - 1) : Cell[a + i] = c
    <3> DEFINE j == CHOOSE i \in 0 .. (n - 1) : Cell[a + i] = c
    <3>1. j \in 0 .. (n - 1)
      BY <2>1
    <3>2. b[j] \in Byte
      BY <3>1 DEF AreBytes
    <3> QED
      BY <2>1, <3>2
  <2>2. CASE ~ \E i \in 0 .. (n - 1) : Cell[a + i] = c
    BY <2>2, RegisterBytes
  <2> QED
    BY <2>1, <2>2
<1> QED
  BY <1>1 DEF Stored

LEMMA LoadCheckedType ==
    ASSUME TypeOK, NEW a \in Nat, NEW n \in 0 .. 8, NEW rt \in Regs, NEW result,
           Reaches(a, n) => result \in Register, LoadChecked(a, n, rt, result)
    PROVE  TypeOK'
BY DEF LoadChecked, Ignored, Crashes, TypeOK

LEMMA StoreCheckedType ==
    ASSUME TypeOK, NEW a \in Nat, NEW n \in 0 .. 8, NEW b, AreBytes(b, n),
           StoreChecked(a, n, b)
    PROVE  TypeOK'
<1>1. Stored(a, n, b) \in [Cells -> Byte]
  BY StoredType
<1> QED
  BY <1>1 DEF StoreChecked, Ignored, Crashes, TypeOK

LEMMA TypeInit == Init => TypeOK
<1>1. 0 \in Byte
  BY ByteAssumption DEF Byte
<1> QED
  BY <1>1 DEF Init, TypeOK, Register, FloatRegister

LEMMA TypeStep == TypeOK /\ [Next]_vars => TypeOK'
<1> SUFFICES ASSUME TypeOK, [Next]_vars PROVE TypeOK'
  OBVIOUS
<1>1. ASSUME NEW rs \in Regs, NEW rt \in Regs, NEW offset \in Offsets,
             \/ LB(rs, rt, offset) \/ LH(rs, rt, offset) \/ LW(rs, rt, offset)
             \/ LWU(rs, rt, offset) \/ LD(rs, rt, offset)
      PROVE  TypeOK'
  <2> DEFINE a == Address(rs, offset)
  <2>1. PICK n \in {1, 2, 4, 8} : LoadChecked(a, n, rt, Loaded(a, n))
    BY <1>1 DEF LB, LH, LW, LWU, LD, LWResult, LWUResult
  <2>2. a \in Nat /\ n \in 0 .. 8
    BY AddressType
  <2> HIDE DEF a
  <2>3. Reaches(a, n) => Loaded(a, n) \in Register
    BY <2>2, LoadedType
  <2> QED
    BY <2>1, <2>2, <2>3, LoadCheckedType
<1>2. ASSUME NEW rs \in Regs, NEW rt \in Regs, NEW offset \in Offsets,
             LWR(rs, rt, offset)
      PROVE  TypeOK'
  <2> DEFINE a == Address(rs, offset)
  <2>1. a \in Nat
    BY AddressType
  <2>2. Reaches(a, 4) => Loaded(a, 4) \in Register
    BY <2>1, LoadedType
  <2> QED
    BY <1>2, <2>2 DEF LWR, Crashes, TypeOK
<1>3. ASSUME NEW rs \in Regs, NEW rt \in Regs, NEW offset \in Offsets,
             \/ SB(rs, rt, offset) \/ SH(rs, rt, offset) \/ SW(rs, rt, offset)
             \/ SD(rs, rt, offset)
      PROVE  TypeOK'
  <2> DEFINE a == Address(rs, offset)
  <2>1. PICK n \in {1, 2, 4, 8} : StoreChecked(a, n, gpr[rt])
    BY <1>3 DEF SB, SH, SW, SD
  <2>2. a \in Nat /\ n \in 0 .. 8
    BY AddressType
  <2>3. AreBytes(gpr[rt], n)
    BY <2>2, RegisterBytes
  <2> HIDE DEF a
  <2> QED
    BY <2>1, <2>2, <2>3, StoreCheckedType
<1>4. ASSUME NEW rs \in Regs, NEW ft \in FRegs, NEW offset \in Offsets,
             LWC1(rs, ft, offset)
      PROVE  TypeOK'
  <2> DEFINE a == Address(rs, offset)
  <2>1. Reaches(a, 4) => LoadedFloat(a) \in FloatRegister
    <3>1. Reaches(a, 4) => \A i \in 0 .. 3 : Cell[a + i] \in Cells
      BY DEF Reaches, Cells
    <3> QED
      BY <3>1, RegisterBytes DEF LoadedFloat, FloatRegister, ByteAt
  <2> QED
    BY <1>4, <2>1 DEF LWC1, Ignored, Crashes, TypeOK
<1>5. ASSUME NEW rs \in Regs, NEW ft \in FRegs, NEW offset \in Offsets,
             SWC1(rs, ft, offset)
      PROVE  TypeOK'
  <2>1. Address(rs, offset) \in Nat /\ AreBytes(fpr[ft], 4) /\ 4 \in 0 .. 8
    BY AddressType, RegisterBytes
  <2> QED
    BY <1>5, <2>1, StoreCheckedType DEF SWC1
<1>6. ASSUME NEW r \in Regs, NEW v \in Values, Compute(r, v)
      PROVE  TypeOK'
  BY <1>6, LoadStoreAssumption DEF Compute, TypeOK
<1>7. ASSUME NEW f \in FRegs, NEW v \in Values, ComputeFloat(f, v)
      PROVE  TypeOK'
  <2>1. [i \in 0 .. 3 |-> v[i]] \in FloatRegister
    BY LoadStoreAssumption DEF Register, FloatRegister
  <2> QED
    BY <1>7, <2>1 DEF ComputeFloat, TypeOK
<1>8. CASE UNCHANGED vars
  BY <1>8 DEF vars, TypeOK
<1> QED
  BY <1>1, <1>2, <1>3, <1>4, <1>5, <1>6, <1>7, <1>8 DEF Next

\* Memory keeps its cells, and registers their bytes, whatever is loaded and
\* stored.
THEOREM TypeCorrect == Spec => []TypeOK
BY TypeInit, TypeStep, PTL DEF Spec

-----------------------------------------------------------------------------
(* The doublewords.                                                        *)

\* The bytes of a doubleword.
Eight(d) == [i \in 0 .. 7 |-> memory[d + i]]

Doubleword == [d \in Firsts |-> Number(Eight(d), 8)]

LEMMA EightBytes ==
    ASSUME TypeOK, NEW d \in Firsts
    PROVE  AreBytes(Eight(d), 8)
BY FirstsLayout, RegisterBytes DEF Eight, AreBytes

LEMMA PromisedWeights ==
    /\ Promise!Weight = Weight
    /\ \A n \in 0 .. 8 : Promise!Weight[n] = Power[n]
    /\ Promise!AddressSize = Power[4]
<1>1. Promise!Power = Power
  BY DEF Promise!Power, Power
<1>2. Promise!Weight = Weight
  BY <1>1 DEF Promise!Weight, Weight
<1> QED
  BY <1>2, WeightIsPower DEF Promise!AddressSize

\* The low four bytes of a register are enough for an address.
LEMMA AddressesAgree ==
    ASSUME TypeOK, NEW rs \in Regs, NEW offset \in Offsets
    PROVE  Promise!Address(rs, offset) = Address(rs, offset)
<1> DEFINE w == Power[4]
           l == Number(gpr[rs], 4)
           e == Number(gpr[rs], 8)
           h == e \div w
<1>1. AreBytes(gpr[rs], 8) /\ AreBytes(gpr[rs], 4)
  BY RegisterBytes
<1>2. e % w = l
  BY <1>1, LowPart
<1>3. e \in 0 .. (Power[8] - 1) /\ l \in 0 .. (w - 1)
  BY <1>1, NumberRange
<1>4. w \in Nat \ {0} /\ e \in Int /\ l \in Int /\ offset \in Int
  BY <1>3, PowerNext, LoadStoreAssumption
<1>5. Promise!Address(rs, offset) = (e + offset) % w
  BY PromisedWeights DEF Promise!Address
<1>6. Address(rs, offset) = (l + offset) % w
  BY WeightFour DEF Address
<1> HIDE DEF l, e, w
<1>7. h \in Int /\ e = w * h + l
  BY <1>2, <1>4
<1>8. ((l + offset) + w * h) % w = (l + offset) % w
  <2> HIDE DEF h
  <2>1. l + offset \in Int
    BY <1>4
  <2> QED
    BY <1>4, <1>7, <2>1, AddMultiple
<1>9. (l + offset) + w * h = e + offset
  <2>1. w * h \in Int
    BY <1>4, <1>7
  <2> HIDE DEF h
  <2> QED
    BY <1>4, <1>7, <2>1
<1> QED
  BY <1>5, <1>6, <1>8, <1>9

LEMMA PresentIs ==
    ASSUME NEW a \in Nat
    PROVE  Promise!Present(a) <=> a - (a % 8) \in DOMAIN Cell
<1>1. (a - (a % 8)) % 8 = 0
  OBVIOUS
<1> QED
  BY <1>1 DEF Promise!Present, Promise!Base

\* The first n bytes of x are those at an address.
Matches(x, a, n) == \A k \in 0 .. (n - 1) : x[k] = ByteAt(a + k)

\* Division and remainder give what byte accesses find.
LEMMA PartIs ==
    ASSUME TypeOK, NEW a, NEW n, NEW base, NEW o, Selects(a, n, base, o),
           NEW x, Matches(x, a, n)
    PROVE  AreBytes(x, n) /\ Promise!Part(a, n) = Number(x, n)
<1> DEFINE d == Cell[base]
<1>0. /\ base \in DOMAIN Cell /\ base % 8 = 0 /\ n \in 0 .. 8 /\ o \in 0 .. 7 /\ o + n <= 8
      /\ a = base + o
  BY DEF Selects
<1>1. base \in Nat /\ d \in Firsts /\ d \in Nat
  BY <1>0, Layout
<1>2. a \in Nat /\ a % 8 = o /\ a - (a % 8) = base
  BY <1>0, <1>1
<1>3. Promise!Part(a, n) = (Number(Eight(d), 8) \div Power[o]) % Power[n]
  <2>1. Promise!Base(a) = base /\ a % 8 = o
    BY <1>2 DEF Promise!Base
  <2>2. Promise!Weight[o] = Power[o] /\ Promise!Weight[n] = Power[n]
    BY <1>0, PromisedWeights
  <2> QED
    BY <1>0, <1>1, <2>1, <2>2 DEF Promise!Part, Eight
<1>4. \A k \in 0 .. (n - 1) : x[k] = Eight(d)[o + k]
  <2>2. \A k \in 0 .. (n - 1) : Cell[a + k] = d + (o + k)
    BY CellsInOrder
  <2>3. \A k \in 0 .. (n - 1) : o + k \in 0 .. 7
    BY <1>0
  <2> HIDE DEF d
  <2> QED
    BY <2>2, <2>3 DEF ByteAt, Eight, Matches
<1>5. AreBytes(Eight(d), 8)
  BY <1>1, EightBytes
<1> HIDE DEF d
<1>6. o \in Nat /\ n \in Nat /\ o + n <= 8
  BY <1>0
<1> DEFINE b == Eight(d)
<1>7. Shifted(x, b, o, n)
  BY <1>4 DEF Shifted
<1>8. AreBytes(b, 8)
  BY <1>5
<1>9. AreBytes(x, n) /\ (Number(b, 8) \div Power[o]) % Power[n] = Number(x, n)
  <2> HIDE DEF b
  <2> QED
    BY <1>6, <1>7, <1>8, PartOf
<1> QED
  BY <1>3, <1>9

\* A load of n bytes returns the number they are.
LEMMA LoadedIs ==
    ASSUME TypeOK, NEW a \in Nat, NEW n \in {1, 2, 4, 8}, a % n = 0,
           a - (a % 8) \in DOMAIN Cell
    PROVE  /\ Number(Loaded(a, n), 8) = Promise!Part(a, n)
           /\ n = 4 => Number(LoadedFloat(a), 4) = Promise!Part(a, 4)
<1> DEFINE base == a - (a % 8)
           o == a % 8
           x == Loaded(a, n)
<1>1. /\ n \in 0 .. 8 /\ o \in 0 .. 7 /\ o + n <= 8 /\ base \in DOMAIN Cell /\ base % 8 = 0
      /\ a = base + o /\ Selects(a, n, base, o)
  BY AlignedFits DEF Selects
<1>2. x \in Register
  BY <1>1, AlignedReaches, LoadedType
<1>3. Matches(x, a, n)
  BY <1>1 DEF Loaded, Matches
<1>4. \A k \in n .. 7 : x[k] = 0
  BY <1>1 DEF Loaded
<1>5. n = 4 => Matches(LoadedFloat(a), a, n)
  BY DEF LoadedFloat, Matches
<1> HIDE DEF base, o, x
<1>6. Promise!Part(a, n) = Number(x, n)
  BY <1>1, <1>3, PartIs
<1>7. Number(x, 8) = Number(x, n)
  <2>1. AreBytes(x, 8) /\ 8 \in 0 .. 8 /\ n \in 0 .. 8
    BY <1>1, <1>2 DEF Register, AreBytes
  <2> QED
    BY <1>4, <2>1, LeadingZeros
<1>8. n = 4 => Number(LoadedFloat(a), 4) = Promise!Part(a, 4)
  <2> SUFFICES ASSUME n = 4 PROVE Number(LoadedFloat(a), n) = Promise!Part(a, n)
    OBVIOUS
  <2> DEFINE y == LoadedFloat(a)
  <2>1. Matches(y, a, n)
    BY <1>5
  <2> HIDE DEF y
  <2>2. Promise!Part(a, n) = Number(y, n)
    BY <1>1, <2>1, PartIs
  <2> QED
    BY <2>2 DEF y
<1> QED
  BY <1>6, <1>7, <1>8 DEF x

\* What a store leaves in the j-th byte of the doubleword d.
Leaves(a, n, base, o, b, d, j) ==
    /\ d = Cell[base] /\ o <= j /\ j < o + n => Stored(a, n, b)[d + j] = b[j - o]
    /\ d # Cell[base] \/ j < o \/ j >= o + n => Stored(a, n, b)[d + j] = memory[d + j]

LEMMA StoredBytes ==
    ASSUME NEW a, NEW n, NEW base, NEW o, Selects(a, n, base, o), NEW b,
           NEW d \in Firsts, NEW j \in 0 .. 7
    PROVE  Leaves(a, n, base, o, b, d, j)
<1> DEFINE f == Cell[base]
           c == d + j
<1>1. f \in Nat /\ f % 8 = 0 /\ d \in Nat /\ d % 8 = 0 /\ c \in Cells
  BY Layout, FirstsLayout DEF Selects
<1>2. n \in 0 .. 8 /\ o \in 0 .. 7 /\ o + n <= 8
  BY DEF Selects
<1>3. \A i \in 0 .. (n - 1) : Cell[a + i] = f + (o + i)
  BY CellsInOrder
<1>4. Stored(a, n, b)[c] = IF \E i \in 0 .. (n - 1) : Cell[a + i] = c
                           THEN b[CHOOSE i \in 0 .. (n - 1) : Cell[a + i] = c]
                           ELSE memory[c]
  BY <1>1 DEF Stored
<1>5. ASSUME NEW i \in 0 .. (n - 1), Cell[a + i] = c
      PROVE  d = f /\ i = j - o /\ o <= j /\ j < o + n
  <2>1. f + (o + i) = d + j /\ o + i \in 0 .. 7
    BY <1>2, <1>3, <1>5
  <2> HIDE DEF f, c
  <2>2. d = f
    BY <1>1, <2>1
  <2> QED
    BY <1>1, <1>2, <2>1, <2>2
<1>6. ASSUME d = f, o <= j, j < o + n PROVE Stored(a, n, b)[c] = b[j - o]
  <2>1. j - o \in 0 .. (n - 1) /\ f + (o + (j - o)) = c
    BY <1>1, <1>2, <1>6
  <2>2. Cell[a + (j - o)] = c
    BY <1>3, <2>1
  <2> DEFINE i == CHOOSE i \in 0 .. (n - 1) : Cell[a + i] = c
  <2>3. i \in 0 .. (n - 1) /\ Cell[a + i] = c
    BY <2>1, <2>2
  <2>4. Stored(a, n, b)[c] = b[i]
    BY <1>4, <2>3
  <2> HIDE DEF i
  <2>5. i = j - o
    BY <1>5, <2>3
  <2> QED
    BY <2>4, <2>5
<1>7. ASSUME d # f \/ j < o \/ j >= o + n PROVE Stored(a, n, b)[c] = memory[c]
  <2>1. ~ \E i \in 0 .. (n - 1) : Cell[a + i] = c
    <3> HIDE DEF f, c
    <3>1. ASSUME NEW i \in 0 .. (n - 1), Cell[a + i] = c PROVE FALSE
      <4>1. d = f /\ o <= j /\ j < o + n
        BY <1>5, <3>1
      <4> QED
        BY <1>2, <1>7, <4>1
    <3> QED
      BY <3>1
  <2> QED
    BY <1>4, <2>1
<1> QED
  BY <1>6, <1>7 DEF Leaves

\* M has v in the n bytes at a, and the doublewords of memory elsewhere.
Replaces(M, a, n, v) ==
    \A d \in Firsts :
      Number([i \in 0 .. 7 |-> M[d + i]], 8) =
        IF d = Cell[a - (a % 8)] THEN Promise!Replaced(a, n, v)
                                 ELSE Number(Eight(d), 8)

\* A store of n bytes replaces them in the doubleword, and no other one
\* changes.
LEMMA StoredIs ==
    ASSUME TypeOK, NEW a \in Nat, NEW n \in {1, 2, 4, 8}, a % n = 0,
           a - (a % 8) \in DOMAIN Cell, NEW b, AreBytes(b, n),
           NEW v, v % Power[n] = Number(b, n),
           NEW M, M = Stored(a, n, b)
    PROVE  Replaces(M, a, n, v)
<1> SUFFICES ASSUME NEW d \in Firsts
             PROVE  Number([i \in 0 .. 7 |-> M[d + i]], 8) =
                      IF d = Cell[a - (a % 8)] THEN Promise!Replaced(a, n, v)
                                               ELSE Number(Eight(d), 8)
  BY DEF Replaces
<1> DEFINE base == a - (a % 8)
           o == a % 8
           f == Cell[base]
           c == [i \in 0 .. 7 |-> M[d + i]]
           x == [k \in Nat |-> ByteAt(a + k)]
           e == Eight(d)
<1>1. /\ n \in 0 .. 8 /\ o \in 0 .. 7 /\ o + n <= 8 /\ base \in DOMAIN Cell /\ base % 8 = 0
      /\ a = base + o /\ n \in Nat /\ o \in Nat /\ 8 \in 0 .. 8
  BY AlignedFits
<1>0. Selects(a, n, base, o)
  BY <1>1 DEF Selects
<1>2. f \in Firsts
  BY <1>1, Layout
<1>3. AreBytes(e, 8) /\ \A j \in 0 .. 7 : e[j] = memory[d + j] /\ c[j] = M[d + j]
  BY EightBytes DEF Eight
<1>4. AreBytes(c, 8)
  <2>1. M \in [Cells -> Byte]
    BY <1>1, StoredType
  <2>2. \A j \in 0 .. 7 : d + j \in Cells
    BY FirstsLayout
  <2> QED
    BY <2>1, <2>2 DEF AreBytes
<1>5. \A j \in 0 .. 7 :
        /\ d = f /\ o <= j /\ j < o + n => M[d + j] = b[j - o]
        /\ d # f \/ j < o \/ j >= o + n => M[d + j] = memory[d + j]
  <2> TAKE j \in 0 .. 7
  <2> HIDE DEF base, o, c, x, e
  <2>1. Leaves(a, n, base, o, b, d, j)
    BY <1>0, StoredBytes
  <2> QED
    BY <2>1 DEF Leaves
<1>6. Matches(x, a, n)
  BY <1>1 DEF Matches
<1>7. Promise!Part(a, n) = Number(x, n)
  <2> HIDE DEF base, o, x, c, f, e
  <2> QED
    BY <1>0, <1>6, PartIs
<1>10. \A k \in 0 .. (n - 1) : Cell[a + k] = f + (o + k)
  <2> HIDE DEF base, o, x, c, e
  <2> QED
    BY <1>0, CellsInOrder
<1>8. CASE d = f
  <2>1. Promise!Replaced(a, n, v) = Number(e, 8) + Power[o] * (Number(b, n) - Number(x, n))
    <3>1. Promise!Base(a) = base
      BY DEF Promise!Base
    <3>2. Promise!Weight[o] = Power[o] /\ Promise!Weight[n] = Power[n]
      BY <1>1, PromisedWeights
    <3>3. Promise!Replaced(a, n, v) =
            Number(e, 8) + Power[o] * ((v % Power[n]) - Promise!Part(a, n))
      BY <1>1, <1>2, <1>8, <3>1, <3>2 DEF Promise!Replaced, Eight
    <3> QED
      BY <1>7, <3>3
  <2>2. \A k \in 0 .. (n - 1) : x[k] = e[o + k] /\ b[k] = c[o + k]
    <3> TAKE k \in 0 .. (n - 1)
    <3>1. /\ o + k \in 0 .. 7 /\ k \in Nat /\ (o + k) - o = k
          /\ o <= o + k /\ o + k < o + n
      BY <1>1
    <3>2. Cell[a + k] = f + (o + k)
      BY <1>10
    <3>3. x[k] = e[o + k]
      BY <1>3, <1>8, <3>1, <3>2 DEF ByteAt
    <3>4. b[k] = c[o + k]
      <4> HIDE DEF base, o, x, c, e, f
      <4> QED
        BY <1>3, <1>5, <1>8, <3>1
    <3> QED
      BY <3>3, <3>4
  <2>3. AgreeOutside(c, e, o, n)
    BY <1>3, <1>5 DEF AgreeOutside
  <2> HIDE DEF base, o, x, c, e, f
  <2>6. Shifted(x, e, o, n) /\ Shifted(b, c, o, n)
    BY <2>2 DEF Shifted
  <2>4. Number(c, 8) = Number(e, 8) + Power[o] * (Number(b, n) - Number(x, n))
    BY <1>1, <1>3, <1>4, <2>3, <2>6, ReplaceIn
  <2>5. Number(c, 8) = Promise!Replaced(a, n, v)
    BY <2>1, <2>4
  <2> QED
    BY <1>8, <2>5 DEF c, f, base
<1>9. CASE d # f
  <2>1. \A k \in 0 .. 7 : c[k] = e[k]
    BY <1>3, <1>5, <1>9
  <2>2. Number(c, 8) = Number(e, 8)
    <3> HIDE DEF base, o, x, c, e, f
    <3>1. \A k \in 0 .. (8 - 1) : c[k] = e[k]
      BY <2>1
    <3> QED
      BY <1>1, <1>3, <3>1, SameNumber
  <2> QED
    BY <1>9, <2>2
<1> QED
  BY <1>8, <1>9

-----------------------------------------------------------------------------
(* Every step is a promised one.                                           *)

Registers == [r \in Regs |-> Number(gpr[r], 8)]

FloatRegisters == [f \in FRegs |-> Number(fpr[f], 4)]

LEMMA IgnoredIs == ASSUME Ignored PROVE Promise!Nothing
<1>1. Doubleword' = Doubleword
  BY DEF Ignored, Doubleword, Eight
<1> QED
  BY <1>1 DEF Ignored, Promise!Nothing, Promise!dvars, Doubleword, Eight

LEMMA CrashesIs == ASSUME Crashes PROVE Promise!Fault
BY DEF Crashes, Promise!Fault

\* An access that is not aligned, or not in memory.
LEMMA AccessIs ==
    ASSUME NEW a \in Nat, NEW n \in {1, 2, 4, 8},
           \/ Misaligned(a, n) /\ Ignored
           \/ ~ Misaligned(a, n) /\ ~ Reaches(a, n) /\ Crashes
    PROVE  Promise!Access(a, n)
<1>1. CASE Misaligned(a, n) /\ Ignored
  BY <1>1, IgnoredIs DEF Misaligned, Promise!Access, Promise!Aligned
<1>2. CASE ~ Misaligned(a, n) /\ ~ Reaches(a, n) /\ Crashes
  <2>1. a % n = 0 /\ Promise!Fault
    BY <1>2, CrashesIs DEF Misaligned
  <2>2. ~ Promise!Present(a)
    BY <1>2, <2>1, AlignedReaches, PresentIs
  <2> QED
    BY <2>1, <2>2 DEF Promise!Access, Promise!Aligned
<1> QED
  BY <1>1, <1>2

LEMMA LoadIs ==
    ASSUME TypeOK, NEW a \in Nat, NEW n \in {1, 2, 4, 8}, NEW rt \in Regs,
           LoadChecked(a, n, rt, Loaded(a, n))
    PROVE  Promise!Access(a, n) \/ Promise!Load(a, n, rt)
<1>1. CASE ~ Misaligned(a, n) /\ Reaches(a, n)
  <2>1. a % n = 0 /\ Promise!Aligned(a, n)
    BY <1>1 DEF Misaligned, Promise!Aligned
  <2>2. a - (a % 8) \in DOMAIN Cell /\ Promise!Present(a)
    BY <1>1, <2>1, AlignedReaches, PresentIs
  <2>3. Number(Loaded(a, n), 8) = Promise!Part(a, n)
    BY <2>1, <2>2, LoadedIs
  <2>4. /\ gpr' = [gpr EXCEPT ![rt] = Loaded(a, n)]
        /\ memory' = memory /\ fpr' = fpr /\ running' = running
    BY <1>1 DEF LoadChecked
  <2>5. Registers' = [Registers EXCEPT ![rt] = Promise!Part(a, n)]
    <3>1. DOMAIN gpr = Regs
      BY DEF TypeOK
    <3>2. \A r \in Regs : gpr'[r] = IF r = rt THEN Loaded(a, n) ELSE gpr[r]
      BY <2>4, <3>1
    <3>3. \A r \in Regs : Number(gpr'[r], 8) =
                            IF r = rt THEN Promise!Part(a, n) ELSE Number(gpr[r], 8)
      BY <2>3, <3>2
    <3> QED
      BY <3>3 DEF Registers
  <2>6. Doubleword' = Doubleword
    BY <2>4 DEF Doubleword, Eight
  <2> QED
    BY <2>1, <2>2, <2>4, <2>5, <2>6 DEF Promise!Load, Registers, Doubleword, Eight
<1>2. CASE ~ (~ Misaligned(a, n) /\ Reaches(a, n))
  BY <1>2, AccessIs DEF LoadChecked
<1> QED
  BY <1>1, <1>2

LEMMA LoadFloatIs ==
    ASSUME TypeOK, NEW rs \in Regs, NEW ft \in FRegs, NEW offset \in Offsets,
           NEW a \in Nat, a = Address(rs, offset), LWC1(rs, ft, offset)
    PROVE  Promise!Access(a, 4) \/ Promise!LoadFloat(a, ft)
<1>0. 4 \in {1, 2, 4, 8}
  OBVIOUS
<1>1. CASE ~ Misaligned(a, 4) /\ Reaches(a, 4)
  <2>1. a % 4 = 0 /\ Promise!Aligned(a, 4)
    BY <1>1 DEF Misaligned, Promise!Aligned
  <2>2. a - (a % 8) \in DOMAIN Cell /\ Promise!Present(a)
    BY <1>0, <1>1, <2>1, AlignedReaches, PresentIs
  <2>3. Number(LoadedFloat(a), 4) = Promise!Part(a, 4)
    BY <1>0, <2>1, <2>2, LoadedIs
  <2>4. /\ fpr' = [fpr EXCEPT ![ft] = LoadedFloat(a)]
        /\ memory' = memory /\ gpr' = gpr /\ running' = running
    BY <1>1 DEF LWC1
  <2>5. FloatRegisters' = [FloatRegisters EXCEPT ![ft] = Promise!Part(a, 4)]
    <3>1. DOMAIN fpr = FRegs
      BY DEF TypeOK
    <3>2. \A f \in FRegs : fpr'[f] = IF f = ft THEN LoadedFloat(a) ELSE fpr[f]
      BY <2>4, <3>1
    <3>3. \A f \in FRegs : Number(fpr'[f], 4) =
                             IF f = ft THEN Promise!Part(a, 4) ELSE Number(fpr[f], 4)
      BY <2>3, <3>2
    <3> QED
      BY <3>3 DEF FloatRegisters
  <2>6. Doubleword' = Doubleword
    BY <2>4 DEF Doubleword, Eight
  <2> QED
    BY <2>1, <2>2, <2>4, <2>5, <2>6
    DEF Promise!LoadFloat, FloatRegisters, Doubleword, Eight
<1>2. CASE ~ (~ Misaligned(a, 4) /\ Reaches(a, 4))
  BY <1>0, <1>2, AccessIs DEF LWC1
<1> QED
  BY <1>1, <1>2

LEMMA StoreIs ==
    ASSUME TypeOK, NEW a \in Nat, NEW n \in {1, 2, 4, 8}, NEW b, AreBytes(b, n),
           NEW v, v % Power[n] = Number(b, n), StoreChecked(a, n, b)
    PROVE  Promise!Access(a, n) \/ Promise!Store(a, n, v)
<1>1. CASE ~ Misaligned(a, n) /\ Reaches(a, n)
  <2> DEFINE base == a - (a % 8)
  <2>1. a % n = 0 /\ Promise!Aligned(a, n)
    BY <1>1 DEF Misaligned, Promise!Aligned
  <2>2. base \in DOMAIN Cell /\ Promise!Present(a)
    BY <1>1, <2>1, AlignedReaches, PresentIs
  <2>3. /\ memory' = Stored(a, n, b)
        /\ gpr' = gpr /\ fpr' = fpr /\ running' = running
    BY <1>1 DEF StoreChecked
  <2>4. \A d \in Firsts :
          Number([i \in 0 .. 7 |-> memory'[d + i]], 8) =
            IF d = Cell[base] THEN Promise!Replaced(a, n, v) ELSE Number(Eight(d), 8)
    <3> DEFINE M == memory'
    <3>1. M = Stored(a, n, b)
      BY <2>3
    <3> HIDE DEF M
    <3>2. Replaces(M, a, n, v)
      BY <2>1, <2>2, <3>1, StoredIs
    <3> QED
      BY <3>2 DEF M, Replaces
  <2>5. Doubleword' = [Doubleword EXCEPT ![Cell[base]] = Promise!Replaced(a, n, v)]
    BY <2>4 DEF Doubleword, Eight
  <2>6. Promise!Base(a) = base /\ base % 8 = 0
    BY DEF Promise!Base
  <2> QED
    BY <2>1, <2>2, <2>3, <2>5, <2>6 DEF Promise!Store, Doubleword, Eight
<1>2. CASE ~ (~ Misaligned(a, n) /\ Reaches(a, n))
  BY <1>2, AccessIs DEF StoreChecked
<1> QED
  BY <1>1, <1>2

\* One byte, wherever it is.
LEMMA ByteIs ==
    ASSUME TypeOK, NEW a \in Nat, a - (a % 8) \in DOMAIN Cell
    PROVE  ByteAt(a) \in Byte /\ Promise!Part(a, 1) = ByteAt(a)
<1> DEFINE base == a - (a % 8)
           o == a % 8
           x == [k \in Nat |-> ByteAt(a)]
<1>1. Selects(a, 1, base, o)
  BY DEF Selects
<1>2. Matches(x, a, 1)
  BY DEF Matches
<1>3. x[0] = ByteAt(a)
  OBVIOUS
<1> HIDE DEF base, o, x
<1>4. AreBytes(x, 1) /\ Promise!Part(a, 1) = Number(x, 1)
  BY <1>1, <1>2, PartIs
<1>5. 0 \in 0 .. 0 /\ 0 + 1 = 1 /\ 1 - 1 = 0 /\ 1 \in 0 .. 8
  OBVIOUS
<1>6. Number(x, 0) = 0 /\ x[0] \in Byte /\ x[0] \in Int /\ Number(x, 1) = Number(x, 0) + Power[0] * x[0]
  BY <1>4, <1>5, NumberNext
<1>7. Number(x, 1) = x[0]
  BY <1>6, PowerNext
<1> QED
  BY <1>3, <1>4, <1>6, <1>7

\* Four bytes, in one doubleword or in two.
LEMMA FourReached ==
    ASSUME NEW a \in Nat
    PROVE  Reaches(a, 4) <=> Promise!Present(a) /\ Promise!Present(a + 3)
<1>1. Promise!Present(a) <=> a - (a % 8) \in DOMAIN Cell
  BY PresentIs
<1>2. Promise!Present(a + 3) <=> (a + 3) - ((a + 3) % 8) \in DOMAIN Cell
  BY PresentIs
<1>3. ASSUME Reaches(a, 4)
      PROVE  a - (a % 8) \in DOMAIN Cell /\ (a + 3) - ((a + 3) % 8) \in DOMAIN Cell
  <2>1. a + 0 \in DOMAIN Cell /\ a + 3 \in DOMAIN Cell /\ a + 0 = a
    BY <1>3 DEF Reaches
  <2> QED
    BY <2>1, LoadStoreAssumption
<1>4. ASSUME a - (a % 8) \in DOMAIN Cell, (a + 3) - ((a + 3) % 8) \in DOMAIN Cell
      PROVE  \A i \in 0 .. 3 : (a + i) - ((a + i) % 8) \in DOMAIN Cell
  <2> TAKE i \in 0 .. 3
  <2>1. \/ (a + i) - ((a + i) % 8) = a - (a % 8)
        \/ (a + i) - ((a + i) % 8) = (a + 3) - ((a + 3) % 8)
    OBVIOUS
  <2> QED
    BY <1>4, <2>1
<1>5. ASSUME \A i \in 0 .. 3 : (a + i) - ((a + i) % 8) \in DOMAIN Cell
      PROVE  Reaches(a, 4)
  <2> SUFFICES ASSUME NEW i \in 0 .. 3 PROVE a + i \in DOMAIN Cell
    BY DEF Reaches
  <2> DEFINE e == a + i
             base == e - (e % 8)
             o == e % 8
  <2>1. base % 8 = 0 /\ o \in 0 .. 7 /\ e = base + o
    OBVIOUS
  <2>2. base \in DOMAIN Cell
    BY <1>5
  <2> HIDE DEF base, o
  <2>3. base + o \in DOMAIN Cell
    BY <2>1, <2>2, Layout
  <2> QED
    BY <2>1, <2>3
<1> QED
  BY <1>1, <1>2, <1>3, <1>4, <1>5

LEMMA FourBytesIs ==
    ASSUME TypeOK, NEW a \in Nat, Promise!Present(a), Promise!Present(a + 3)
    PROVE  Number(Loaded(a, 4), 8) = Promise!FourBytes(a)
<1> DEFINE x == Loaded(a, 4)
<1>1. \A i \in 0 .. 3 : (a + i) - ((a + i) % 8) \in DOMAIN Cell
  <2>1. Promise!Present(a) <=> a - (a % 8) \in DOMAIN Cell
    BY PresentIs
  <2>2. Promise!Present(a + 3) <=> (a + 3) - ((a + 3) % 8) \in DOMAIN Cell
    BY PresentIs
  <2> TAKE i \in 0 .. 3
  <2>3. \/ (a + i) - ((a + i) % 8) = a - (a % 8)
        \/ (a + i) - ((a + i) % 8) = (a + 3) - ((a + 3) % 8)
    OBVIOUS
  <2> QED
    BY <2>1, <2>2, <2>3
<1>2. \A i \in 0 .. 3 : x[i] = ByteAt(a + i)
  BY DEF Loaded
<1>3. \A i \in 0 .. 3 : ByteAt(a + i) \in Byte /\ Promise!Part(a + i, 1) = ByteAt(a + i)
  <2> TAKE i \in 0 .. 3
  <2>1. a + i \in Nat
    OBVIOUS
  <2> QED
    BY <1>1, <2>1, ByteIs
<1>4. AreBytes(x, 8)
  <2>1. Reaches(a, 4) /\ 4 \in 0 .. 8
    BY FourReached
  <2>2. x \in Register
    BY <2>1, LoadedType
  <2> QED
    BY <2>2 DEF Register, AreBytes
<1>5. \A k \in 4 .. 7 : x[k] = 0
  BY DEF Loaded
<1> HIDE DEF x
<1>6. 8 \in 0 .. 8 /\ 4 \in 0 .. 8 /\ 8 - 1 = 7
  OBVIOUS
<1>7. Number(x, 8) = Number(x, 4)
  BY <1>4, <1>5, <1>6, LeadingZeros
<1>8. /\ Number(x, 0) = 0
      /\ \A k \in 0 .. 7 : Number(x, k + 1) = Number(x, k) + Power[k] * x[k]
  BY <1>4, <1>6, NumberNext
<1>9. /\ Number(x, 1) = Number(x, 0) + Power[0] * x[0]
      /\ Number(x, 2) = Number(x, 1) + Power[1] * x[1]
      /\ Number(x, 3) = Number(x, 2) + Power[2] * x[2]
      /\ Number(x, 4) = Number(x, 3) + Power[3] * x[3]
  <2>1. 0 + 1 = 1 /\ 1 + 1 = 2 /\ 2 + 1 = 3 /\ 3 + 1 = 4
    OBVIOUS
  <2>2. 0 \in 0 .. 7 /\ 1 \in 0 .. 7 /\ 2 \in 0 .. 7 /\ 3 \in 0 .. 7
    OBVIOUS
  <2> QED
    BY <1>8, <2>1, <2>2
<1>10. /\ x[0] = Promise!Part(a, 1) /\ x[0] \in Int
       /\ x[1] = Promise!Part(a + 1, 1) /\ x[2] = Promise!Part(a + 2, 1)
       /\ x[3] = Promise!Part(a + 3, 1)
  <2>1. a + 0 = a
    OBVIOUS
  <2> QED
    BY <1>2, <1>3, <2>1, ByteAssumption DEF Byte
<1>11. /\ Promise!Weight[1] = Power[1] /\ Promise!Weight[2] = Power[2]
       /\ Promise!Weight[3] = Power[3]
  BY PromisedWeights
<1>12. Number(x, 1) = x[0]
  BY <1>8, <1>9, <1>10, PowerNext
<1>13. Promise!FourBytes(a) = x[0] + Power[1] * x[1] + Power[2] * x[2] + Power[3] * x[3]
  BY <1>10, <1>11 DEF Promise!FourBytes
<1>14. Number(x, 4) = ((x[0] + Power[1] * x[1]) + Power[2] * x[2]) + Power[3] * x[3]
  BY <1>9, <1>12
<1> QED
  BY <1>7, <1>13, <1>14 DEF x

LEMMA LoadRightIs ==
    ASSUME TypeOK, NEW rs \in Regs, NEW rt \in Regs, NEW offset \in Offsets,
           NEW a \in Nat, a = Address(rs, offset), LWR(rs, rt, offset)
    PROVE  Promise!LoadRight(a, rt)
<1>1. CASE Reaches(a, 4)
  <2>1. Promise!Present(a) /\ Promise!Present(a + 3)
    BY <1>1, FourReached
  <2>2. Number(Loaded(a, 4), 8) = Promise!FourBytes(a)
    BY <2>1, FourBytesIs
  <2>3. /\ gpr' = [gpr EXCEPT ![rt] = Loaded(a, 4)]
        /\ memory' = memory /\ fpr' = fpr /\ running' = running
    BY <1>1 DEF LWR
  <2>4. Registers' = [Registers EXCEPT ![rt] = Promise!FourBytes(a)]
    <3>1. DOMAIN gpr = Regs
      BY DEF TypeOK
    <3>2. \A r \in Regs : gpr'[r] = IF r = rt THEN Loaded(a, 4) ELSE gpr[r]
      BY <2>3, <3>1
    <3>3. \A r \in Regs : Number(gpr'[r], 8) =
                            IF r = rt THEN Promise!FourBytes(a) ELSE Number(gpr[r], 8)
      BY <2>2, <3>2
    <3> QED
      BY <3>3 DEF Registers
  <2>5. Doubleword' = Doubleword
    BY <2>3 DEF Doubleword, Eight
  <2> QED
    BY <2>1, <2>3, <2>4, <2>5 DEF Promise!LoadRight, Registers, Doubleword, Eight
<1>2. CASE ~ Reaches(a, 4)
  <2>1. Promise!Fault
    BY <1>2, CrashesIs DEF LWR
  <2>2. ~ (Promise!Present(a) /\ Promise!Present(a + 3))
    BY <1>2, FourReached
  <2> QED
    BY <2>1, <2>2 DEF Promise!LoadRight
<1> QED
  BY <1>1, <1>2

LEMMA ComputeIs ==
    ASSUME TypeOK, NEW r \in Regs, NEW v \in Values, Compute(r, v)
    PROVE  Promise!DNext
<1>1. gpr' = [gpr EXCEPT ![r] = v] /\ memory' = memory /\ fpr' = fpr /\ running' = running
  BY DEF Compute
<1>2. Registers' = [Registers EXCEPT ![r] = Number(v, 8)]
  <2>1. DOMAIN gpr = Regs
    BY DEF TypeOK
  <2>2. \A s \in Regs : gpr'[s] = IF s = r THEN v ELSE gpr[s]
    BY <1>1, <2>1
  <2>3. \A s \in Regs : Number(gpr'[s], 8) = IF s = r THEN Number(v, 8) ELSE Number(gpr[s], 8)
    BY <2>2
  <2> QED
    BY <2>3 DEF Registers
<1>3. Doubleword' = Doubleword
  BY <1>1 DEF Doubleword, Eight
<1>4. running
  BY DEF Compute
<1>5. PICK w \in {Number(u, 8) : u \in Values} : Registers' = [Registers EXCEPT ![r] = w]
  BY <1>2
<1> QED
  BY <1>1, <1>3, <1>4, <1>5 DEF Promise!DNext, Registers, Doubleword, Eight

LEMMA ComputeFloatIs ==
    ASSUME TypeOK, NEW f \in FRegs, NEW v \in Values, ComputeFloat(f, v)
    PROVE  Promise!DNext
<1> DEFINE u == [i \in 0 .. 3 |-> v[i]]
<1>1. fpr' = [fpr EXCEPT ![f] = u] /\ memory' = memory /\ gpr' = gpr /\ running' = running
  BY DEF ComputeFloat
<1>2. Number(u, 4) = Number(v, 8) % Power[4]
  <2>1. AreBytes(v, 8) /\ AreBytes(v, 4) /\ 4 \in 0 .. 8 /\ 8 \in 0 .. 8
    BY LoadStoreAssumption DEF Register, AreBytes
  <2>2. \A k \in 0 .. (4 - 1) : u[k] = v[k]
    OBVIOUS
  <2> HIDE DEF u
  <2>3. Number(u, 4) = Number(v, 4)
    BY <2>1, <2>2, SameNumber
  <2>4. Number(v, 8) % Power[4] = Number(v, 4)
    BY <2>1, LowPart
  <2> QED
    BY <2>3, <2>4
<1>3. FloatRegisters' = [FloatRegisters EXCEPT ![f] = Number(v, 8) % Promise!AddressSize]
  <2>1. DOMAIN fpr = FRegs
    BY DEF TypeOK
  <2>2. \A s \in FRegs : fpr'[s] = IF s = f THEN u ELSE fpr[s]
    BY <1>1, <2>1
  <2>3. \A s \in FRegs : Number(fpr'[s], 4) =
                           IF s = f THEN Number(v, 8) % Power[4] ELSE Number(fpr[s], 4)
    BY <1>2, <2>2
  <2> QED
    BY <2>3, PromisedWeights DEF FloatRegisters
<1>4. Doubleword' = Doubleword
  BY <1>1 DEF Doubleword, Eight
<1>5. running
  BY DEF ComputeFloat
<1>6. PICK w \in {Number(s, 8) : s \in Values} :
        FloatRegisters' = [FloatRegisters EXCEPT ![f] = w % Promise!AddressSize]
  BY <1>3
<1> QED
  BY <1>1, <1>4, <1>5, <1>6 DEF Promise!DNext, FloatRegisters, Doubleword, Eight

LEMMA InitIs == Init => Promise!DInit
<1> SUFFICES ASSUME Init PROVE Promise!DInit
  OBVIOUS
<1>1. 0 \in Byte /\ 0 \in 0 .. 8 /\ 8 \in 0 .. 8 /\ 4 \in 0 .. 8
  BY ByteAssumption DEF Byte
<1>2. \A d \in Firsts, i \in 0 .. 7 : d + i \in Cells
  BY FirstsLayout
<1>3. ASSUME NEW b, NEW n \in 0 .. 8, \A k \in 0 .. (n - 1) : b[k] = 0
      PROVE  Number(b, n) = 0
  <2>1. AreBytes(b, n)
    BY <1>1, <1>3 DEF AreBytes
  <2>2. 0 \in 0 .. n
    OBVIOUS
  <2>3. Number(b, n) = Number(b, 0)
    BY <1>3, <2>1, <2>2, LeadingZeros
  <2>4. Number(b, 0) = 0
    BY <2>1, NumberNext
  <2> QED
    BY <2>3, <2>4
<1>4. ASSUME NEW d \in Firsts PROVE Number([i \in 0 .. 7 |-> memory[d + i]], 8) = 0
  <2> DEFINE b == [i \in 0 .. 7 |-> memory[d + i]]
  <2>1. \A k \in 0 .. (8 - 1) : b[k] = 0
    <3> TAKE k \in 0 .. (8 - 1)
    <3>1. k \in 0 .. 7
      OBVIOUS
    <3>2. d + k \in Cells
      BY <1>2, <3>1
    <3>3. memory[d + k] = 0
      BY <3>2 DEF Init
    <3> QED
      BY <3>1, <3>3
  <2> HIDE DEF b
  <2>2. Number(b, 8) = 0
    BY <1>1, <1>3, <2>1
  <2> QED
    BY <2>2 DEF b
<1>5. ASSUME NEW r \in Regs PROVE Number(gpr[r], 8) = 0
  <2> DEFINE b == gpr[r]
  <2>1. \A k \in 0 .. (8 - 1) : b[k] = 0
    BY DEF Init
  <2> HIDE DEF b
  <2>2. Number(b, 8) = 0
    BY <1>1, <1>3, <2>1
  <2> QED
    BY <2>2 DEF b
<1>6. ASSUME NEW f \in FRegs PROVE Number(fpr[f], 4) = 0
  <2> DEFINE b == fpr[f]
  <2>1. \A k \in 0 .. (4 - 1) : b[k] = 0
    BY DEF Init
  <2> HIDE DEF b
  <2>2. Number(b, 4) = 0
    BY <1>1, <1>3, <2>1
  <2> QED
    BY <2>2 DEF b
<1> QED
  BY <1>4, <1>5, <1>6 DEF Init, Promise!DInit

LEMMA NextIs == TypeOK /\ [Next]_vars => [Promise!DNext]_(Promise!dvars)
<1> SUFFICES ASSUME TypeOK, [Next]_vars PROVE [Promise!DNext]_(Promise!dvars)
  OBVIOUS
<1>1. ASSUME NEW rs \in Regs, NEW rt \in Regs, NEW offset \in Offsets,
             \/ LB(rs, rt, offset) \/ LH(rs, rt, offset) \/ LW(rs, rt, offset)
             \/ LWU(rs, rt, offset) \/ LD(rs, rt, offset)
      PROVE  Promise!DNext
  <2> DEFINE a == Address(rs, offset)
  <2>1. PICK n \in {1, 2, 4, 8} : LoadChecked(a, n, rt, Loaded(a, n))
    BY <1>1 DEF LB, LH, LW, LWU, LD, LWResult, LWUResult
  <2>2. a \in Nat /\ a = Promise!Address(rs, offset) /\ running
    BY <2>1, AddressType, AddressesAgree DEF LoadChecked
  <2> HIDE DEF a
  <2>3. Promise!Access(a, n) \/ Promise!Load(a, n, rt)
    BY <2>1, <2>2, LoadIs
  <2> QED
    BY <2>2, <2>3 DEF Promise!DNext
<1>2. ASSUME NEW rs \in Regs, NEW rt \in Regs, NEW offset \in Offsets,
             LWR(rs, rt, offset)
      PROVE  Promise!DNext
  <2> DEFINE a == Address(rs, offset)
  <2>1. a \in Nat /\ a = Promise!Address(rs, offset) /\ running
    BY <1>2, AddressType, AddressesAgree DEF LWR
  <2>2. Promise!LoadRight(a, rt)
    BY <1>2, <2>1, LoadRightIs
  <2> HIDE DEF a
  <2> QED
    BY <2>1, <2>2 DEF Promise!DNext
<1>3. ASSUME NEW rs \in Regs, NEW rt \in Regs, NEW offset \in Offsets,
             \/ SB(rs, rt, offset) \/ SH(rs, rt, offset) \/ SW(rs, rt, offset)
             \/ SD(rs, rt, offset)
      PROVE  Promise!DNext
  <2> DEFINE a == Address(rs, offset)
             b == gpr[rt]
             v == Number(gpr[rt], 8)
  <2>1. PICK n \in {1, 2, 4, 8} : StoreChecked(a, n, b)
    BY <1>3 DEF SB, SH, SW, SD
  <2>2. a \in Nat /\ a = Promise!Address(rs, offset) /\ running
    BY <2>1, AddressType, AddressesAgree DEF StoreChecked
  <2>3. n \in 0 .. 8 /\ 8 \in 0 .. 8
    OBVIOUS
  <2>4. AreBytes(b, n) /\ v % Power[n] = Number(b, n)
    BY <2>3, RegisterBytes, LowPart
  <2>5. v = Registers[rt]
    BY DEF Registers
  <2> HIDE DEF a, b, v
  <2>6. Promise!Access(a, n) \/ Promise!Store(a, n, v)
    BY <2>1, <2>2, <2>4, StoreIs
  <2> QED
    BY <2>2, <2>5, <2>6 DEF Promise!DNext, Registers
<1>4. ASSUME NEW rs \in Regs, NEW ft \in FRegs, NEW offset \in Offsets,
             LWC1(rs, ft, offset)
      PROVE  Promise!DNext
  <2> DEFINE a == Address(rs, offset)
  <2>1. a \in Nat /\ a = Promise!Address(rs, offset) /\ running
    BY <1>4, AddressType, AddressesAgree DEF LWC1
  <2>2. Promise!Access(a, 4) \/ Promise!LoadFloat(a, ft)
    BY <1>4, <2>1, LoadFloatIs
  <2> HIDE DEF a
  <2> QED
    BY <2>1, <2>2 DEF Promise!DNext
<1>5. ASSUME NEW rs \in Regs, NEW ft \in FRegs, NEW offset \in Offsets,
             SWC1(rs, ft, offset)
      PROVE  Promise!DNext
  <2> DEFINE a == Address(rs, offset)
             b == fpr[ft]
             v == Number(fpr[ft], 4)
  <2>1. StoreChecked(a, 4, b)
    BY <1>5 DEF SWC1
  <2>2. a \in Nat /\ a = Promise!Address(rs, offset) /\ running
    BY <2>1, AddressType, AddressesAgree DEF StoreChecked
  <2>3. 4 \in 0 .. 8 /\ 4 \in {1, 2, 4, 8} /\ 4 \in 0 .. 4
    OBVIOUS
  <2>4. AreBytes(b, 4) /\ v % Power[4] = Number(b, 4)
    BY <2>3, RegisterBytes, LowPart
  <2>5. v = FloatRegisters[ft]
    BY DEF FloatRegisters
  <2> HIDE DEF a, b, v
  <2>6. Promise!Access(a, 4) \/ Promise!Store(a, 4, v)
    BY <2>1, <2>2, <2>3, <2>4, StoreIs
  <2> QED
    BY <2>2, <2>3, <2>5, <2>6 DEF Promise!DNext, FloatRegisters
<1>6. ASSUME NEW r \in Regs, NEW v \in Values, Compute(r, v)
      PROVE  Promise!DNext
  BY <1>6, ComputeIs
<1>7. ASSUME NEW f \in FRegs, NEW v \in Values, ComputeFloat(f, v)
      PROVE  Promise!DNext
  BY <1>7, ComputeFloatIs
<1>8. CASE UNCHANGED vars
  <2>1. Ignored
    BY <1>8 DEF vars, Ignored
  <2> QED
    BY <2>1, IgnoredIs DEF Promise!Nothing
<1>9. CASE Next
  BY <1>1, <1>2, <1>3, <1>4, <1>5, <1>6, <1>7, <1>9 DEF Next
<1> QED
  BY <1>8, <1>9

\* Loads and stores of every size, through every mirror and at every offset,
\* implement one array of doublewords, for bytes of any size, any memory map
\* of whole doublewords and any registers.
THEOREM DoublewordsImplemented == Spec => ImplementsDoublewords
<1>1. Init => Promise!DInit
  BY InitIs
<1>2. TypeOK /\ [Next]_vars => [Promise!DNext]_(Promise!dvars)
  BY NextIs
<1> QED
  BY <1>1, <1>2, TypeCorrect, PTL DEF Spec, ImplementsDoublewords, Promise!DSpec

=============================================================================
