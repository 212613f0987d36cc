---------------------------- MODULE IntAluProofs ----------------------------
(***************************************************************************)
(* Theorems about the integer instructions, for words, immediates and      *)
(* lanes of any width that the assumption of IntAlu allows.                *)
(***************************************************************************)
EXTENDS IntAlu, TLAPS, WellFoundedInduction

-----------------------------------------------------------------------------
(* Induction and recursion over natural numbers, with sets and functions.  *)

LEMMA SetInduction ==
    ASSUME NEW S, 0 \in S, \A n \in Nat : n \in S => n + 1 \in S
    PROVE  \A n \in Nat : n \in S
<1> DEFINE T == Nat \ S
           R == OpToRel(<, Nat)
<1>1. SUFFICES ASSUME T # {} PROVE FALSE
  OBVIOUS
<1>2. PICK x \in T : \A y \in T : ~ (<<y, x>> \in R)
  <2> HIDE DEF R
  <2>1. IsWellFoundedOn(R, Nat)
    BY NatLessThanWellFounded DEF R
  <2> QED
    BY <1>1, <2>1, WFMin
<1>3. x - 1 \in Nat
  OBVIOUS
<1>4. x - 1 \notin T
  <2>1. <<x - 1, x>> \in R
    BY <1>3 DEF OpToRel
  <2> QED
    BY <2>1, <1>2
<1> QED
  BY <1>3, <1>4

\* The first values of a function given by its value at 0 and its steps.
Chain(V, a, step, n) ==
    {g \in [0 .. n -> V] : /\ g[0] = a
                           /\ \A k \in 0 .. (n - 1) : g[k + 1] = step[k][g[k]]}

LEMMA ChainsExist ==
    ASSUME NEW V, NEW a \in V, NEW step \in [Nat -> [V -> V]]
    PROVE  \A n \in Nat : Chain(V, a, step, n) # {}
<1> DEFINE S == {n \in Nat : Chain(V, a, step, n) # {}}
<1>1. 0 \in S
  <2> DEFINE g == [k \in 0 .. 0 |-> a]
  <2>1. g \in Chain(V, a, step, 0)
    BY DEF Chain
  <2> QED
    BY <2>1
<1>2. ASSUME NEW n \in Nat, n \in S PROVE n + 1 \in S
  <2>1. PICK g : g \in Chain(V, a, step, n)
    BY <1>2
  <2> DEFINE h == [k \in 0 .. (n + 1) |-> IF k <= n THEN g[k] ELSE step[n][g[n]]]
  <2>2. g \in [0 .. n -> V] /\ g[0] = a /\ \A k \in 0 .. (n - 1) : g[k + 1] = step[k][g[k]]
    BY <2>1 DEF Chain
  <2>3. h \in [0 .. (n + 1) -> V]
    <3>1. g[n] \in V /\ step[n][g[n]] \in V
      BY <2>2
    <3> QED
      BY <2>2, <3>1
  <2>4. h[0] = a
    BY <2>2
  <2>5. ASSUME NEW k \in 0 .. n PROVE h[k + 1] = step[k][h[k]]
    <3>1. CASE k = n
      BY <3>1
    <3>2. CASE k < n
      BY <2>2, <3>2
    <3> QED
      BY <3>1, <3>2
  <2> HIDE DEF h
  <2>6. h \in Chain(V, a, step, n + 1)
    BY <2>3, <2>4, <2>5 DEF Chain
  <2> QED
    BY <2>6
<1> HIDE DEF S
<1>3. \A n \in Nat : n \in S
  BY <1>1, <1>2, SetInduction
<1> QED
  BY <1>3 DEF S

LEMMA ChainsAgree ==
    ASSUME NEW V, NEW a \in V, NEW step \in [Nat -> [V -> V]],
           NEW m \in Nat, NEW n \in Nat,
           NEW g \in Chain(V, a, step, m), NEW h \in Chain(V, a, step, n)
    PROVE  \A k \in Nat : k <= m /\ k <= n => g[k] = h[k]
<1> DEFINE S == {k \in Nat : k <= m /\ k <= n => g[k] = h[k]}
<1>1. 0 \in S
  BY DEF Chain
<1>2. ASSUME NEW k \in Nat, k \in S PROVE k + 1 \in S
  <2>1. SUFFICES ASSUME k + 1 <= m, k + 1 <= n PROVE g[k + 1] = h[k + 1]
    OBVIOUS
  <2>2. k \in 0 .. (m - 1) /\ k \in 0 .. (n - 1) /\ g[k] = h[k]
    BY <1>2, <2>1
  <2> QED
    BY <2>2 DEF Chain
<1> HIDE DEF S
<1>3. \A k \in Nat : k \in S
  BY <1>1, <1>2, SetInduction
<1> QED
  BY <1>3 DEF S

Follows(f, V, a, step) ==
    /\ f \in [Nat -> V]
    /\ f[0] = a
    /\ \A n \in Nat : f[n + 1] = step[n][f[n]]

LEMMA Recursion ==
    ASSUME NEW V, NEW a \in V, NEW step \in [Nat -> [V -> V]]
    PROVE  \E f : Follows(f, V, a, step)
<1> DEFINE g == [n \in Nat |-> CHOOSE h : h \in Chain(V, a, step, n)]
           f == [n \in Nat |-> g[n][n]]
<1>1. \A n \in Nat : g[n] \in Chain(V, a, step, n)
  BY ChainsExist
<1> HIDE DEF g
<1>2. \A n \in Nat : g[n][n] \in V /\ g[n][0] = a
  BY <1>1 DEF Chain
<1>3. f \in [Nat -> V] /\ f[0] = a
  BY <1>2
<1>4. ASSUME NEW n \in Nat PROVE f[n + 1] = step[n][f[n]]
  <2>1. g[n + 1][n + 1] = step[n][g[n + 1][n]]
    BY <1>1 DEF Chain
  <2>2. g[n + 1][n] = g[n][n]
    <3>1. n + 1 \in Nat /\ n <= n + 1 /\ n <= n
      OBVIOUS
    <3>2. /\ g[n] \in Chain(V, a, step, n)
          /\ g[n + 1] \in Chain(V, a, step, n + 1)
      BY <1>1, <3>1
    <3>3. \A k \in Nat : k <= n + 1 /\ k <= n => g[n + 1][k] = g[n][k]
      BY <3>1, <3>2, ChainsAgree
    <3> QED
      BY <3>1, <3>3
  <2> QED
    BY <2>1, <2>2
<1> HIDE DEF f
<1> QED
  BY <1>3, <1>4 DEF Follows

-----------------------------------------------------------------------------
(* Powers of two.                                                          *)

LEMMA PowerNext ==
    /\ Power[0] = 1
    /\ \A n \in Nat : Power[n] \in Nat \ {0} /\ Power[n + 1] = 2 * Power[n]
<1> DEFINE P(f) == f = [n \in Nat |-> IF n = 0 THEN 1 ELSE 2 * f[n - 1]]
           step == [n \in Nat |-> [v \in Nat \ {0} |-> 2 * v]]
<1>1. step \in [Nat -> [(Nat \ {0}) -> Nat \ {0}]]
  OBVIOUS
<1>2. PICK f \in [Nat -> Nat \ {0}] : f[0] = 1 /\ \A n \in Nat : f[n + 1] = step[n][f[n]]
  <2> DEFINE V == Nat \ {0}
             a == 1
  <2>1. a \in V /\ step \in [Nat -> [V -> V]]
    BY <1>1
  <2> HIDE DEF step, V, a
  <2>2. \E f : Follows(f, V, a, step)
    BY <2>1, Recursion
  <2> QED
    BY <2>2 DEF Follows, V, a
<1>3. \A n \in Nat : n # 0 => f[n] = 2 * f[n - 1]
  <2> TAKE n \in Nat
  <2>1. n # 0 => n - 1 \in Nat /\ (n - 1) + 1 = n
    OBVIOUS
  <2> QED
    BY <1>2, <2>1
<1>4. P(f)
  BY <1>2, <1>3
<1>5. Power = CHOOSE h : P(h)
  BY DEF Power
<1> HIDE DEF P
<1>6. P(Power)
  BY <1>4, <1>5
<1>7. Power = [n \in Nat |-> IF n = 0 THEN 1 ELSE 2 * Power[n - 1]]
  BY <1>6 DEF P
<1>8. Power[0] = 1 /\ \A n \in Nat : Power[n + 1] = 2 * Power[n]
  <2>1. \A n \in Nat : Power[n] = IF n = 0 THEN 1 ELSE 2 * Power[n - 1]
    BY <1>7
  <2>2. ASSUME NEW n \in Nat PROVE Power[n + 1] = 2 * Power[n]
    <3>1. n + 1 \in Nat /\ n + 1 # 0 /\ (n + 1) - 1 = n
      OBVIOUS
    <3> QED
      BY <2>1, <3>1
  <2> QED
    BY <2>1, <2>2
<1> DEFINE S == {n \in Nat : Power[n] \in Nat \ {0}}
<1>9. 0 \in S
  BY <1>8
<1>10. ASSUME NEW n \in Nat, n \in S PROVE n + 1 \in S
  BY <1>8, <1>10
<1> HIDE DEF S
<1>11. \A n \in Nat : n \in S
  BY <1>9, <1>10, SetInduction
<1> QED
  BY <1>8, <1>11 DEF S

LEMMA Widths ==
    /\ WordBits \in Nat /\ WordBits >= 3 /\ ImmBits \in Nat /\ ImmBits >= 1
    /\ ImmBits + 1 < WordBits /\ DoubleBits = 2 * WordBits /\ DoubleBits \in Nat
    /\ LaneBits \in Nat /\ LaneBits >= 1 /\ LaneBits <= ImmBits
    /\ ByteShift \in Nat /\ ImmBits + ByteShift + 1 < WordBits
BY IntAluAssumption DEF DoubleBits

LEMMA Pow2IsPower == \A n \in 0 .. (DoubleBits + 1) : Pow2[n] = Power[n]
BY DEF Pow2

\* A sum of exponents is a product.
LEMMA PowerSum == \A m, n \in Nat : Power[m + n] = Power[m] * Power[n]
<1> SUFFICES ASSUME NEW m \in Nat PROVE \A n \in Nat : Power[m + n] = Power[m] * Power[n]
  OBVIOUS
<1> DEFINE S == {n \in Nat : Power[m + n] = Power[m] * Power[n]}
<1>1. 0 \in S
  BY PowerNext
<1>2. ASSUME NEW n \in Nat, n \in S PROVE n + 1 \in S
  <2>1. Power[m + (n + 1)] = 2 * Power[m + n]
    <3>1. m + (n + 1) = (m + n) + 1 /\ m + n \in Nat
      OBVIOUS
    <3> QED
      BY <3>1, PowerNext
  <2>2. Power[n + 1] = 2 * Power[n] /\ Power[m + n] = Power[m] * Power[n]
    BY <1>2, PowerNext
  <2>3. Power[m] * (2 * Power[n]) = 2 * (Power[m] * Power[n])
    BY PowerNext
  <2> QED
    BY <2>1, <2>2, <2>3
<1> HIDE DEF S
<1>3. \A n \in Nat : n \in S
  BY <1>1, <1>2, SetInduction
<1> QED
  BY <1>3 DEF S

LEMMA PowerGrows ==
    \A m, n \in Nat : m <= n => /\ Power[n] = Power[m] * Power[n - m]
                                /\ Power[m] <= Power[n]
<1> TAKE m, n \in Nat
<1> HAVE m <= n
<1>1. n - m \in Nat /\ m + (n - m) = n
  OBVIOUS
<1>2. Power[n] = Power[m] * Power[n - m]
  BY <1>1, PowerSum
<1>3. Power[m] \in Nat \ {0} /\ Power[n - m] \in Nat \ {0}
  BY <1>1, PowerNext
<1>4. Power[m] * Power[n - m] >= Power[m] * 1
  BY <1>3
<1> QED
  BY <1>2, <1>3, <1>4

-----------------------------------------------------------------------------
(* The numbers of bits.                                                    *)

\* Unsigned is one sum, cut off at n.
Sums(F, b) ==
    /\ F \in [Nat -> Int]
    /\ F[0] = 0
    /\ \A n \in 0 .. (DoubleBits - 1) : F[n + 1] = F[n] + Power[n] * b[n]
    /\ \A n \in 0 .. DoubleBits : Unsigned(b, n) = F[n]

LEMMA SumsExist ==
    ASSUME NEW b \in Double
    PROVE  \E F : Sums(F, b)
<1> DEFINE V == Int
           a == 0
           step == [n \in Nat |-> [v \in Int |->
                      v + (IF n < DoubleBits THEN Power[n] * b[n] ELSE 0)]]
<1>1. a \in V /\ step \in [Nat -> [V -> V]]
  <2>1. \A n \in Nat : (IF n < DoubleBits THEN Power[n] * b[n] ELSE 0) \in Int
    <3> TAKE n \in Nat
    <3>1. CASE n < DoubleBits
      <4>1. b[n] \in {0, 1}
        <5>1. n \in 0 .. (DoubleBits - 1)
          BY <3>1, Widths
        <5> QED
          BY <5>1 DEF Double
      <4>2. Power[n] \in Nat
        BY PowerNext
      <4> QED
        BY <3>1, <4>1, <4>2
    <3> QED
      BY <3>1
  <2> QED
    BY <2>1
<1>2. \E F : Follows(F, V, a, step)
  <2> HIDE DEF V, a, step
  <2> QED
    BY <1>1, Recursion
<1>3. PICK F : F \in [Nat -> Int] /\ F[0] = 0 /\ \A n \in Nat : F[n + 1] = step[n][F[n]]
  BY <1>2 DEF Follows
<1>4. \A n \in 0 .. (DoubleBits - 1) : F[n + 1] = F[n] + Power[n] * b[n]
  <2> TAKE n \in 0 .. (DoubleBits - 1)
  <2>1. n \in Nat /\ n < DoubleBits
    BY Widths
  <2>2. F[n + 1] = step[n][F[n]] /\ F[n] \in Int
    BY <1>3, <2>1
  <2> QED
    BY <2>1, <2>2
<1> HIDE DEF step
<1>5. ASSUME NEW n \in 0 .. DoubleBits PROVE Unsigned(b, n) = F[n]
  <2> DEFINE P(f) == f = [k \in 0 .. n |->
                            IF k = 0 THEN 0 ELSE f[k - 1] + Pow2[k - 1] * b[k - 1]]
             G == [k \in 0 .. n |-> F[k]]
  <2>1. \A k \in 1 .. n : F[k] = F[k - 1] + Pow2[k - 1] * b[k - 1]
    <3> TAKE k \in 1 .. n
    <3>1. k - 1 \in 0 .. (DoubleBits - 1) /\ (k - 1) + 1 = k /\ k - 1 \in 0 .. (DoubleBits + 1)
      BY <1>5, Widths
    <3> QED
      BY <1>4, <3>1, Pow2IsPower
  <2>2. P(G)
    <3>1. G = [k \in 0 .. n |->
                 IF k = 0 THEN 0 ELSE G[k - 1] + Pow2[k - 1] * b[k - 1]]
      <4>1. ASSUME NEW k \in 0 .. n
            PROVE F[k] = IF k = 0 THEN 0 ELSE G[k - 1] + Pow2[k - 1] * b[k - 1]
        <5>1. CASE k = 0
          BY <1>3, <5>1
        <5>2. CASE k # 0
          <6>1. k \in 1 .. n /\ k - 1 \in 0 .. n
            BY <1>5, <4>1, <5>2, Widths
          <6> QED
            BY <2>1, <5>2, <6>1
        <5> QED
          BY <5>1, <5>2
      <4> QED
        BY <4>1
    <3> QED
      BY <3>1
  <2>3. Unsigned(b, n) = (CHOOSE f : P(f))[n]
    BY DEF Unsigned
  <2>4. PICK H : P(H) /\ H = CHOOSE f : P(f)
    <3> HIDE DEF P
    <3> QED
      BY <2>2
  <2> DEFINE S == {k \in Nat : k <= n => H[k] = F[k]}
  <2>5. 0 \in S
    BY <1>3, <1>5, <2>4, Widths
  <2>6. ASSUME NEW k \in Nat, k \in S PROVE k + 1 \in S
    <3>1. SUFFICES ASSUME k + 1 <= n PROVE H[k + 1] = F[k + 1]
      OBVIOUS
    <3>2. k + 1 \in 1 .. n /\ (k + 1) - 1 = k /\ H[k] = F[k] /\ k + 1 \in 0 .. n
      BY <1>5, <2>6, <3>1, Widths
    <3>3. H[k + 1] = H[k] + Pow2[k] * b[k]
      BY <2>4, <3>2
    <3>4. F[k + 1] = F[k] + Pow2[k] * b[k]
      BY <2>1, <3>2
    <3> QED
      BY <3>2, <3>3, <3>4
  <2> HIDE DEF S
  <2>7. \A k \in Nat : k \in S
    BY <2>5, <2>6, SetInduction
  <2>8. n \in Nat /\ n <= n
    BY <1>5, Widths
  <2> QED
    BY <2>3, <2>4, <2>7, <2>8 DEF S
<1> QED
  BY <1>3, <1>4, <1>5 DEF Sums

LEMMA UnsignedNext ==
    ASSUME NEW b \in Double
    PROVE  /\ Unsigned(b, 0) = 0
           /\ \A n \in 0 .. (DoubleBits - 1) :
                /\ Unsigned(b, n) \in Int
                /\ b[n] \in {0, 1}
                /\ Unsigned(b, n + 1) = Unsigned(b, n) + Power[n] * b[n]
<1>1. PICK F : Sums(F, b)
  BY SumsExist
<1>2. 0 \in 0 .. DoubleBits
      /\ \A n \in 0 .. (DoubleBits - 1) : n \in 0 .. DoubleBits /\ n + 1 \in 0 .. DoubleBits
                                          /\ n \in Nat
  BY Widths
<1> QED
  BY <1>1, <1>2 DEF Sums, Double

\* The range of an unsigned number.
LEMMA UnsignedRange ==
    ASSUME NEW b \in Double
    PROVE  \A n \in 0 .. DoubleBits : Unsigned(b, n) \in 0 .. (Power[n] - 1)
<1> DEFINE S == {n \in Nat : n <= DoubleBits => Unsigned(b, n) \in 0 .. (Power[n] - 1)}
<1>1. 0 \in S
  BY UnsignedNext, PowerNext
<1>2. ASSUME NEW n \in Nat, n \in S PROVE n + 1 \in S
  <2>1. SUFFICES ASSUME n + 1 <= DoubleBits
                 PROVE  Unsigned(b, n + 1) \in 0 .. (Power[n + 1] - 1)
    OBVIOUS
  <2>2. n \in 0 .. (DoubleBits - 1) /\ Unsigned(b, n) \in 0 .. (Power[n] - 1)
    BY <1>2, <2>1, Widths
  <2>3. /\ b[n] \in {0, 1}
        /\ Unsigned(b, n + 1) = Unsigned(b, n) + Power[n] * b[n]
    BY <2>2, UnsignedNext
  <2>4. Power[n] \in Nat /\ Power[n + 1] = 2 * Power[n]
    BY PowerNext
  <2>5. CASE b[n] = 0
    BY <2>2, <2>3, <2>4, <2>5
  <2>6. CASE b[n] = 1
    BY <2>2, <2>3, <2>4, <2>6
  <2> QED
    BY <2>3, <2>5, <2>6
<1> HIDE DEF S
<1>3. \A n \in Nat : n \in S
  BY <1>1, <1>2, SetInduction
<1>4. \A n \in 0 .. DoubleBits : n \in Nat /\ n <= DoubleBits
  BY Widths
<1> QED
  BY <1>3, <1>4 DEF S

\* The range of a signed number; its sign is its uppermost bit.
LEMMA SignedRange ==
    ASSUME NEW b \in Double, NEW n \in 1 .. DoubleBits
    PROVE  /\ Signed(b, n) \in -Power[n - 1] .. (Power[n - 1] - 1)
           /\ Signed(b, n) = Unsigned(b, n - 1) - b[n - 1] * Power[n - 1]
           /\ Power[n] = 2 * Power[n - 1] /\ Power[n - 1] \in Nat \ {0}
           /\ b[n - 1] \in {0, 1}
<1>1. n - 1 \in 0 .. (DoubleBits - 1) /\ (n - 1) + 1 = n /\ n - 1 \in Nat
      /\ n - 1 \in 0 .. DoubleBits /\ n \in 0 .. (DoubleBits + 1)
  BY Widths
<1>2. Pow2[n] = Power[n] /\ Power[n] = 2 * Power[n - 1] /\ Power[n - 1] \in Nat \ {0}
  <2>1. Power[(n - 1) + 1] = 2 * Power[n - 1]
    BY <1>1, PowerNext
  <2> QED
    BY <1>1, <2>1, Pow2IsPower, PowerNext
<1>3. /\ b[n - 1] \in {0, 1}
      /\ Unsigned(b, n) = Unsigned(b, n - 1) + Power[n - 1] * b[n - 1]
  <2>1. Unsigned(b, (n - 1) + 1) = Unsigned(b, n - 1) + Power[n - 1] * b[n - 1]
    BY <1>1, UnsignedNext
  <2> QED
    BY <1>1, <2>1, UnsignedNext
<1>4. Unsigned(b, n - 1) \in 0 .. (Power[n - 1] - 1)
  BY <1>1, UnsignedRange
<1>5. CASE b[n - 1] = 0
  BY <1>2, <1>3, <1>4, <1>5 DEF Signed
<1>6. CASE b[n - 1] = 1
  BY <1>2, <1>3, <1>4, <1>6 DEF Signed
<1> QED
  BY <1>2, <1>3, <1>5, <1>6

-----------------------------------------------------------------------------
(* Wrapped sums.                                                           *)

LEMMA Digits ==
    ASSUME NEW d \in Nat \ {0}, NEW q \in Int, NEW r \in 0 .. (d - 1)
    PROVE  (d * q + r) \div d = q /\ (d * q + r) % d = r
<1> DEFINE n == d * q + r
           p == n \div d
           m == n % d
<1>1. n \in Int /\ p \in Int /\ m \in 0 .. (d - 1) /\ n = d * p + m
  OBVIOUS
<1>2. d * (p - q) = r - m
  <2> HIDE DEF p, m
  <2>1. d * (p - q) = d * p - d * q
    BY <1>1
  <2> QED
    BY <1>1, <2>1
<1>3. p = q
  <2> HIDE DEF n, p, m
  <2>1. CASE p - q >= 1
    <3>1. d * (p - q) >= d * 1
      BY <2>1, <1>1
    <3> QED
      BY <3>1, <1>1, <1>2
  <2>2. CASE p - q <= -1
    <3>1. d * (p - q) <= d * (-1)
      BY <2>2, <1>1
    <3> QED
      BY <3>1, <1>1, <1>2
  <2> QED
    BY <2>1, <2>2, <1>1
<1> QED
  BY <1>1, <1>2, <1>3

\* A number within reach of zero is its own quotient of 0 or -1.
LEMMA NearZero ==
    ASSUME NEW d \in Nat \ {0}, NEW i \in -d .. (d - 1)
    PROVE  /\ i \div d = IF i < 0 THEN -1 ELSE 0
           /\ i % d = IF i < 0 THEN i + d ELSE i
<1>1. CASE i >= 0
  <2>1. i \in 0 .. (d - 1) /\ d * 0 + i = i
    BY <1>1
  <2>2. (d * 0 + i) \div d = 0 /\ (d * 0 + i) % d = i
    BY <2>1, Digits
  <2> QED
    BY <1>1, <2>1, <2>2
<1>2. CASE i < 0
  <2>1. i + d \in 0 .. (d - 1) /\ d * (-1) + (i + d) = i
    BY <1>2
  <2>2. (d * (-1) + (i + d)) \div d = -1 /\ (d * (-1) + (i + d)) % d = i + d
    BY <2>1, Digits
  <2> QED
    BY <1>2, <2>1, <2>2
<1> QED
  BY <1>1, <1>2

\* The powers that the definitions use, as numbers.
LEMMA HalfPower ==
    ASSUME NEW n \in 1 .. DoubleBits
    PROVE  /\ Pow2[n - 1] = Power[n - 1] /\ Pow2[n] = 2 * Power[n - 1]
           /\ Power[n - 1] \in Nat \ {0}
<1>1. n - 1 \in Nat /\ (n - 1) + 1 = n /\ n - 1 \in 0 .. (DoubleBits + 1)
      /\ n \in 0 .. (DoubleBits + 1)
  BY Widths
<1>2. Power[(n - 1) + 1] = 2 * Power[n - 1] /\ Power[n - 1] \in Nat \ {0}
  BY <1>1, PowerNext
<1> QED
  BY <1>1, <1>2, Pow2IsPower

LEMMA WrappedRange ==
    ASSUME NEW n \in 1 .. DoubleBits, NEW i \in Int
    PROVE  Wrapped(i, n) \in -Power[n - 1] .. (Power[n - 1] - 1)
<1> DEFINE m == Power[n - 1]
<1>1. m \in Nat \ {0} /\ Pow2[n - 1] = m /\ Pow2[n] = 2 * m
  BY HalfPower
<1> HIDE DEF m
<1>2. i % (2 * m) \in 0 .. (2 * m - 1)
  BY <1>1
<1>3. Wrapped(i, n) = IF i % (2 * m) < m THEN i % (2 * m) ELSE (i % (2 * m)) - 2 * m
  BY <1>1 DEF Wrapped
<1> QED
  BY <1>1, <1>2, <1>3 DEF m

\* The formula of add_overflow for other compilers.
LEMMA AddFallbackExact ==
    ASSUME NEW n \in 1 .. DoubleBits,
           NEW a \in -Power[n - 1] .. (Power[n - 1] - 1),
           NEW b \in -Power[n - 1] .. (Power[n - 1] - 1)
    PROVE  AddFallback(a, b, n) <=> ~ FitsIn(a + b, n)
<1> DEFINE m == Power[n - 1]
           s == a + b
           w == s % (2 * m)
<1>1. m \in Nat \ {0} /\ Pow2[n - 1] = m /\ Pow2[n] = 2 * m
      /\ a \in -m .. (m - 1) /\ b \in -m .. (m - 1)
  BY HalfPower
<1> HIDE DEF m
<1>2. 2 * m \in Nat \ {0} /\ s \in -(2 * m) .. (2 * m - 1)
  BY <1>1
<1>3. w = IF s < 0 THEN s + 2 * m ELSE s
  <2> HIDE DEF s
  <2> QED
    BY <1>2, NearZero
<1>4. Wrapped(s, n) = IF w < m THEN w ELSE w - 2 * m
  BY <1>1 DEF Wrapped
<1> HIDE DEF w
<1>5. FitsIn(s, n) <=> -m <= s /\ s < m
  BY <1>1, <1>2 DEF FitsIn
<1>6. Wrapped(s, n) < 0 <=> w >= m
  BY <1>1, <1>2, <1>3, <1>4
<1>7. AddFallback(a, b, n) <=> (a < 0 <=> b < 0) /\ ~ (a < 0 <=> w >= m)
  BY <1>6 DEF AddFallback
<1> USE <1>1, <1>3
<1>8. CASE a < 0 /\ b < 0
  <2>1. w = s + 2 * m /\ (w >= m <=> -m <= s) /\ s < m
    BY <1>8
  <2> QED
    BY <1>5, <1>7, <1>8, <2>1
<1>9. CASE a < 0 /\ b >= 0
  <2>1. -m <= s /\ s < m /\ ~ (b < 0)
    BY <1>9
  <2> QED
    BY <1>5, <1>7, <1>9, <2>1
<1>10. CASE a >= 0 /\ b < 0
  <2>1. -m <= s /\ s < m /\ ~ (a < 0)
    BY <1>10
  <2> QED
    BY <1>5, <1>7, <1>10, <2>1
<1>11. CASE a >= 0 /\ b >= 0
  <2>1. w = s /\ (w >= m <=> ~ (s < m)) /\ -m <= s /\ ~ (a < 0) /\ ~ (b < 0)
    BY <1>11
  <2> QED
    BY <1>5, <1>7, <1>11, <2>1
<1> QED
  BY <1>8, <1>9, <1>10, <1>11

LEMMA FallbackFollows == TypeOK => FallbackAddsExactly
<1> SUFFICES ASSUME TypeOK, NEW n \in {WordBits, DoubleBits},
                    NEW a \in Operands(n), NEW b \in Operands(n)
             PROVE  AddFallback(a, b, n) <=> ~ FitsIn(a + b, n)
  BY DEF FallbackAddsExactly
<1>1. n \in 1 .. DoubleBits
  BY Widths
<1>2. \A c \in Operands(n) : c \in -Power[n - 1] .. (Power[n - 1] - 1)
  BY <1>1, SignedRange DEF Operands, TypeOK
<1> QED
  BY <1>1, <1>2, AddFallbackExact

-----------------------------------------------------------------------------
(* Results.                                                                *)

LEMMA BitsType == \A i \in Int : Bits(i) \in Double
<1> TAKE i \in Int
<1>1. ASSUME NEW k \in 0 .. (DoubleBits - 1) PROVE (i \div Pow2[k]) % 2 \in {0, 1}
  <2>1. Pow2[k] \in Nat \ {0}
    BY Widths, Pow2IsPower, PowerNext
  <2>2. i \div Pow2[k] \in Int
    BY <2>1
  <2> QED
    BY <2>2
<1> QED
  BY <1>1 DEF Bits, Double

\* The bits above a number repeat its sign.
LEMMA UpperBits ==
    ASSUME NEW m \in Nat, NEW i \in -Power[m] .. (Power[m] - 1),
           NEW k \in 0 .. (DoubleBits - 1), m <= k
    PROVE  Bits(i)[k] = IF i < 0 THEN 1 ELSE 0
<1> DEFINE p == Power[k]
<1>1. p \in Nat \ {0} /\ Pow2[k] = p /\ Power[m] \in Nat /\ Power[m] <= p
  <2>1. k \in Nat /\ k \in 0 .. (DoubleBits + 1)
    BY Widths
  <2> QED
    BY <2>1, Pow2IsPower, PowerNext, PowerGrows
<1>2. Bits(i)[k] = (i \div p) % 2
  BY <1>1 DEF Bits
<1> HIDE DEF p
<1>3. i \in -p .. (p - 1)
  BY <1>1
<1>4. i \div p = IF i < 0 THEN -1 ELSE 0
  BY <1>1, <1>3, NearZero
<1>5. \A j \in {-1, 0} : j % 2 = IF j < 0 THEN 1 ELSE 0
  <2> TAKE j \in {-1, 0}
  <2> DEFINE d == 2
  <2>1. d \in Nat \ {0} /\ j \in -d .. (d - 1) /\ d - 1 = 1
    OBVIOUS
  <2> HIDE DEF d
  <2>2. j % d = IF j < 0 THEN j + d ELSE j
    BY <2>1, NearZero
  <2>3. j % 2 = IF j < 0 THEN j + 2 ELSE j
    BY <2>2 DEF d
  <2> QED
    BY <2>3
<1>6. (i \div p) \in {-1, 0} /\ ((i \div p) < 0 <=> i < 0)
  BY <1>4
<1> QED
  BY <1>2, <1>5, <1>6

\* Canonical says that the upper bits are equal.
LEMMA CanonicalMeans ==
    ASSUME NEW b \in Double
    PROVE  Canonical(b) <=> \A k \in WordBits .. (DoubleBits - 1) : b[k] = b[WordBits - 1]
<1>1. b = [k \in 0 .. (DoubleBits - 1) |-> b[k]]
  BY DEF Double
<1>2. ASSUME Canonical(b), NEW k \in WordBits .. (DoubleBits - 1)
      PROVE  b[k] = b[WordBits - 1]
  <2>1. k \in 0 .. (DoubleBits - 1) /\ ~ (k < WordBits)
    BY <1>2, Widths
  <2>2. SignExtended(b)[k] = b[WordBits - 1]
    BY <2>1 DEF SignExtended
  <2> QED
    BY <1>2, <2>2 DEF Canonical
<1>3. ASSUME \A k \in WordBits .. (DoubleBits - 1) : b[k] = b[WordBits - 1]
      PROVE  Canonical(b)
  <2>1. \A k \in 0 .. (DoubleBits - 1) : b[k] = b[IF k < WordBits THEN k ELSE WordBits - 1]
    BY <1>3, Widths
  <2> QED
    BY <1>1, <2>1 DEF Canonical, SignExtended
<1> QED
  BY <1>2, <1>3

\* The words of C.
SmallNumbers == -Power[WordBits - 1] .. (Power[WordBits - 1] - 1)

LEMMA SmallBits == \A i \in SmallNumbers : i \in Int /\ Bits(i) \in Double /\ Canonical(Bits(i))
<1> TAKE i \in SmallNumbers
<1>1. WordBits - 1 \in Nat /\ Power[WordBits - 1] \in Nat
  BY Widths, PowerNext
<1>2. i \in Int
  BY <1>1 DEF SmallNumbers
<1>3. \A k \in (WordBits - 1) .. (DoubleBits - 1) : Bits(i)[k] = IF i < 0 THEN 1 ELSE 0
  <2> TAKE k \in (WordBits - 1) .. (DoubleBits - 1)
  <2>1. k \in 0 .. (DoubleBits - 1) /\ WordBits - 1 <= k
    BY Widths
  <2> QED
    BY <1>1, <2>1, UpperBits DEF SmallNumbers
<1>4. /\ WordBits - 1 \in (WordBits - 1) .. (DoubleBits - 1)
      /\ WordBits .. (DoubleBits - 1) \subseteq (WordBits - 1) .. (DoubleBits - 1)
  BY Widths
<1>5. Bits(i) \in Double
  BY <1>2, BitsType
<1>6. \A k \in WordBits .. (DoubleBits - 1) : Bits(i)[k] = Bits(i)[WordBits - 1]
  BY <1>3, <1>4
<1> QED
  BY <1>2, <1>5, <1>6, CanonicalMeans

LEMMA WordResultType ==
    \A i \in Int : WordResult(i) \in Double /\ Canonical(WordResult(i))
<1> TAKE i \in Int
<1>1. WordBits \in 1 .. DoubleBits
  BY Widths
<1>2. Wrapped(i, WordBits) \in SmallNumbers
  BY <1>1, WrappedRange DEF SmallNumbers
<1> QED
  BY <1>2, SmallBits DEF WordResult

LEMMA FlagType == \A p : Flag(p) \in Double /\ Canonical(Flag(p))
<1> TAKE p
<1>1. Power[WordBits - 1] >= 2
  <2>1. WordBits - 2 \in Nat /\ (WordBits - 2) + 1 = WordBits - 1
    BY Widths
  <2>2. Power[(WordBits - 2) + 1] = 2 * Power[WordBits - 2] /\ Power[WordBits - 2] \in Nat \ {0}
    BY <2>1, PowerNext
  <2> QED
    BY <2>1, <2>2
<1>2. 0 \in SmallNumbers /\ 1 \in SmallNumbers
  <2>1. Power[WordBits - 1] \in Nat
    BY Widths, PowerNext
  <2> QED
    BY <1>1, <2>1 DEF SmallNumbers
<1>3. (IF p THEN 1 ELSE 0) \in SmallNumbers
  BY <1>2
<1> QED
  BY <1>3, SmallBits DEF Flag

\* Immediates are small.
LEMMA ImmediatesSmall ==
    /\ \A i \in SignedImm : i \in SmallNumbers
    /\ \A i \in UnsignedImm : i \in SmallNumbers /\ i \in 0 .. (Power[ImmBits] - 1)
<1>1. /\ ImmBits \in Nat /\ ImmBits - 1 \in Nat /\ WordBits - 1 \in Nat
      /\ ImmBits <= WordBits - 1 /\ ImmBits - 1 <= WordBits - 1
      /\ ImmBits \in 0 .. (DoubleBits + 1) /\ ImmBits - 1 \in 0 .. (DoubleBits + 1)
  BY Widths
<1>2. /\ Pow2[ImmBits] = Power[ImmBits] /\ Pow2[ImmBits - 1] = Power[ImmBits - 1]
      /\ Power[ImmBits] \in Nat /\ Power[ImmBits - 1] \in Nat /\ Power[WordBits - 1] \in Nat
  BY <1>1, Pow2IsPower, PowerNext
<1>3. Power[ImmBits] <= Power[WordBits - 1] /\ Power[ImmBits - 1] <= Power[WordBits - 1]
  BY <1>1, PowerGrows
<1> QED
  BY <1>2, <1>3 DEF SmallNumbers, SignedImm, UnsignedImm

LEMMA LogicTypes ==
    ASSUME NEW b \in Double, NEW c \in Double
    PROVE  /\ Not(b) \in Double /\ And(b, c) \in Double
           /\ Or(b, c) \in Double /\ Xor(b, c) \in Double
           /\ Canonical(b) /\ Canonical(c) =>
                /\ Canonical(Not(b)) /\ Canonical(And(b, c))
                /\ Canonical(Or(b, c)) /\ Canonical(Xor(b, c))
<1>1. ASSUME NEW d \in Double
      PROVE  /\ Not(d) \in Double
             /\ Canonical(d) => Canonical(Not(d))
  <2>1. \A k \in 0 .. (DoubleBits - 1) : Not(d)[k] = 1 - d[k] /\ d[k] \in {0, 1}
    BY DEF Not, Double
  <2>2. Not(d) \in Double
    <3>1. \A k \in 0 .. (DoubleBits - 1) : 1 - d[k] \in {0, 1}
      BY <2>1
    <3>2. Not(d) = [k \in 0 .. (DoubleBits - 1) |-> 1 - d[k]]
      BY DEF Not, Double
    <3> QED
      BY <3>1, <3>2 DEF Double
  <2> QED
    BY <2>1, <2>2, CanonicalMeans, Widths
<1>2. ASSUME NEW d \in Double, NEW e \in Double
      PROVE  /\ And(d, e) \in Double
             /\ Canonical(d) /\ Canonical(e) => Canonical(And(d, e))
  <2>1. \A k \in 0 .. (DoubleBits - 1) :
          And(d, e)[k] = d[k] * e[k] /\ d[k] \in {0, 1} /\ e[k] \in {0, 1}
    BY DEF And, Double
  <2>2. And(d, e) \in Double
    <3>1. \A k \in 0 .. (DoubleBits - 1) : d[k] * e[k] \in {0, 1}
      BY <2>1
    <3>2. And(d, e) = [k \in 0 .. (DoubleBits - 1) |-> d[k] * e[k]]
      BY DEF And, Double
    <3> QED
      BY <3>1, <3>2 DEF Double
  <2>3. /\ WordBits - 1 \in 0 .. (DoubleBits - 1)
        /\ WordBits .. (DoubleBits - 1) \subseteq 0 .. (DoubleBits - 1)
    BY Widths
  <2> QED
    BY <2>1, <2>2, <2>3, CanonicalMeans
<1>3. Or(b, c) \in Double /\ (Canonical(b) /\ Canonical(c) => Canonical(Or(b, c)))
  <2>1. Not(b) \in Double /\ Not(c) \in Double
    BY <1>1
  <2>2. And(Not(b), Not(c)) \in Double
    BY <1>2, <2>1
  <2> QED
    BY <1>1, <1>2, <2>1, <2>2 DEF Or
<1>4. Xor(b, c) \in Double /\ (Canonical(b) /\ Canonical(c) => Canonical(Xor(b, c)))
  <2>1. \A k \in 0 .. (DoubleBits - 1) :
          Xor(b, c)[k] = (b[k] + c[k]) % 2 /\ b[k] \in {0, 1} /\ c[k] \in {0, 1}
    BY DEF Xor, Double
  <2>2. Xor(b, c) \in Double
    <3>1. \A k \in 0 .. (DoubleBits - 1) : (b[k] + c[k]) % 2 \in {0, 1}
      BY <2>1
    <3>2. Xor(b, c) = [k \in 0 .. (DoubleBits - 1) |-> (b[k] + c[k]) % 2]
      BY DEF Xor, Double
    <3> QED
      BY <3>1, <3>2 DEF Double
  <2>3. /\ WordBits - 1 \in 0 .. (DoubleBits - 1)
        /\ WordBits .. (DoubleBits - 1) \subseteq 0 .. (DoubleBits - 1)
    BY Widths
  <2> QED
    BY <2>1, <2>2, <2>3, CanonicalMeans
<1> QED
  BY <1>1, <1>2, <1>3, <1>4

LEMMA ShiftTypes ==
    ASSUME NEW b \in Double, NEW s \in Nat, NEW n \in 1 .. DoubleBits, NEW fill \in {0, 1}
    PROVE  Left(b, s, n) \in Double /\ Right(b, s, n, fill) \in Double
<1>1. \A k \in 0 .. (DoubleBits - 1) :
        (IF k \in s .. (n - 1) THEN b[k - s] ELSE 0) \in {0, 1}
  <2> TAKE k \in 0 .. (DoubleBits - 1)
  <2>1. CASE k \in s .. (n - 1)
    <3>1. k - s \in 0 .. (DoubleBits - 1)
      BY <2>1, Widths
    <3> QED
      BY <2>1, <3>1 DEF Double
  <2> QED
    BY <2>1
<1>2. \A k \in 0 .. (DoubleBits - 1) : (IF k + s < n THEN b[k + s] ELSE fill) \in {0, 1}
  <2> TAKE k \in 0 .. (DoubleBits - 1)
  <2>1. CASE k + s < n
    <3>1. k + s \in 0 .. (DoubleBits - 1)
      BY <2>1, Widths
    <3> QED
      BY <2>1, <3>1 DEF Double
  <2> QED
    BY <2>1
<1> QED
  BY <1>1, <1>2 DEF Left, Right, Double

LEMMA SignExtendedType ==
    ASSUME NEW b \in Double
    PROVE  SignExtended(b) \in Double /\ Canonical(SignExtended(b))
<1>1. \A k \in 0 .. (DoubleBits - 1) :
        /\ b[IF k < WordBits THEN k ELSE WordBits - 1] \in {0, 1}
        /\ SignExtended(b)[k] = b[IF k < WordBits THEN k ELSE WordBits - 1]
  <2>1. \A k \in 0 .. (DoubleBits - 1) :
          (IF k < WordBits THEN k ELSE WordBits - 1) \in 0 .. (DoubleBits - 1)
    BY Widths
  <2> QED
    BY <2>1 DEF SignExtended, Double
<1>2. SignExtended(b) \in Double
  BY <1>1 DEF SignExtended, Double
<1>3. \A k \in WordBits .. (DoubleBits - 1) :
        SignExtended(b)[k] = SignExtended(b)[WordBits - 1]
  BY <1>1, Widths
<1> QED
  BY <1>2, <1>3, CanonicalMeans

-----------------------------------------------------------------------------
(* The handlers leave 64 bits, and word handlers keep words canonical.     *)

\* What is in registers is canonical.
AllCanonical == Canonical(reg_sa) /\ \A r \in Regs : Canonical(gpr[r])

\* A result that is canonical if the operands are.
Result(d) == d \in Double /\ (AllCanonical => Canonical(d))

WordStep == \E r \in Regs : \E d : Result(d) /\ Set(r, d)

WideStep == \E r \in Regs, d \in Double : SetWide(r, d)

AmountStep == \E d : Result(d) /\ reg_sa' = d /\ UNCHANGED <<gpr, words>>

Step == Nothing \/ WordStep \/ WideStep \/ AmountStep

LEMMA StepKeeps ==
    ASSUME TypeOK, CanonicalWords, Step
    PROVE  TypeOK' /\ CanonicalWords'
<1>1. words => AllCanonical
  BY DEF CanonicalWords, AllCanonical
<1>2. CASE Nothing
  BY <1>2 DEF Nothing, vars, TypeOK, CanonicalWords
<1>3. CASE WordStep
  <2>1. PICK r \in Regs : \E d : Result(d) /\ Set(r, d)
    BY <1>3 DEF WordStep
  <2>4. PICK d : Result(d) /\ Set(r, d)
    BY <2>1
  <2>2. TypeOK'
    BY <2>4 DEF Result, Set, Put, TypeOK
  <2>3. ASSUME words PROVE Canonical(reg_sa) /\ \A q \in Regs : Canonical(gpr'[q])
    BY <1>1, <2>4, <2>3 DEF Result, AllCanonical, Set, Put, TypeOK
  <2> QED
    BY <2>4, <2>2, <2>3 DEF CanonicalWords, Set, Put
<1>4. CASE WideStep
  BY <1>4 DEF WideStep, SetWide, Put, TypeOK, CanonicalWords
<1>5. CASE AmountStep
  BY <1>1, <1>5 DEF AmountStep, Result, AllCanonical, TypeOK, CanonicalWords
<1> QED
  BY <1>2, <1>3, <1>4, <1>5 DEF Step

LEMMA OperandTypes ==
    ASSUME TypeOK, NEW r \in Regs
    PROVE  /\ gpr[r] \in Double /\ Result(gpr[r])
           /\ u32(r) \in Nat /\ u64(r) \in Nat /\ i32(r) \in Int /\ i64(r) \in Int
<1>1. gpr[r] \in Double /\ Result(gpr[r])
  BY DEF TypeOK, Result, AllCanonical
<1>2. /\ WordBits \in 1 .. DoubleBits /\ DoubleBits \in 1 .. DoubleBits
      /\ WordBits \in 0 .. DoubleBits /\ DoubleBits \in 0 .. DoubleBits
  BY Widths
<1>3. u32(r) \in Nat /\ u64(r) \in Nat
  BY <1>1, <1>2, UnsignedRange DEF u32, u64
<1>4. i32(r) \in Int /\ i64(r) \in Int
  <2>1. \A n \in 1 .. DoubleBits : Power[n - 1] \in Nat
    BY HalfPower
  <2> QED
    BY <1>1, <1>2, <2>1, SignedRange DEF i32, i64
<1> QED
  BY <1>1, <1>3, <1>4

LEMMA ImmediateSteps ==
    ASSUME TypeOK, NEW rs \in Regs, NEW rt \in Regs, NEW imm \in SignedImm,
           \/ ADDI(rs, rt, imm) \/ ADDIU(rs, rt, imm)
           \/ SLTI(rs, rt, imm) \/ SLTIU(rs, rt, imm)
           \/ DADDI(rs, rt, imm) \/ DADDIU(rs, rt, imm)
    PROVE  Step
<1>1. imm \in Int
  BY ImmediatesSmall, SmallBits
<1>2. i32(rs) + imm \in Int /\ i64(rt) + imm \in Int /\ i64(rs) + imm \in Int
  BY <1>1, OperandTypes
<1>3. Result(WordResult(i32(rs) + imm)) /\ \A p : Result(Flag(p))
  BY <1>2, WordResultType, FlagType DEF Result
<1>4. Bits(i64(rt) + imm) \in Double /\ Bits(i64(rs) + imm) \in Double
  BY <1>2, BitsType
<1>5. CASE ADDI(rs, rt, imm) \/ ADDIU(rs, rt, imm)
  BY <1>3, <1>5 DEF ADDI, ADDIU, Step, WordStep
<1>6. CASE SLTI(rs, rt, imm)
  <2>1. Set(rt, Flag(i64(rs) < imm))
    BY <1>6 DEF SLTI
  <2> QED
    BY <1>3, <2>1 DEF Step, WordStep
<1>7. CASE SLTIU(rs, rt, imm)
  <2>1. Set(rt, Flag(u64(rs) < Unsigned(Bits(imm), DoubleBits)))
    BY <1>7 DEF SLTIU
  <2> QED
    BY <1>3, <2>1 DEF Step, WordStep
<1>8. CASE DADDI(rs, rt, imm) \/ DADDIU(rs, rt, imm)
  BY <1>4, <1>8 DEF DADDI, DADDIU, Step, WideStep
<1> QED
  BY <1>5, <1>6, <1>7, <1>8

LEMMA LogicalImmediateSteps ==
    ASSUME TypeOK, NEW rs \in Regs, NEW rt \in Regs, NEW imm \in UnsignedImm,
           \/ ANDI(rs, rt, imm) \/ ORI(rs, rt, imm)
           \/ XORI(rs, rt, imm) \/ LUI(rs, rt, imm)
    PROVE  Step
<1>1. Bits(imm) \in Double /\ Canonical(Bits(imm))
  BY ImmediatesSmall, SmallBits
<1>2. gpr[rs] \in Double /\ Result(gpr[rs])
  BY OperandTypes
<1>3. /\ Result(And(gpr[rs], Bits(imm))) /\ Result(Or(gpr[rs], Bits(imm)))
      /\ Result(Xor(gpr[rs], Bits(imm)))
  BY <1>1, <1>2, LogicTypes DEF Result
<1>4. Result(SignExtended(Left(Bits(imm), WordBits - ImmBits, WordBits)))
  <2>1. WordBits - ImmBits \in Nat /\ WordBits \in 1 .. DoubleBits
    BY Widths
  <2>2. Left(Bits(imm), WordBits - ImmBits, WordBits) \in Double
    BY <1>1, <2>1, ShiftTypes
  <2> QED
    BY <2>2, SignExtendedType DEF Result
<1> QED
  BY <1>3, <1>4 DEF ANDI, ORI, XORI, LUI, Step, WordStep

LEMMA RegisterSteps ==
    ASSUME TypeOK, NEW rs \in Regs, NEW rt \in Regs, NEW rd \in Regs,
           \/ ADD(rs, rt, rd) \/ ADDU(rs, rt, rd)
           \/ SUB(rs, rt, rd) \/ SUBU(rs, rt, rd)
           \/ AND(rs, rt, rd) \/ OR(rs, rt, rd)
           \/ XOR(rs, rt, rd) \/ NOR(rs, rt, rd)
           \/ SLT(rs, rt, rd) \/ SLTU(rs, rt, rd)
           \/ MOVZ(rs, rt, rd) \/ MOVN(rs, rt, rd)
           \/ DADD(rs, rt, rd) \/ DADDU(rs, rt, rd)
           \/ DSUB(rs, rt, rd) \/ DSUBU(rs, rt, rd)
    PROVE  Step
<1>1. /\ i32(rs) + i32(rt) \in Int /\ i32(rs) - i32(rt) \in Int
      /\ i64(rs) + i64(rt) \in Int /\ i64(rs) - i64(rt) \in Int
  BY OperandTypes
<1>2. /\ Result(WordResult(i32(rs) + i32(rt))) /\ Result(WordResult(i32(rs) - i32(rt)))
      /\ \A p : Result(Flag(p))
  BY <1>1, WordResultType, FlagType DEF Result
<1>3. Bits(i64(rs) + i64(rt)) \in Double /\ Bits(i64(rs) - i64(rt)) \in Double
  BY <1>1, BitsType
<1>4. gpr[rs] \in Double /\ gpr[rt] \in Double /\ Result(gpr[rs]) /\ Result(gpr[rt])
  BY OperandTypes
<1>5. /\ Result(And(gpr[rs], gpr[rt])) /\ Result(Or(gpr[rs], gpr[rt]))
      /\ Result(Xor(gpr[rs], gpr[rt])) /\ Result(Not(Or(gpr[rs], gpr[rt])))
  BY <1>4, LogicTypes DEF Result
<1>6. CASE ADD(rs, rt, rd) \/ ADDU(rs, rt, rd) \/ SUB(rs, rt, rd) \/ SUBU(rs, rt, rd)
  BY <1>2, <1>6 DEF ADD, ADDU, SUB, SUBU, Step, WordStep
<1>7. CASE AND(rs, rt, rd) \/ OR(rs, rt, rd) \/ XOR(rs, rt, rd) \/ NOR(rs, rt, rd)
  BY <1>5, <1>7 DEF AND, OR, XOR, NOR, Step, WordStep
<1>8. CASE SLT(rs, rt, rd)
  <2>1. Set(rd, Flag(i64(rs) < i64(rt)))
    BY <1>8 DEF SLT
  <2> QED
    BY <1>2, <2>1 DEF Step, WordStep
<1>9. CASE SLTU(rs, rt, rd)
  <2>1. Set(rd, Flag(u64(rs) < u64(rt)))
    BY <1>9 DEF SLTU
  <2> QED
    BY <1>2, <2>1 DEF Step, WordStep
<1>10. CASE MOVZ(rs, rt, rd) \/ MOVN(rs, rt, rd)
  BY <1>4, <1>10 DEF MOVZ, MOVN, Step, WordStep
<1>11. CASE DADD(rs, rt, rd) \/ DADDU(rs, rt, rd) \/ DSUB(rs, rt, rd) \/ DSUBU(rs, rt, rd)
  BY <1>3, <1>11 DEF DADD, DADDU, DSUB, DSUBU, Step, WideStep
<1> QED
  BY <1>6, <1>7, <1>8, <1>9, <1>10, <1>11

\* Shifts by a field or by what a register may come to.
LEMMA ShiftSteps ==
    ASSUME TypeOK, NEW rt \in Regs, NEW rd \in Regs, NEW s \in Nat,
           \/ SLL(rt, rd, s) \/ SRL(rt, rd, s) \/ SRA(rt, rd, s)
           \/ DSLL(rt, rd, s) \/ DSRL(rt, rd, s) \/ DSRA(rt, rd, s)
    PROVE  Step
<1> DEFINE b == gpr[rt]
<1>1. b \in Double
  BY OperandTypes
<1>2. /\ WordBits \in 1 .. DoubleBits /\ DoubleBits \in 1 .. DoubleBits
      /\ WordBits - 1 \in 0 .. (DoubleBits - 1) /\ DoubleBits - 1 \in 0 .. (DoubleBits - 1)
  BY Widths
<1>3. b[WordBits - 1] \in {0, 1} /\ b[DoubleBits - 1] \in {0, 1} /\ 0 \in {0, 1}
  BY <1>1, <1>2 DEF Double
<1> HIDE DEF b
<1>4. \A n \in {WordBits, DoubleBits} :
        Left(b, s, n) \in Double /\ Logical(b, s, n) \in Double /\ Arithmetic(b, s, n) \in Double
  BY <1>1, <1>2, <1>3, ShiftTypes DEF Logical, Arithmetic
<1>5. /\ Result(SignExtended(Left(b, s, WordBits)))
      /\ Result(SRLResult(b, s))
  BY <1>4, SignExtendedType DEF Result, SRLResult
<1>6. Canonical(Arithmetic(b, s, WordBits))
  <2> DEFINE a == Arithmetic(b, s, WordBits)
             top == b[WordBits - 1]
  <2>1. \A k \in 0 .. (DoubleBits - 1) : a[k] = IF k + s < WordBits THEN b[k + s] ELSE top
    BY DEF Arithmetic, Right
  <2>2. \A k \in (WordBits - 1) .. (DoubleBits - 1) : a[k] = top
    <3> TAKE k \in (WordBits - 1) .. (DoubleBits - 1)
    <3>1. k \in 0 .. (DoubleBits - 1)
      BY Widths
    <3>2. k + s < WordBits => k + s = WordBits - 1
      BY Widths
    <3> QED
      BY <2>1, <3>1, <3>2
  <2>3. WordBits - 1 \in (WordBits - 1) .. (DoubleBits - 1)
        /\ WordBits .. (DoubleBits - 1) \subseteq (WordBits - 1) .. (DoubleBits - 1)
    BY Widths
  <2> HIDE DEF a
  <2>4. \A k \in WordBits .. (DoubleBits - 1) : a[k] = a[WordBits - 1]
    BY <2>2, <2>3
  <2> QED
    BY <1>4, <2>4, CanonicalMeans DEF a
<1>7. Result(Arithmetic(b, s, WordBits))
  BY <1>4, <1>6 DEF Result
<1>8. CASE SLL(rt, rd, s) \/ SRL(rt, rd, s) \/ SRA(rt, rd, s)
  BY <1>5, <1>7, <1>8 DEF SLL, SRL, SRA, Step, WordStep, b
<1>9. CASE DSLL(rt, rd, s) \/ DSRL(rt, rd, s) \/ DSRA(rt, rd, s)
  BY <1>4, <1>9 DEF DSLL, DSRL, DSRA, Step, WideStep, b
<1> QED
  BY <1>8, <1>9

LEMMA VariableShiftSteps ==
    ASSUME TypeOK, NEW rs \in Regs, NEW rt \in Regs, NEW rd \in Regs,
           \/ SLLV(rs, rt, rd) \/ SRLV(rs, rt, rd) \/ SRAV(rs, rt, rd)
           \/ DSLLV(rs, rt, rd) \/ DSRLV(rs, rt, rd) \/ DSRAV(rs, rt, rd)
    PROVE  Step
<1>1. u32(rs) \in Nat /\ u64(rs) \in Nat
  BY OperandTypes
<1>2. WordBits \in Nat \ {0} /\ DoubleBits \in Nat \ {0} /\ 4 * DoubleBits \in Nat \ {0}
  BY Widths
<1>3. Amounts32(rs) \subseteq Nat /\ Amounts64(rs) \subseteq Nat
  BY <1>1, <1>2 DEF Amounts32, Amounts64
<1>4. \E s \in Nat : \/ SLL(rt, rd, s) \/ SRL(rt, rd, s) \/ SRA(rt, rd, s)
                     \/ DSLL(rt, rd, s) \/ DSRL(rt, rd, s) \/ DSRA(rt, rd, s)
  BY <1>3 DEF SLLV, SRLV, SRAV, DSLLV, DSRLV, DSRAV
<1> QED
  BY <1>4, ShiftSteps

\* The shift amount register.
LEMMA LaneSteps ==
    ASSUME TypeOK, NEW rs \in Regs, NEW imm \in UnsignedImm,
           MTSAB(rs, imm) \/ MTSAH(rs, imm)
    PROVE  Step
<1>1. PICK bits \in 0 .. ImmBits, shift \in 0 .. (ByteShift + 1) :
        MoveLanes(rs, imm, bits, shift)
  <2>1. /\ LaneBits \in 0 .. ImmBits /\ LaneBits - 1 \in 0 .. ImmBits
        /\ ByteShift \in 0 .. (ByteShift + 1) /\ ByteShift + 1 \in 0 .. (ByteShift + 1)
    BY Widths
  <2> QED
    BY <2>1 DEF MTSAB, MTSAH
<1> DEFINE mask == Bits(Pow2[bits] - 1)
           x == Xor(And(gpr[rs], mask), Xor(Bits(imm), mask))
           d == Left(x, shift, DoubleBits)
<1>2. /\ ImmBits \in Nat /\ bits \in Nat /\ bits <= ImmBits /\ bits \in 0 .. (DoubleBits + 1)
      /\ shift \in Nat /\ DoubleBits \in 1 .. DoubleBits
  BY Widths
<1>3. /\ Pow2[bits] - 1 \in -Power[ImmBits] .. (Power[ImmBits] - 1) /\ Pow2[bits] - 1 >= 0
      /\ imm \in -Power[ImmBits] .. (Power[ImmBits] - 1) /\ imm >= 0
      /\ Pow2[bits] - 1 \in Int /\ imm \in Int
  <2>1. /\ Pow2[bits] = Power[bits] /\ Power[bits] \in Nat \ {0}
        /\ Power[bits] <= Power[ImmBits] /\ Power[ImmBits] \in Nat
    BY <1>2, Pow2IsPower, PowerNext, PowerGrows
  <2> QED
    BY <2>1, ImmediatesSmall
<1>4. mask \in Double /\ Bits(imm) \in Double /\ gpr[rs] \in Double
  BY <1>3, BitsType, OperandTypes
<1>5. \A k \in 0 .. (DoubleBits - 1) : ImmBits <= k => mask[k] = 0 /\ Bits(imm)[k] = 0
  BY <1>2, <1>3, UpperBits
<1> HIDE DEF mask
<1>6. /\ And(gpr[rs], mask) \in Double /\ Xor(Bits(imm), mask) \in Double
      /\ x \in Double
  BY <1>4, LogicTypes
<1>7. \A k \in 0 .. (DoubleBits - 1) : ImmBits <= k => x[k] = 0
  <2> TAKE k \in 0 .. (DoubleBits - 1)
  <2> HAVE ImmBits <= k
  <2>1. mask[k] = 0 /\ Bits(imm)[k] = 0 /\ gpr[rs][k] \in {0, 1}
    BY <1>4, <1>5 DEF Double
  <2>2. And(gpr[rs], mask)[k] = 0
    <3>1. And(gpr[rs], mask)[k] = gpr[rs][k] * mask[k]
      BY <1>4 DEF And, Double
    <3> QED
      BY <2>1, <3>1
  <2>3. Xor(Bits(imm), mask)[k] = 0
    <3>1. Xor(Bits(imm), mask)[k] = (Bits(imm)[k] + mask[k]) % 2
      BY <1>4 DEF Xor, Double
    <3> QED
      BY <2>1, <3>1
  <2>4. x[k] = (And(gpr[rs], mask)[k] + Xor(Bits(imm), mask)[k]) % 2
    BY <1>6 DEF Xor, Double
  <2> QED
    BY <2>2, <2>3, <2>4
<1> HIDE DEF x
<1>8. d \in Double
  BY <1>2, <1>6, ShiftTypes
<1>9. \A k \in (WordBits - 1) .. (DoubleBits - 1) : d[k] = 0
  <2> TAKE k \in (WordBits - 1) .. (DoubleBits - 1)
  <2>1. k \in 0 .. (DoubleBits - 1) /\ k - shift \in 0 .. (DoubleBits - 1) /\ ImmBits <= k - shift
    BY Widths
  <2>2. d[k] = IF k \in shift .. (DoubleBits - 1) THEN x[k - shift] ELSE 0
    BY <2>1 DEF Left
  <2> QED
    BY <1>7, <2>1, <2>2
<1>10. /\ WordBits - 1 \in (WordBits - 1) .. (DoubleBits - 1)
       /\ WordBits .. (DoubleBits - 1) \subseteq (WordBits - 1) .. (DoubleBits - 1)
  BY Widths
<1>11. reg_sa' = d /\ UNCHANGED <<gpr, words>>
  BY <1>1 DEF MoveLanes, x, mask
<1> HIDE DEF d
<1>12. Canonical(d)
  BY <1>8, <1>9, <1>10, CanonicalMeans
<1> QED
  BY <1>8, <1>11, <1>12 DEF Step, AmountStep, Result

LEMMA NextSteps ==
    ASSUME TypeOK, Next
    PROVE  Step
<1>1. CASE \E rs, rt \in Regs, imm \in SignedImm :
             \/ ADDI(rs, rt, imm) \/ ADDIU(rs, rt, imm)
             \/ SLTI(rs, rt, imm) \/ SLTIU(rs, rt, imm)
             \/ DADDI(rs, rt, imm) \/ DADDIU(rs, rt, imm)
  BY <1>1, ImmediateSteps
<1>2. CASE \E rs, rt \in Regs, imm \in UnsignedImm :
             \/ ANDI(rs, rt, imm) \/ ORI(rs, rt, imm)
             \/ XORI(rs, rt, imm) \/ LUI(rs, rt, imm)
  BY <1>2, LogicalImmediateSteps
<1>3. CASE \E rs, rt, rd \in Regs :
             \/ ADD(rs, rt, rd) \/ ADDU(rs, rt, rd)
             \/ SUB(rs, rt, rd) \/ SUBU(rs, rt, rd)
             \/ AND(rs, rt, rd) \/ OR(rs, rt, rd)
             \/ XOR(rs, rt, rd) \/ NOR(rs, rt, rd)
             \/ SLT(rs, rt, rd) \/ SLTU(rs, rt, rd)
             \/ MOVZ(rs, rt, rd) \/ MOVN(rs, rt, rd)
             \/ DADD(rs, rt, rd) \/ DADDU(rs, rt, rd)
             \/ DSUB(rs, rt, rd) \/ DSUBU(rs, rt, rd)
  BY <1>3, RegisterSteps
<1>4. CASE \E rs, rt, rd \in Regs :
             \/ SLLV(rs, rt, rd) \/ SRLV(rs, rt, rd) \/ SRAV(rs, rt, rd)
             \/ DSLLV(rs, rt, rd) \/ DSRLV(rs, rt, rd) \/ DSRAV(rs, rt, rd)
  BY <1>4, VariableShiftSteps
<1>5. CASE \E rt, rd \in Regs, sa \in ShiftField :
             \/ SLL(rt, rd, sa) \/ SRL(rt, rd, sa) \/ SRA(rt, rd, sa)
             \/ \E s \in {sa, sa + WordBits} :
                  DSLL(rt, rd, s) \/ DSRL(rt, rd, s) \/ DSRA(rt, rd, s)
  <2>1. \A sa \in ShiftField : sa \in Nat /\ sa + WordBits \in Nat
    BY Widths DEF ShiftField
  <2> QED
    BY <1>5, <2>1, ShiftSteps
<1>6. CASE \E r \in Regs : MFSA(r) \/ MTSA(r)
  <2>1. Result(reg_sa) /\ \A r \in Regs : Result(gpr[r])
    BY OperandTypes DEF TypeOK, Result, AllCanonical
  <2> QED
    BY <1>6, <2>1 DEF MFSA, MTSA, Step, WordStep, AmountStep
<1>7. CASE \E rs \in Regs, imm \in UnsignedImm : MTSAB(rs, imm) \/ MTSAH(rs, imm)
  BY <1>7, LaneSteps
<1>8. CASE \E r \in Regs, d \in Values : Other(r, d)
  BY <1>8, IntAluAssumption DEF Other, Step, WideStep
<1> QED
  BY <1>1, <1>2, <1>3, <1>4, <1>5, <1>6, <1>7, <1>8 DEF Next

LEMMA InitHolds == Init => TypeOK /\ CanonicalWords
<1>1. 0 \in SmallNumbers
  BY Widths, PowerNext DEF SmallNumbers
<1>2. Bits(0) \in Double /\ Canonical(Bits(0))
  BY <1>1, SmallBits
<1> QED
  BY <1>2 DEF Init, TypeOK, CanonicalWords

LEMMA NextHolds == TypeOK /\ CanonicalWords /\ [Next]_vars => (TypeOK /\ CanonicalWords)'
<1> SUFFICES ASSUME TypeOK, CanonicalWords, [Next]_vars
             PROVE  (TypeOK /\ CanonicalWords)'
  OBVIOUS
<1>1. CASE Next
  BY <1>1, NextSteps, StepKeeps
<1>2. CASE UNCHANGED vars
  BY <1>2, StepKeeps DEF Step, Nothing
<1> QED
  BY <1>1, <1>2

\* Registers keep 64 bits whatever overflows or is shifted out, in every build
\* and at every amount a shift may come to.
THEOREM TypeCorrect == Spec => []TypeOK
<1> QED
  BY InitHolds, NextHolds, PTL DEF Spec

\* A program of word instructions never meets a register that is not the sign
\* extension of its word, so that SLT, SLTU, MOVZ and the branches, which look
\* at 64 bits, compare words.
THEOREM WordsStayCanonical == Spec => []CanonicalWords
<1> QED
  BY InitHolds, NextHolds, PTL DEF Spec

\* What add_overflow computes for compilers without an intrinsic is exactly
\* whether the sum does not fit, in words of any width.
THEOREM FallbackAgrees == Spec => []FallbackAddsExactly
<1> QED
  BY TypeCorrect, FallbackFollows, PTL

-----------------------------------------------------------------------------
(* Sums and differences that are stored.                                   *)

\* The low bits of a number are its remainder.
LEMMA LowBits ==
    ASSUME NEW i \in Int
    PROVE  \A n \in 0 .. DoubleBits : Unsigned(Bits(i), n) = i % Power[n]
<1> DEFINE b == Bits(i)
           S == {n \in Nat : n <= DoubleBits => Unsigned(b, n) = i % Power[n]}
<1>1. b \in Double
  BY BitsType
<1>2. 0 \in S
  <2>1. Unsigned(b, 0) = 0 /\ Power[0] = 1
    BY <1>1, UnsignedNext, PowerNext
  <2>2. i % 1 = 0
    OBVIOUS
  <2> QED
    BY <2>1, <2>2
<1>3. ASSUME NEW n \in Nat, n \in S PROVE n + 1 \in S
  <2>1. SUFFICES ASSUME n + 1 <= DoubleBits
                 PROVE  Unsigned(b, n + 1) = i % Power[n + 1]
    OBVIOUS
  <2> DEFINE d == Power[n]
             q == i \div d
             r == i % d
             c == q % 2
             h == q \div 2
  <2>2. /\ n \in 0 .. (DoubleBits - 1) /\ n \in 0 .. (DoubleBits + 1)
        /\ Unsigned(b, n) = r
    BY <1>3, <2>1, Widths
  <2>3. d \in Nat \ {0} /\ Power[n + 1] = 2 * d /\ Pow2[n] = d
    BY <2>2, PowerNext, Pow2IsPower
  <2>4. b[n] = c
    BY <2>2, <2>3 DEF Bits
  <2>5. Unsigned(b, n + 1) = r + d * c
    BY <1>1, <2>2, <2>4, UnsignedNext
  <2> HIDE DEF d
  <2>6. q \in Int /\ r \in 0 .. (d - 1) /\ i = d * q + r
    BY <2>3
  <2> HIDE DEF q, r
  <2>7. h \in Int /\ c \in {0, 1} /\ q = 2 * h + c
    BY <2>6
  <2> HIDE DEF h, c
  <2>8. d * c \in Int /\ r + d * c \in 0 .. (2 * d - 1)
    <3>1. CASE c = 0
      BY <2>3, <2>6, <3>1
    <3>2. CASE c = 1
      BY <2>3, <2>6, <3>2
    <3> QED
      BY <2>7, <3>1, <3>2
  <2>9. i = (2 * d) * h + (r + d * c)
    <3>1. d * q = d * (2 * h) + d * c
      BY <2>3, <2>7
    <3>2. d * (2 * h) = (2 * d) * h /\ (2 * d) * h \in Int
      BY <2>3, <2>7
    <3> QED
      BY <2>6, <2>8, <3>1, <3>2
  <2>10. ((2 * d) * h + (r + d * c)) % (2 * d) = r + d * c
    <3>1. 2 * d \in Nat \ {0}
      BY <2>3
    <3> QED
      BY <2>7, <2>8, <3>1, Digits
  <2> QED
    BY <2>3, <2>5, <2>9, <2>10
<1> HIDE DEF S
<1>4. \A n \in Nat : n \in S
  BY <1>2, <1>3, SetInduction
<1>5. \A n \in 0 .. DoubleBits : n \in Nat /\ n <= DoubleBits
  BY Widths
<1> QED
  BY <1>4, <1>5 DEF S

\* A number that fits in 64 bits is what its bits say.
LEMMA BitsExact ==
    ASSUME NEW i \in Int, FitsIn(i, DoubleBits)
    PROVE  Signed(Bits(i), DoubleBits) = i
<1> DEFINE b == Bits(i)
           m == DoubleBits - 1
           d == Power[m]
<1>1. m \in Nat /\ m \in 0 .. DoubleBits /\ m \in 0 .. (DoubleBits - 1)
      /\ DoubleBits \in 1 .. DoubleBits
  BY Widths
<1>2. d \in Nat \ {0} /\ i \in -d .. (d - 1)
  BY <1>1, HalfPower DEF FitsIn
<1>3. b \in Double /\ Unsigned(b, m) = i % d
  BY <1>1, LowBits, BitsType
<1>4. i % d = IF i < 0 THEN i + d ELSE i
  <2> HIDE DEF d
  <2> QED
    BY <1>2, NearZero
<1>5. b[m] = IF i < 0 THEN 1 ELSE 0
  BY <1>1, <1>2, UpperBits
<1>6. Signed(b, DoubleBits) = Unsigned(b, m) - b[m] * d
  BY <1>1, <1>3, SignedRange
<1> HIDE DEF b, d, m
<1>7. Signed(b, DoubleBits) = i
  BY <1>2, <1>3, <1>4, <1>5, <1>6
<1> QED
  BY <1>7 DEF b

\* A number that fits in a word stays itself in an int32_t, and in 64 bits.
LEMMA WordExact ==
    ASSUME NEW i \in Int, FitsIn(i, WordBits)
    PROVE  Signed(WordResult(i), DoubleBits) = i
<1> DEFINE d == Power[WordBits - 1]
<1>1. /\ WordBits \in 1 .. DoubleBits /\ DoubleBits \in 1 .. DoubleBits
      /\ WordBits - 1 \in Nat /\ DoubleBits - 1 \in Nat
      /\ WordBits - 1 <= DoubleBits - 1
  BY Widths
<1>2. /\ d \in Nat \ {0} /\ Pow2[WordBits - 1] = d /\ Pow2[WordBits] = 2 * d
      /\ i \in -d .. (d - 1)
  BY <1>1, HalfPower DEF FitsIn
<1>3. Wrapped(i, WordBits) = i
  <2> HIDE DEF d
  <2>1. 2 * d \in Nat \ {0} /\ i \in -(2 * d) .. (2 * d - 1)
    BY <1>2
  <2>2. i % (2 * d) = IF i < 0 THEN i + 2 * d ELSE i
    BY <2>1, NearZero
  <2>3. Wrapped(i, WordBits)
          = IF i % (2 * d) < d THEN i % (2 * d) ELSE (i % (2 * d)) - 2 * d
    BY <1>2 DEF Wrapped
  <2>4. CASE i < 0
    BY <1>2, <2>2, <2>3, <2>4
  <2>5. CASE i >= 0
    BY <1>2, <2>2, <2>3, <2>5
  <2> QED
    BY <2>4, <2>5
<1>4. FitsIn(i, DoubleBits)
  <2>1. d <= Power[DoubleBits - 1]
    BY <1>1, PowerGrows
  <2>2. Pow2[DoubleBits - 1] = Power[DoubleBits - 1] /\ Power[DoubleBits - 1] \in Nat
    BY <1>1, HalfPower
  <2> HIDE DEF d
  <2> QED
    BY <1>2, <2>1, <2>2 DEF FitsIn
<1> QED
  BY <1>3, <1>4, BitsExact DEF WordResult

\* What a trapping handler does with its destination.
LEMMA WordTaken ==
    ASSUME TypeOK, NEW r \in Regs, NEW i \in Int,
           IF FitsIn(i, WordBits) THEN Set(r, WordResult(i)) ELSE Nothing
    PROVE  TakesIfFits(r, i, WordBits)
<1>1. CASE FitsIn(i, WordBits)
  <2>1. gpr'[r] = WordResult(i)
    BY <1>1 DEF Set, Put, TypeOK
  <2> QED
    BY <1>1, <2>1, WordExact DEF TakesIfFits
<1>2. CASE ~ FitsIn(i, WordBits)
  BY <1>2 DEF Nothing, vars, TakesIfFits
<1> QED
  BY <1>1, <1>2

LEMMA DoubleTaken ==
    ASSUME TypeOK, NEW r \in Regs, NEW i \in Int,
           IF FitsIn(i, DoubleBits) THEN SetWide(r, Bits(i)) ELSE Nothing
    PROVE  TakesIfFits(r, i, DoubleBits)
<1>1. CASE FitsIn(i, DoubleBits)
  <2>1. gpr'[r] = Bits(i)
    BY <1>1 DEF SetWide, Put, TypeOK
  <2> QED
    BY <1>1, <2>1, BitsExact DEF TakesIfFits
<1>2. CASE ~ FitsIn(i, DoubleBits)
  BY <1>2 DEF Nothing, vars, TakesIfFits
<1> QED
  BY <1>1, <1>2

\* In every build the overflow of a sum is noticed exactly when there is one.
LEMMA AddExact ==
    ASSUME NEW n \in {WordBits, DoubleBits},
           NEW a \in -Power[n - 1] .. (Power[n - 1] - 1),
           NEW b \in -Power[n - 1] .. (Power[n - 1] - 1)
    PROVE  AddOverflow(a, b, n) <=> ~ FitsIn(a + b, n)
<1>1. n \in 1 .. DoubleBits
  BY Widths
<1> QED
  BY <1>1, AddFallbackExact DEF AddOverflow

\* The numbers that the trapping handlers work on.
LEMMA NumbersInRange ==
    ASSUME TypeOK
    PROVE  /\ \A r \in Regs :
                /\ i32(r) \in -Power[WordBits - 1] .. (Power[WordBits - 1] - 1)
                /\ i64(r) \in -Power[DoubleBits - 1] .. (Power[DoubleBits - 1] - 1)
           /\ \A imm \in SignedImm :
                /\ imm \in -Power[WordBits - 1] .. (Power[WordBits - 1] - 1)
                /\ imm \in -Power[DoubleBits - 1] .. (Power[DoubleBits - 1] - 1)
<1>1. /\ WordBits \in 1 .. DoubleBits /\ DoubleBits \in 1 .. DoubleBits
      /\ WordBits - 1 \in Nat /\ DoubleBits - 1 \in Nat
      /\ WordBits - 1 <= DoubleBits - 1
  BY Widths
<1>2. ASSUME NEW r \in Regs
      PROVE  /\ i32(r) \in -Power[WordBits - 1] .. (Power[WordBits - 1] - 1)
             /\ i64(r) \in -Power[DoubleBits - 1] .. (Power[DoubleBits - 1] - 1)
  BY <1>1, SignedRange DEF i32, i64, TypeOK
<1>3. ASSUME NEW imm \in SignedImm
      PROVE  /\ imm \in -Power[WordBits - 1] .. (Power[WordBits - 1] - 1)
             /\ imm \in -Power[DoubleBits - 1] .. (Power[DoubleBits - 1] - 1)
  <2>1. imm \in -Power[WordBits - 1] .. (Power[WordBits - 1] - 1)
    BY ImmediatesSmall DEF SmallNumbers
  <2>2. /\ Power[WordBits - 1] <= Power[DoubleBits - 1]
        /\ Power[WordBits - 1] \in Nat /\ Power[DoubleBits - 1] \in Nat
    BY <1>1, PowerGrows, HalfPower
  <2> QED
    BY <2>1, <2>2
<1> QED
  BY <1>2, <1>3

LEMMA StepTakes ==
    ASSUME TypeOK
    PROVE  /\ \A rs, rt, rd \in Regs :
                /\ ADD(rs, rt, rd) => TakesIfFits(rd, i32(rs) + i32(rt), WordBits)
                /\ DADD(rs, rt, rd) => TakesIfFits(rd, i64(rs) + i64(rt), DoubleBits)
                /\ ~ Fallback /\ SUB(rs, rt, rd) =>
                      TakesIfFits(rd, i32(rs) - i32(rt), WordBits)
                /\ ~ Fallback /\ DSUB(rs, rt, rd) =>
                      TakesIfFits(rd, i64(rs) - i64(rt), DoubleBits)
           /\ \A rs, rt \in Regs, imm \in SignedImm :
                /\ ADDI(rs, rt, imm) => TakesIfFits(rt, i32(rs) + imm, WordBits)
                /\ DADDI(rs, rt, imm) => TakesIfFits(rs, i64(rt) + imm, DoubleBits)
<1>1. \A r \in Regs : i32(r) \in Int /\ i64(r) \in Int
  BY OperandTypes
<1>2. \A imm \in SignedImm : imm \in Int
  BY ImmediatesSmall, SmallBits
<1>3. ASSUME NEW rs \in Regs, NEW rt \in Regs, NEW rd \in Regs, ADD(rs, rt, rd)
      PROVE  TakesIfFits(rd, i32(rs) + i32(rt), WordBits)
  <2>1. AddOverflow(i32(rs), i32(rt), WordBits) <=> ~ FitsIn(i32(rs) + i32(rt), WordBits)
    BY AddExact, NumbersInRange
  <2>2. i32(rs) + i32(rt) \in Int
    BY <1>1
  <2> QED
    BY <1>3, <2>1, <2>2, WordTaken DEF ADD
<1>4. ASSUME NEW rs \in Regs, NEW rt \in Regs, NEW rd \in Regs, DADD(rs, rt, rd)
      PROVE  TakesIfFits(rd, i64(rs) + i64(rt), DoubleBits)
  <2>1. AddOverflow(i64(rs), i64(rt), DoubleBits)
          <=> ~ FitsIn(i64(rs) + i64(rt), DoubleBits)
    BY AddExact, NumbersInRange
  <2>2. i64(rs) + i64(rt) \in Int
    BY <1>1
  <2> QED
    BY <1>4, <2>1, <2>2, DoubleTaken DEF DADD
<1>5. ASSUME NEW rs \in Regs, NEW rt \in Regs, NEW rd \in Regs,
             ~ Fallback, SUB(rs, rt, rd)
      PROVE  TakesIfFits(rd, i32(rs) - i32(rt), WordBits)
  <2>1. SubOverflow(i32(rs), i32(rt), WordBits) <=> ~ FitsIn(i32(rs) - i32(rt), WordBits)
    BY <1>5 DEF SubOverflow
  <2>2. i32(rs) - i32(rt) \in Int
    BY <1>1
  <2> QED
    BY <1>5, <2>1, <2>2, WordTaken DEF SUB
<1>6. ASSUME NEW rs \in Regs, NEW rt \in Regs, NEW rd \in Regs,
             ~ Fallback, DSUB(rs, rt, rd)
      PROVE  TakesIfFits(rd, i64(rs) - i64(rt), DoubleBits)
  <2>1. SubOverflow(i64(rs), i64(rt), DoubleBits)
          <=> ~ FitsIn(i64(rs) - i64(rt), DoubleBits)
    BY <1>6 DEF SubOverflow
  <2>2. i64(rs) - i64(rt) \in Int
    BY <1>1
  <2> QED
    BY <1>6, <2>1, <2>2, DoubleTaken DEF DSUB
<1>7. ASSUME NEW rs \in Regs, NEW rt \in Regs, NEW imm \in SignedImm, ADDI(rs, rt, imm)
      PROVE  TakesIfFits(rt, i32(rs) + imm, WordBits)
  <2>1. AddOverflow(i32(rs), imm, WordBits) <=> ~ FitsIn(i32(rs) + imm, WordBits)
    BY AddExact, NumbersInRange
  <2>2. i32(rs) + imm \in Int
    BY <1>1, <1>2
  <2> QED
    BY <1>7, <2>1, <2>2, WordTaken DEF ADDI
<1>8. ASSUME NEW rs \in Regs, NEW rt \in Regs, NEW imm \in SignedImm, DADDI(rs, rt, imm)
      PROVE  TakesIfFits(rs, i64(rt) + imm, DoubleBits)
  <2>1. AddOverflow(i64(rt), imm, DoubleBits) <=> ~ FitsIn(i64(rt) + imm, DoubleBits)
    BY AddExact, NumbersInRange
  <2>2. i64(rt) + imm \in Int
    BY <1>1, <1>2
  <2> QED
    BY <1>8, <2>1, <2>2, DoubleTaken DEF DADDI
<1> QED
  BY <1>3, <1>4, <1>5, <1>6, <1>7, <1>8

\* What ADD, ADDI, DADD, DADDI, SUB and DSUB store is exact, in words of any
\* width, and an overflow changes no register: for sums in every build, for
\* differences in those that do not use the formula for other compilers.
THEOREM TrapsKeepExact == Spec => NothingWraps
<1>1. TypeOK /\ [Next]_vars =>
        [ /\ \A rs, rt, rd \in Regs :
               /\ ADD(rs, rt, rd) => TakesIfFits(rd, i32(rs) + i32(rt), WordBits)
               /\ DADD(rs, rt, rd) => TakesIfFits(rd, i64(rs) + i64(rt), DoubleBits)
               /\ ~ Fallback /\ SUB(rs, rt, rd) =>
                     TakesIfFits(rd, i32(rs) - i32(rt), WordBits)
               /\ ~ Fallback /\ DSUB(rs, rt, rd) =>
                     TakesIfFits(rd, i64(rs) - i64(rt), DoubleBits)
          /\ \A rs, rt \in Regs, imm \in SignedImm :
               /\ ADDI(rs, rt, imm) => TakesIfFits(rt, i32(rs) + imm, WordBits)
               /\ DADDI(rs, rt, imm) => TakesIfFits(rs, i64(rt) + imm, DoubleBits)
        ]_vars
  BY StepTakes
<1> QED
  BY <1>1, TypeCorrect, PTL DEF Spec, NothingWraps

=============================================================================
