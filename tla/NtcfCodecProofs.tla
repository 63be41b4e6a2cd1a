-------------------------- MODULE NtcfCodecProofs --------------------------
(***************************************************************************)
(* Proofs about the codecs: what an encoder writes for a column, the       *)
(* decoder of the same codec reads back, and of no proper prefix of it     *)
(* does it read anything.                                                  *)
(*                                                                         *)
(* First the arithmetic of digits; then bytes s that stand in a payload,   *)
(* or of which a cut payload has only the first ones, and what a read of   *)
(* one value, of many, of runs and of packed bits makes of them; then the  *)
(* codecs one by one, for bytes and words of any size, and the choice      *)
(* among them.                                                             *)
(***************************************************************************)
EXTENDS NtcfEncoding, NtcfColumnProofs

(***************************************************************************)
(* Arithmetic.                                                             *)
(***************************************************************************)

\* Quotient and remainder are what puts a number together again.
LEMMA DivMod ==
    ASSUME NEW a \in Nat, NEW d \in Nat \ {0}
    PROVE  a \div d \in Nat /\ a % d \in 0 .. (d - 1) /\ a = (d * (a \div d)) + (a % d)
  OBVIOUS

\* A quotient and a remainder are the only ones.
LEMMA DivModUnique ==
    ASSUME NEW d \in Nat \ {0}, NEW q \in Int, NEW r \in 0 .. (d - 1)
    PROVE  ((d * q) + r) \div d = q /\ ((d * q) + r) % d = r
  OBVIOUS

\* The same for a dividend of either sign.
LEMMA DivModInt ==
    ASSUME NEW a \in Int, NEW d \in Nat \ {0}
    PROVE  a \div d \in Int /\ a % d \in 0 .. (d - 1) /\ a = (d * (a \div d)) + (a % d)
  OBVIOUS

\* Products of naturals are natural, and not zero by chance.
LEMMA TimesNat ==
    ASSUME NEW a \in Nat, NEW b \in Nat
    PROVE  a * b \in Nat /\ (a # 0 /\ b # 0 => a * b # 0)
  OBVIOUS

\* A number with less in front is less, whatever is behind.
LEMMA DigitsLess ==
    ASSUME NEW a \in Nat, NEW b \in Nat, NEW c \in Nat, NEW r \in Nat, a < b, r < c
    PROVE  (c * a) + r < c * b
<1>1. c * (a + 1) <= c * b
  OBVIOUS
<1> QED  BY <1>1

\* Products in the shapes the proofs below need.
LEMMA ThreeFactors ==
    ASSUME NEW a \in Int, NEW b \in Int, NEW c \in Int
    PROVE  a * (b * c) = (a * b) * c /\ a * b = b * a /\ a * (b + c) = (a * b) + (a * c)
  OBVIOUS

\* Dividing by a product is dividing twice.
LEMMA DivTwice ==
    ASSUME NEW a \in Nat, NEW b \in Nat \ {0}, NEW c \in Nat \ {0}
    PROVE  /\ (a \div b) \div c = a \div (b * c)
           /\ a % (b * c) = (b * ((a \div b) % c)) + (a % b)
           /\ (a % (b * c)) % b = a % b
           /\ (a % (b * c)) \div b = (a \div b) % c
<1> DEFINE d == b * c
<1> DEFINE q == a \div b
           r == a % b
           p == q \div c
           s == q % c
           e == (b * s) + r
<1>1. q \in Nat /\ r \in 0 .. (b - 1) /\ a = (b * q) + r
  BY DivMod
<1>2. p \in Nat /\ s \in 0 .. (c - 1) /\ q = (c * p) + s
  BY <1>1, DivMod
<1>3. d \in Nat \ {0}
  BY TimesNat
<1> HIDE DEF q, r, p, s
<1>4. a = (d * p) + e
  <2>1. b * q = (b * (c * p)) + (b * s)
    BY <1>1, <1>2, ThreeFactors
  <2>2. b * (c * p) = (b * c) * p
    BY <1>2, ThreeFactors
  <2>3. b * s \in Nat /\ (b * c) * p \in Nat
    BY <1>2, <1>3, TimesNat
  <2> QED  BY <1>1, <2>1, <2>2, <2>3
<1>5. e \in 0 .. (d - 1)
  <2>1. b * s \in Nat
    BY <1>2, TimesNat
  <2>2. (b * s) + r < b * c
    BY <1>1, <1>2, DigitsLess
  <2> QED  BY <1>1, <1>3, <2>1, <2>2
<1>6. e % b = r /\ e \div b = s
  <2>1. r \in 0 .. (b - 1) /\ s \in Int
    BY <1>1, <1>2
  <2> QED  BY <2>1, DivModUnique
<1> HIDE DEF e, d
<1>7. a \div d = p /\ a % d = e
  <2>1. p \in Int
    BY <1>2
  <2> QED  BY <1>3, <1>4, <1>5, <2>1, DivModUnique
<1>8. /\ (a \div b) \div c = a \div d
      /\ a % d = (b * ((a \div b) % c)) + (a % b)
      /\ (a % d) % b = a % b
      /\ (a % d) \div b = (a \div b) % c
  BY <1>6, <1>7 DEF q, r, p, s, e
<1> QED  BY <1>8 DEF d

(***************************************************************************)
(* Induction along 0 .. n, and functions defined by their next value.      *)
(***************************************************************************)

\* A set that has 0 and, with each number below n, the next one.
LEMMA Reaches ==
    ASSUME NEW n \in Nat, NEW S, 0 \in S, \A k \in 0 .. n - 1 : k \in S => k + 1 \in S
    PROVE  \A k \in 0 .. n : k \in S
<1> SUFFICES ASSUME NEW w \in 0 .. n, w \notin S PROVE FALSE
  OBVIOUS
<1> DEFINE Bad == {k \in 0 .. n : k \notin S}
<1>1. Bad \in SUBSET Nat /\ w \in Bad
  OBVIOUS
<1>2. Min(Bad) \in Bad /\ \A y \in Bad : Min(Bad) <= y
  <2> HIDE DEF Bad
  <2> QED  BY <1>1, MinOfNats
<1> DEFINE m == Min(Bad)
<1>3. m \in 0 .. n /\ m \notin S /\ m # 0
  BY <1>2
<1>4. m - 1 \in 0 .. n - 1 /\ m - 1 \in 0 .. n
  BY <1>3
<1>5. m - 1 \in S
  <2> SUFFICES ASSUME m - 1 \notin S PROVE FALSE
    OBVIOUS
  <2>1. m <= m - 1
    BY <1>2, <1>4
  <2> HIDE DEF m
  <2> QED  BY <1>3, <2>1
<1>6. (m - 1) + 1 \in S
  BY <1>4, <1>5
<1> HIDE DEF m
<1> QED  BY <1>3, <1>6

\* f goes from base to f[n] by steps of g.
IsIteration(f, n, base, g) ==
    f[0] = base /\ \A k \in 1 .. n : f[k] = g[<<k, f[k - 1]>>]

\* A function is determined by its first value and by how each follows from
\* the one before.
LEMMA Iterates ==
    ASSUME NEW n \in Nat, NEW X, NEW base \in X, NEW g,
           \A k \in 1 .. n, x \in X : g[<<k, x>>] \in X
    PROVE  \E f \in [0 .. n -> X] : IsIteration(f, n, base, g)
<1> DEFINE S == {m \in 0 .. n : \E f \in [0 .. m -> X] : IsIteration(f, m, base, g)}
<1>1. 0 \in S
  <2> DEFINE f == [k \in 0 .. 0 |-> base]
  <2>1. f \in [0 .. 0 -> X] /\ f[0] = base
    OBVIOUS
  <2> HIDE DEF f
  <2>2. IsIteration(f, 0, base, g)
    BY <2>1 DEF IsIteration
  <2> QED  BY <2>1, <2>2
<1>2. ASSUME NEW m \in 0 .. n - 1, m \in S PROVE m + 1 \in S
  <2>1. PICK f \in [0 .. m -> X] : IsIteration(f, m, base, g)
    BY <1>2
  <2> DEFINE h == [k \in 0 .. m + 1 |-> IF k <= m THEN f[k] ELSE g[<<m + 1, f[m]>>]]
  <2>2. m \in Nat /\ m + 1 \in 1 .. n /\ m \in 0 .. m
    OBVIOUS
  <2>3. f[m] \in X
    BY <2>1, <2>2
  <2>4. g[<<m + 1, f[m]>>] \in X
    BY <2>2, <2>3
  <2>5. h \in [0 .. m + 1 -> X]
    BY <2>1, <2>4
  <2>6. h[m + 1] = g[<<m + 1, f[m]>>] /\ \A k \in 0 .. m : h[k] = f[k]
    BY <2>2
  <2> HIDE DEF h
  <2>7. IsIteration(h, m + 1, base, g)
    <3>1. h[0] = base
      BY <2>1, <2>2, <2>6 DEF IsIteration
    <3>2. ASSUME NEW k \in 1 .. m + 1 PROVE h[k] = g[<<k, h[k - 1]>>]
      <4>1. CASE k = m + 1
        BY <2>2, <2>6, <4>1
      <4>2. CASE k \in 1 .. m
        <5>1. k \in 0 .. m /\ k - 1 \in 0 .. m
          BY <4>2
        <5>2. f[k] = g[<<k, f[k - 1]>>]
          BY <2>1, <4>2 DEF IsIteration
        <5> QED  BY <2>6, <5>1, <5>2
      <4> QED  BY <2>2, <4>1, <4>2
    <3> QED  BY <3>1, <3>2 DEF IsIteration
  <2>8. m + 1 \in 0 .. n
    OBVIOUS
  <2> QED  BY <2>5, <2>7, <2>8
<1> HIDE DEF S
<1>3. \A k \in 0 .. n : k \in S
  BY <1>1, <1>2, Reaches
<1> QED  BY <1>3 DEF S

(***************************************************************************)
(* Powers of two.                                                          *)
(***************************************************************************)

\* The equation that defines Pow2 has a solution.
LEMMA Pow2Def == Pow2 = [n \in Nat |-> IF n = 0 THEN 1 ELSE 2 * Pow2[n - 1]]
<1> DEFINE Eq(h) == [n \in Nat |-> IF n = 0 THEN 1 ELSE 2 * h[n - 1]]
           g == [p \in Nat \X Nat |-> 2 * p[2]]
           F(n) == CHOOSE f \in [0 .. n -> Nat] : IsIteration(f, n, 1, g)
           h == [n \in Nat |-> F(n)[n]]
<1>1. \A k \in Nat, x \in Nat : g[<<k, x>>] = 2 * x
  OBVIOUS
<1>2. \A n \in Nat : F(n) \in [0 .. n -> Nat] /\ IsIteration(F(n), n, 1, g)
  <2> SUFFICES ASSUME NEW n \in Nat
               PROVE  \E f \in [0 .. n -> Nat] : IsIteration(f, n, 1, g)
    OBVIOUS
  <2>1. 1 \in Nat /\ \A k \in 1 .. n, x \in Nat : g[<<k, x>>] \in Nat
    BY <1>1
  <2> HIDE DEF g
  <2> QED  BY <2>1, Iterates
<1> HIDE DEF F, g
<1>3. ASSUME NEW n \in Nat PROVE F(n + 1)[n] = F(n)[n]
  <2> DEFINE S == {k \in 0 .. n : F(n + 1)[k] = F(n)[k]}
  <2>1. 0 \in S
    <3>1. n + 1 \in Nat /\ 0 \in 0 .. n
      OBVIOUS
    <3> QED  BY <1>2, <3>1 DEF IsIteration
  <2>2. ASSUME NEW k \in 0 .. n - 1, k \in S PROVE k + 1 \in S
    <3>1. k + 1 \in 1 .. n /\ k + 1 \in 1 .. (n + 1) /\ (k + 1) - 1 = k /\ k + 1 \in 0 .. n
      OBVIOUS
    <3>2. F(n)[k + 1] = g[<<k + 1, F(n)[k]>>]
      BY <1>2, <3>1 DEF IsIteration
    <3>3. F(n + 1)[k + 1] = g[<<k + 1, F(n + 1)[k]>>]
      <4>1. n + 1 \in Nat
        OBVIOUS
      <4> QED  BY <1>2, <3>1, <4>1 DEF IsIteration
    <3> QED  BY <2>2, <3>1, <3>2, <3>3
  <2>3. \A k \in 0 .. n : k \in S
    <3> HIDE DEF S
    <3> QED  BY <2>1, <2>2, Reaches
  <2>4. n \in 0 .. n
    OBVIOUS
  <2> QED  BY <2>3, <2>4
<1>4. h = Eq(h)
  <2> SUFFICES ASSUME NEW n \in Nat PROVE h[n] = IF n = 0 THEN 1 ELSE 2 * h[n - 1]
    BY Zenon
  <2>1. CASE n = 0
    BY <1>2, <2>1 DEF IsIteration
  <2>2. CASE n # 0
    <3>1. n - 1 \in Nat /\ (n - 1) + 1 = n /\ n \in 1 .. n
      BY <2>2
    <3>2. F(n)[n] = g[<<n, F(n)[n - 1]>>]
      BY <1>2, <3>1 DEF IsIteration
    <3>3. F(n)[n - 1] = h[n - 1] /\ F(n - 1)[n - 1] \in Nat
      <4>1. F(n)[n - 1] = F(n - 1)[n - 1]
        BY <1>3, <3>1
      <4>2. n - 1 \in 0 .. (n - 1)
        BY <3>1
      <4> QED  BY <1>2, <3>1, <4>1, <4>2
    <3>4. g[<<n, F(n)[n - 1]>>] = 2 * h[n - 1]
      <4>1. h[n - 1] = F(n - 1)[n - 1]
        BY <3>1
      <4> HIDE DEF h
      <4> QED  BY <1>1, <3>3, <4>1
    <3> QED  BY <2>2, <3>2, <3>4
  <2> QED  BY <2>1, <2>2
<1>5. Pow2 = CHOOSE f : f = Eq(f)
  BY DEF Pow2
<1> HIDE DEF Eq, h
<1>6. Pow2 = Eq(Pow2)
  BY <1>4, <1>5
<1> QED  BY <1>6 DEF Eq

\* Each power is twice the one before.
LEMMA Pow2Next ==
    /\ Pow2[0] = 1
    /\ \A n \in Nat : Pow2[n + 1] = 2 * Pow2[n]
<1>1. \A n \in Nat : Pow2[n] = IF n = 0 THEN 1 ELSE 2 * Pow2[n - 1]
  BY Pow2Def, Zenon
<1>2. ASSUME NEW n \in Nat PROVE Pow2[n + 1] = 2 * Pow2[n]
  <2>1. n + 1 \in Nat /\ n + 1 # 0 /\ (n + 1) - 1 = n
    OBVIOUS
  <2> QED  BY <1>1, <2>1
<1> QED  BY <1>1, <1>2

\* Powers are positive, and 2^(m + n) = 2^m * 2^n.
LEMMA Pow2Pos == \A n \in Nat : Pow2[n] \in Nat \ {0}
<1> SUFFICES ASSUME NEW n \in Nat PROVE Pow2[n] \in Nat \ {0}
  OBVIOUS
<1> DEFINE S == {k \in 0 .. n : Pow2[k] \in Nat \ {0}}
<1>1. 0 \in S
  BY Pow2Next
<1>2. ASSUME NEW k \in 0 .. n - 1, k \in S PROVE k + 1 \in S
  <2>1. Pow2[k + 1] = 2 * Pow2[k] /\ Pow2[k] \in Nat \ {0}
    BY <1>2, Pow2Next
  <2> QED  BY <2>1
<1>3. \A k \in 0 .. n : k \in S
  <2> HIDE DEF S
  <2> QED  BY <1>1, <1>2, Reaches
<1> QED  BY <1>3

\* Exponents add.
LEMMA Pow2Sum == \A m, n \in Nat : Pow2[m + n] = Pow2[m] * Pow2[n]
<1> SUFFICES ASSUME NEW m \in Nat, NEW n \in Nat PROVE Pow2[m + n] = Pow2[m] * Pow2[n]
  OBVIOUS
<1> DEFINE S == {k \in 0 .. n : Pow2[m + k] = Pow2[m] * Pow2[k]}
<1>1. 0 \in S
  <2>1. Pow2[m] \in Nat
    BY Pow2Pos
  <2> QED  BY <2>1, Pow2Next
<1>2. ASSUME NEW k \in 0 .. n - 1, k \in S PROVE k + 1 \in S
  <2>1. Pow2[m + k] = Pow2[m] * Pow2[k] /\ Pow2[k] \in Nat /\ Pow2[m] \in Nat
    BY <1>2, Pow2Pos
  <2>2. Pow2[k + 1] = 2 * Pow2[k] /\ Pow2[(m + k) + 1] = 2 * Pow2[m + k]
    BY Pow2Next
  <2>3. m + (k + 1) = (m + k) + 1 /\ k + 1 \in 0 .. n
    OBVIOUS
  <2>4. Pow2[m] * (2 * Pow2[k]) = 2 * (Pow2[m] * Pow2[k])
    BY <2>1
  <2> QED  BY <2>1, <2>2, <2>3, <2>4
<1>3. \A k \in 0 .. n : k \in S
  <2> HIDE DEF S
  <2> QED  BY <1>1, <1>2, Reaches
<1> QED  BY <1>3

\* They grow with the exponent.
LEMMA Pow2Grows ==
    /\ \A m, n \in Nat : m <= n => Pow2[m] <= Pow2[n]
    /\ \A m, n \in Nat : m < n => Pow2[m] < Pow2[n]
<1> SUFFICES ASSUME NEW m \in Nat, NEW n \in Nat, m < n PROVE Pow2[m] < Pow2[n]
  <2>1. \A n \in Nat : Pow2[n] \in Nat
    BY Pow2Pos
  <2> QED  BY <2>1
<1> DEFINE d == n - m - 1
<1>1. d \in Nat /\ n = m + (d + 1)
  OBVIOUS
<1> HIDE DEF d
<1>2. Pow2[n] = Pow2[m] * Pow2[d + 1] /\ Pow2[d + 1] = 2 * Pow2[d]
  <2>1. d + 1 \in Nat
    BY <1>1
  <2>2. Pow2[m + (d + 1)] = Pow2[m] * Pow2[d + 1]
    BY <2>1, Pow2Sum
  <2> QED  BY <1>1, <2>2, Pow2Next
<1>3. Pow2[m] \in Nat \ {0} /\ Pow2[d] \in Nat \ {0}
  BY <1>1, Pow2Pos
<1>4. Pow2[m] * (2 * Pow2[d]) = (Pow2[m] * Pow2[d]) + (Pow2[m] * Pow2[d])
  BY <1>3
<1>5. Pow2[m] * Pow2[d] >= Pow2[m]
  BY <1>3
<1> QED  BY <1>2, <1>3, <1>4, <1>5

(***************************************************************************)
(* Sums.                                                                   *)
(***************************************************************************)

\* The summands, and the partial sums of them.
NatsTo(f, n) == \A k \in 1 .. n : f[k] \in Nat

IsSum(f, n, s) == s[0] = 0 /\ \A k \in 1 .. n : s[k] = s[k - 1] + f[k]

\* Total is the last of the partial sums.
LEMMA TotalDef ==
    ASSUME NEW f, NEW n \in Nat, NatsTo(f, n)
    PROVE  \E s \in [0 .. n -> Nat] : IsSum(f, n, s) /\ Total(f, n) = s[n]
<1> DEFINE Eq(h) == [k \in 0 .. n |-> IF k = 0 THEN 0 ELSE h[k - 1] + f[k]]
           g == [p \in (1 .. n) \X Nat |-> p[2] + f[p[1]]]
<1>1. \A k \in 1 .. n, x \in Nat : g[<<k, x>>] = x + f[k] /\ x + f[k] \in Nat
  BY DEF NatsTo
<1>2. PICK s \in [0 .. n -> Nat] : IsIteration(s, n, 0, g)
  <2> HIDE DEF g
  <2>1. 0 \in Nat /\ \A k \in 1 .. n, x \in Nat : g[<<k, x>>] \in Nat
    BY <1>1
  <2> QED  BY <2>1, Iterates
<1>3. IsSum(f, n, s)
  <2> HIDE DEF g
  <2>1. ASSUME NEW k \in 1 .. n PROVE s[k] = s[k - 1] + f[k]
    <3>1. k - 1 \in 0 .. n
      OBVIOUS
    <3>2. s[k - 1] \in Nat
      BY <1>2, <3>1
    <3> QED  BY <1>1, <1>2, <3>2 DEF IsIteration
  <2> QED  BY <1>2, <2>1 DEF IsSum, IsIteration
<1>4. s = Eq(s)
  <2>1. \A k \in 0 .. n : s[k] = IF k = 0 THEN 0 ELSE s[k - 1] + f[k]
    BY <1>3 DEF IsSum
  <2>2. s = [k \in 0 .. n |-> s[k]]
    BY <1>2
  <2> QED  BY <2>1, <2>2
<1> DEFINE t == CHOOSE h : h = Eq(h)
<1>5. t = Eq(t)
  <2> HIDE DEF Eq
  <2> QED  BY <1>4
<1>6. Total(f, n) = t[n]
  BY DEF Total
<1> HIDE DEF t
<1>7. IsSum(f, n, t)
  <2>1. \A k \in 0 .. n : t[k] = Eq(t)[k]
    BY <1>5
  <2>2. \A k \in 0 .. n : t[k] = IF k = 0 THEN 0 ELSE t[k - 1] + f[k]
    BY <2>1
  <2> QED  BY <2>2 DEF IsSum
<1>8. \A k \in 0 .. n : t[k] = s[k]
  <2> DEFINE S == {k \in 0 .. n : t[k] = s[k]}
  <2>1. 0 \in S
    BY <1>3, <1>7 DEF IsSum
  <2>2. ASSUME NEW k \in 0 .. n - 1, k \in S PROVE k + 1 \in S
    <3>1. k + 1 \in 1 .. n /\ (k + 1) - 1 = k /\ k + 1 \in 0 .. n
      OBVIOUS
    <3> QED  BY <1>3, <1>7, <2>2, <3>1 DEF IsSum
  <2> HIDE DEF S
  <2>3. \A k \in 0 .. n : k \in S
    BY <2>1, <2>2, Reaches
  <2> QED  BY <2>3 DEF S
<1>9. n \in 0 .. n
  OBVIOUS
<1> QED  BY <1>2, <1>3, <1>6, <1>8, <1>9

\* Partial sums of the same summands are the same.
LEMMA SumsAgree ==
    ASSUME NEW m \in Nat, NEW n \in Nat, m <= n, NEW f, NEW g,
           \A k \in 1 .. m : f[k] = g[k],
           NEW s, NEW t, IsSum(f, m, s), IsSum(g, n, t)
    PROVE  s[m] = t[m]
<1> DEFINE S == {k \in 0 .. m : s[k] = t[k]}
<1>1. 0 \in S
  BY DEF IsSum
<1>2. ASSUME NEW k \in 0 .. m - 1, k \in S PROVE k + 1 \in S
  <2>1. k + 1 \in 1 .. m /\ k + 1 \in 1 .. n /\ (k + 1) - 1 = k /\ k + 1 \in 0 .. m
    OBVIOUS
  <2> QED  BY <1>2, <2>1 DEF IsSum
<1> HIDE DEF S
<1>3. \A k \in 0 .. m : k \in S
  BY <1>1, <1>2, Reaches
<1> QED  BY <1>3 DEF S

\* The total of nothing.
LEMMA TotalZero == \A f : Total(f, 0) = 0
<1> SUFFICES ASSUME NEW f PROVE Total(f, 0) = 0
  OBVIOUS
<1>1. NatsTo(f, 0)
  BY DEF NatsTo
<1> QED  BY <1>1, TotalDef DEF IsSum

\* A total of naturals is natural.
LEMMA TotalType ==
    ASSUME NEW f, NEW n \in Nat, NatsTo(f, n)
    PROVE  Total(f, n) \in Nat
<1>1. PICK s \in [0 .. n -> Nat] : IsSum(f, n, s) /\ Total(f, n) = s[n]
  BY TotalDef
<1> QED  BY <1>1

\* A total depends on what is added and on nothing else.
LEMMA TotalSame ==
    ASSUME NEW f, NEW g, NEW n \in Nat, NatsTo(f, n), \A k \in 1 .. n : f[k] = g[k]
    PROVE  Total(f, n) = Total(g, n)
<1>1. NatsTo(g, n)
  BY DEF NatsTo
<1>2. PICK s : IsSum(f, n, s) /\ Total(f, n) = s[n]
  BY TotalDef
<1>3. PICK t : IsSum(g, n, t) /\ Total(g, n) = t[n]
  BY <1>1, TotalDef
<1> QED  BY <1>2, <1>3, SumsAgree

\* A total with one summand more.
LEMMA TotalNext ==
    ASSUME NEW f, NEW n \in Nat, NatsTo(f, n + 1)
    PROVE  Total(f, n + 1) = Total(f, n) + f[n + 1]
<1>1. NatsTo(f, n) /\ n + 1 \in Nat /\ n + 1 \in 1 .. (n + 1)
  BY DEF NatsTo
<1>2. PICK s : IsSum(f, n, s) /\ Total(f, n) = s[n]
  BY <1>1, TotalDef
<1>3. PICK t : IsSum(f, n + 1, t) /\ Total(f, n + 1) = t[n + 1]
  BY <1>1, TotalDef
<1>4. s[n] = t[n]
  <2>1. n <= n + 1 /\ n + 1 \in Nat /\ IsSum(f, n, s) /\ IsSum(f, n + 1, t)
    BY <1>2, <1>3
  <2>2. \A k \in 1 .. n : f[k] = f[k]
    OBVIOUS
  <2> QED  BY <2>1, <2>2, SumsAgree
<1>5. t[n + 1] = t[n] + f[n + 1]
  <2>1. (n + 1) - 1 = n
    OBVIOUS
  <2> QED  BY <1>1, <1>3, <2>1 DEF IsSum
<1> QED  BY <1>2, <1>3, <1>4, <1>5

(***************************************************************************)
(* Digits.                                                                 *)
(***************************************************************************)

\* The j-th digit of w bits of a number, and what the digits add up to.
Digit(v, w, j) == (v \div Pow2[w * (j - 1)]) % Pow2[w]

Digits(v, w, k) == [j \in 1 .. k |-> Digit(v, w, j) * Pow2[w * (j - 1)]]

\* A digit is one.
LEMMA DigitType ==
    ASSUME NEW v \in Nat, NEW w \in Nat, NEW j \in Nat \ {0}
    PROVE  /\ Digit(v, w, j) \in 0 .. (Pow2[w] - 1)
           /\ w * (j - 1) \in Nat
           /\ Digit(v, w, j) * Pow2[w * (j - 1)] \in Nat
<1>1. w * (j - 1) \in Nat
  <2>1. j - 1 \in Nat
    OBVIOUS
  <2> QED  BY <2>1, TimesNat
<1>2. Pow2[w * (j - 1)] \in Nat \ {0} /\ Pow2[w] \in Nat \ {0}
  BY <1>1, Pow2Pos
<1>3. v \div Pow2[w * (j - 1)] \in Nat
  BY <1>2, DivMod
<1>4. Digit(v, w, j) \in 0 .. (Pow2[w] - 1)
  BY <1>2, <1>3, DivMod DEF Digit
<1>5. Digit(v, w, j) \in Nat
  <2> HIDE DEF Digit
  <2> QED  BY <1>2, <1>4
<1> QED  BY <1>1, <1>2, <1>4, <1>5, TimesNat

\* Weighted digits are natural.
LEMMA DigitsNat ==
    ASSUME NEW v \in Nat, NEW w \in Nat, NEW k \in Nat
    PROVE  NatsTo(Digits(v, w, k), k)
<1>1. ASSUME NEW j \in 1 .. k PROVE Digits(v, w, k)[j] \in Nat
  <2>1. j \in Nat \ {0}
    OBVIOUS
  <2> QED  BY <2>1, DigitType DEF Digits
<1> QED  BY <1>1 DEF NatsTo

\* The first k digits of w bits are the number, as far as they reach.
LEMMA DigitsAre ==
    ASSUME NEW v \in Nat, NEW w \in Nat, NEW n \in Nat
    PROVE  Total(Digits(v, w, n), n) = v % Pow2[w * n]
<1> DEFINE S == {k \in 0 .. n : Total(Digits(v, w, k), k) = v % Pow2[w * k]}
<1>1. 0 \in S
  <2>1. w * 0 = 0 /\ v % 1 = 0
    OBVIOUS
  <2>2. Total(Digits(v, w, 0), 0) = 0
    BY TotalZero
  <2> QED  BY <2>1, <2>2, Pow2Next
<1>2. ASSUME NEW k \in 0 .. n - 1, k \in S PROVE k + 1 \in S
  <2> DEFINE p == Pow2[w * k]
             q == Pow2[w]
  <2>1. k \in Nat /\ k + 1 \in Nat /\ k + 1 \in 0 .. n /\ k + 1 \in Nat \ {0} /\ (k + 1) - 1 = k
    OBVIOUS
  <2>2. w * k \in Nat /\ w * (k + 1) = (w * k) + w
    BY <2>1, TimesNat
  <2>3. p \in Nat \ {0} /\ q \in Nat \ {0} /\ Pow2[w * (k + 1)] = p * q
    BY <2>2, Pow2Pos, Pow2Sum
  <2>4. Total(Digits(v, w, k + 1), k + 1) =
            Total(Digits(v, w, k + 1), k) + Digits(v, w, k + 1)[k + 1]
    BY <2>1, DigitsNat, TotalNext
  <2>5. Total(Digits(v, w, k + 1), k) = Total(Digits(v, w, k), k)
    <3>1. \A j \in 1 .. k : Digits(v, w, k)[j] = Digits(v, w, k + 1)[j]
      BY <2>1 DEF Digits
    <3> QED  BY <2>1, <3>1, DigitsNat, TotalSame
  <2>6. Digits(v, w, k + 1)[k + 1] = ((v \div p) % q) * p
    <3>1. k + 1 \in 1 .. (k + 1)
      BY <2>1
    <3> QED  BY <2>1, <3>1 DEF Digits, Digit
  <2>7. v % Pow2[w * (k + 1)] = (p * ((v \div p) % q)) + (v % p)
    <3> DEFINE d == Pow2[w * (k + 1)]
    <3>1. p \in Nat \ {0} /\ q \in Nat \ {0} /\ d = p * q
      BY <2>3
    <3> HIDE DEF p, q, d
    <3>2. v % (p * q) = (p * ((v \div p) % q)) + (v % p)
      BY <3>1, DivTwice
    <3> QED  BY <3>1, <3>2 DEF d
  <2>8. p * ((v \div p) % q) = ((v \div p) % q) * p /\ p * ((v \div p) % q) \in Nat
        /\ v % p \in Nat
    <3>3. p \in Nat \ {0} /\ q \in Nat \ {0}
      BY <2>3
    <3> HIDE DEF p, q
    <3>1. v \div p \in Nat /\ v % p \in Nat
      BY <3>3, DivMod
    <3>2. (v \div p) % q \in Nat
      BY <3>1, <3>3, DivMod
    <3> QED  BY <3>1, <3>2, <3>3, TimesNat
  <2>9. Total(Digits(v, w, k), k) = v % p
    BY <1>2
  <2> HIDE DEF p, q
  <2>10. Total(Digits(v, w, k + 1), k + 1) = v % Pow2[w * (k + 1)]
    BY <2>4, <2>5, <2>6, <2>7, <2>8, <2>9
  <2> QED  BY <2>1, <2>10
<1> HIDE DEF S
<1>3. \A k \in 0 .. n : k \in S
  BY <1>1, <1>2, Reaches
<1> QED  BY <1>3 DEF S

\* A remainder leaves what is smaller alone.
LEMMA ModOfSmaller ==
    ASSUME NEW v \in Nat, NEW d \in Nat, v < d
    PROVE  v % d = v /\ v \div d = 0
<1>1. d \in Nat \ {0} /\ v \in 0 .. (d - 1) /\ v = (d * 0) + v
  OBVIOUS
<1> QED  BY <1>1, DivModUnique

(***************************************************************************)
(* Bytes in a payload.                                                     *)
(***************************************************************************)

\* The bytes s stand in d right behind the first pos.
Stands(s, d, pos) == pos + Len(s) <= Len(d) /\ \A j \in 1 .. Len(s) : d[pos + j] = s[j]

\* Of these bytes d has the first ones and ends before the last.
StandsCut(s, d, pos) == Len(d) < pos + Len(s) /\ \A j \in 1 .. Len(s) :
                            pos + j <= Len(d) => d[pos + j] = s[j]

\* A byte and its parts, the bit that says more follows and the rest.
LEMMA ByteFacts ==
    /\ ByteBits \in Nat /\ Septet \in Nat \ {0} /\ ByteBits = Septet + 1
    /\ ByteSize \in Nat \ {0} /\ More \in Nat \ {0} /\ ByteSize = More + More
    /\ Byte \subseteq Nat /\ 0 \in Byte
    /\ WordBits \in Nat \ {0} /\ WordBytes \in Nat \ {0}
    /\ WordBits = WordBytes * ByteBits
    /\ Word = 0 .. (Pow2[WordBits] - 1)
<1>1. ByteBits \in Nat /\ Septet \in Nat \ {0} /\ ByteBits = Septet + 1
  BY EncodingAssumption DEF Septet
<1>2. ByteSize = 2 * More
  BY <1>1, Pow2Next DEF ByteSize, More
<1>3. More \in Nat \ {0}
  BY <1>1, Pow2Pos DEF More
<1>4. WordBits \in Nat \ {0} /\ WordBytes \in Nat \ {0}
  BY <1>1, EncodingAssumption, TimesNat DEF WordBits
<1>5. Word = 0 .. (Pow2[WordBits] - 1)
  BY EncodingAssumption DEF Word
<1> QED  BY <1>1, <1>2, <1>3, <1>4, <1>5 DEF Byte, WordBits

\* The longest varint is long enough for every word.
LEMMA VarintLenFacts ==
    /\ MaxVarintLen \in Nat \ {0}
    /\ \A v \in Word : v < Pow2[Septet * MaxVarintLen]
<1> DEFINE a == WordBits + Septet - 1
           m == MaxVarintLen
<1>1. a \in Nat /\ Septet \in Nat \ {0} /\ WordBits \in Nat \ {0} /\ a >= Septet
  BY ByteFacts
<1>2. m = a \div Septet
  BY <1>1 DEF MaxVarintLen
<1>3. m \in Nat /\ a % Septet \in 0 .. (Septet - 1) /\ a = (Septet * m) + (a % Septet)
  <2> HIDE DEF a, m
  <2> QED  BY <1>1, <1>2, DivMod
<1>4. Septet * m \in Nat /\ Septet * m >= WordBits
  <2>1. Septet * m \in Nat
    BY <1>1, <1>3, TimesNat
  <2> QED  BY <1>1, <1>3, <2>1
<1>5. m # 0
  <2> SUFFICES ASSUME m = 0 PROVE FALSE
    OBVIOUS
  <2>1. Septet * m = 0
    BY <1>1
  <2> QED  BY <1>1, <1>4, <2>1
<1>6. Pow2[WordBits] <= Pow2[Septet * m]
  <2> HIDE DEF m
  <2> QED  BY <1>1, <1>4, Pow2Grows
<1>7. Pow2[WordBits] \in Nat /\ Pow2[Septet * m] \in Nat
  <2> HIDE DEF m
  <2> QED  BY <1>1, <1>4, Pow2Pos
<1> QED  BY <1>3, <1>5, <1>6, <1>7, ByteFacts

(***************************************************************************)
(* Varints.                                                                *)
(***************************************************************************)

\* How many bytes the varint of v takes.
VarLen(v) == Min({k \in 1 .. MaxVarintLen : v < Pow2[Septet * k]})

\* Every word has a varint of no more than the longest.
LEMMA VarLenFacts ==
    ASSUME NEW v \in Word
    PROVE  VarLen(v) \in 1 .. MaxVarintLen /\ v < Pow2[Septet * VarLen(v)]
<1> DEFINE S == {k \in 1 .. MaxVarintLen : v < Pow2[Septet * k]}
<1>1. MaxVarintLen \in S /\ S \in SUBSET Nat
  BY VarintLenFacts
<1>2. Min(S) \in S
  <2> HIDE DEF S
  <2> QED  BY <1>1, MinOfNats
<1> QED  BY <1>2 DEF VarLen

\* Every byte of a varint but the last has the top bit, and the other bits of
\* the bytes are the digits of the value.
LEMMA AppendUvarintIs ==
    ASSUME NEW v \in Word
    PROVE  /\ AppendUvarint(v) \in Seq(Byte)
           /\ Len(AppendUvarint(v)) = VarLen(v)
           /\ VarLen(v) \in Nat \ {0}
           /\ \A k \in 1 .. VarLen(v) :
                 /\ AppendUvarint(v)[k] \in Byte
                 /\ AppendUvarint(v)[k] % More = Digit(v, Septet, k)
                 /\ k = VarLen(v) => AppendUvarint(v)[k] < More
                 /\ k # VarLen(v) => AppendUvarint(v)[k] >= More
<1> DEFINE n == VarLen(v)
           a == AppendUvarint(v)
<1>1. n \in 1 .. MaxVarintLen /\ n \in Nat \ {0}
  <2>1. n \in 1 .. MaxVarintLen /\ MaxVarintLen \in Nat
    BY VarLenFacts, VarintLenFacts
  <2> HIDE DEF n
  <2> QED  BY <2>1
<1>2. a = [k \in 1 .. n |-> Digit(v, Septet, k) + (IF k < n THEN More ELSE 0)]
  BY DEF AppendUvarint, VarLen, Digit, More
<1> HIDE DEF n, a
<1>3. ASSUME NEW k \in 1 .. n
      PROVE  /\ a[k] \in Byte
             /\ a[k] % More = Digit(v, Septet, k)
             /\ k = n => a[k] < More
             /\ k # n => a[k] >= More
  <2> DEFINE d == Digit(v, Septet, k)
  <2>1. d \in 0 .. (More - 1) /\ More \in Nat \ {0} /\ ByteSize = More + More
    <3>1. k \in Nat \ {0} /\ v \in Nat /\ Septet \in Nat
      BY <1>1, ByteFacts, WordFacts
    <3> QED  BY <3>1, DigitType, ByteFacts DEF More
  <2>2. a[k] = IF k < n THEN d + More ELSE d
    BY <1>2, <2>1
  <2> HIDE DEF d
  <2>3. a[k] \in Byte
    BY <2>1, <2>2 DEF Byte
  <2>4. d % More = d /\ (d + More) % More = d
    <3>1. d = (More * 0) + d /\ d + More = (More * 1) + d
      BY <2>1
    <3>2. ((More * 0) + d) % More = d /\ ((More * 1) + d) % More = d
      BY <2>1, DivModUnique
    <3> QED  BY <3>1, <3>2
  <2> QED  BY <1>1, <2>1, <2>2, <2>3, <2>4 DEF d
<1>4. a \in Seq(Byte) /\ Len(a) = n
  <2>1. a \in [1 .. n -> Byte]
    BY <1>2, <1>3
  <2> QED  BY <1>1, <2>1
<1> QED  BY <1>1, <1>3, <1>4 DEF n, a

\* A varint that stands in a payload is read back, and the place behind it is
\* found (util/varint.go, encoding/binary).
LEMMA UvarintStands ==
    ASSUME NEW v \in Word, NEW d \in Seq(Byte), NEW pos \in Nat,
           Stands(AppendUvarint(v), d, pos)
    PROVE  Uvarint(d, pos) = [ok |-> TRUE, val |-> v, pos |-> pos + Len(AppendUvarint(v))]
<1> DEFINE n == VarLen(v)
           a == AppendUvarint(v)
           ends == {k \in (pos + 1) .. Len(d) : d[k] < More}
<1>1. /\ Len(a) = n /\ n \in Nat \ {0}
      /\ \A k \in 1 .. n : /\ a[k] % More = Digit(v, Septet, k)
                           /\ k = n => a[k] < More
                           /\ k # n => a[k] >= More
  BY AppendUvarintIs
<1>2. n \in 1 .. MaxVarintLen /\ v < Pow2[Septet * n] /\ MaxVarintLen \in Nat
  BY VarLenFacts, VarintLenFacts
<1>3. pos + n <= Len(d) /\ \A j \in 1 .. n : d[pos + j] = a[j]
  BY <1>1 DEF Stands
<1>4. Len(d) \in Nat
  OBVIOUS
<1> HIDE DEF n, a
<1>5. pos + n \in ends
  BY <1>1, <1>3, <1>4
<1>6. ASSUME NEW k \in ends PROVE k >= pos + n
  <2> SUFFICES ASSUME k < pos + n PROVE FALSE
    BY <1>1, <1>4
  <2>1. k - pos \in 1 .. n /\ k - pos # n /\ pos + (k - pos) = k
    BY <1>1, <1>4
  <2>2. d[k] = a[k - pos] /\ a[k - pos] >= More
    BY <1>1, <1>3, <2>1
  <2>3. d[k] \in Nat /\ More \in Nat
    <3>1. k \in 1 .. Len(d)
      BY <1>4
    <3>2. d[k] \in Byte
      BY <3>1
    <3> QED  BY <3>2, ByteFacts
  <2>4. d[k] < More
    OBVIOUS
  <2> HIDE DEF ends
  <2> QED  BY <2>2, <2>3, <2>4
<1>7. Min(ends) = pos + n
  <2>1. ends \in SUBSET Nat
    OBVIOUS
  <2> HIDE DEF ends
  <2>2. Min(ends) \in ends /\ Min(ends) <= pos + n
    BY <1>5, <2>1, MinOfNats
  <2>3. Min(ends) \in Nat
    BY <2>1, <2>2
  <2> QED  BY <1>1, <1>6, <2>2, <2>3
<1> DEFINE f == [k \in 1 .. n |-> (d[pos + k] % More) * Pow2[Septet * (k - 1)]]
<1>8. Total(f, n) = v
  <2>1. \A k \in 1 .. n : Digits(v, Septet, n)[k] = f[k]
    BY <1>1, <1>3 DEF Digits
  <2>2. v \in Nat /\ Septet \in Nat /\ n \in Nat
    BY <1>1, ByteFacts, WordFacts
  <2>3. Total(Digits(v, Septet, n), n) = v % Pow2[Septet * n]
    BY <2>2, DigitsAre
  <2>4. Septet * n \in Nat /\ Pow2[Septet * n] \in Nat
    BY <2>2, TimesNat, Pow2Pos
  <2>5. v % Pow2[Septet * n] = v
    BY <1>2, <2>2, <2>4, ModOfSmaller
  <2>6. Total(Digits(v, Septet, n), n) = Total(f, n)
    <3> HIDE DEF f
    <3> QED  BY <2>1, <2>2, DigitsNat, TotalSame
  <2> QED  BY <2>3, <2>5, <2>6
<1>9. (pos + n) - pos = n
  BY <1>1
<1>10. ends # {} /\ Min(ends) - pos = n
  BY <1>5, <1>7, <1>9
<1>11. ~ (n > MaxVarintLen) /\ ~ (v >= 2 * HalfWord)
  BY <1>2, ColumnAssumption DEF Word
<1>12. Uvarint(d, pos) =
         IF ends = {} THEN Failed
         ELSE IF Min(ends) - pos > MaxVarintLen
                 \/ Total([k \in 1 .. (Min(ends) - pos) |->
                             (d[pos + k] % More) * Pow2[Septet * (k - 1)]], Min(ends) - pos)
                      >= 2 * HalfWord
              THEN Failed
              ELSE [ok |-> TRUE,
                    val |-> Total([k \in 1 .. (Min(ends) - pos) |->
                              (d[pos + k] % More) * Pow2[Septet * (k - 1)]], Min(ends) - pos),
                    pos |-> pos + (Min(ends) - pos)]
  BY DEF Uvarint
<1> HIDE DEF ends
<1>13. Uvarint(d, pos) =
         IF n > MaxVarintLen \/ Total(f, n) >= 2 * HalfWord THEN Failed
         ELSE [ok |-> TRUE, val |-> Total(f, n), pos |-> pos + n]
  BY <1>10, <1>12
<1> HIDE DEF f
<1> QED  BY <1>1, <1>8, <1>11, <1>13 DEF a

\* Of a varint that was cut, no byte ends it.
LEMMA UvarintCut ==
    ASSUME NEW v \in Word, NEW d \in Seq(Byte), NEW pos \in Nat,
           StandsCut(AppendUvarint(v), d, pos)
    PROVE  Uvarint(d, pos) = Failed
<1> DEFINE n == VarLen(v)
           a == AppendUvarint(v)
           ends == {k \in (pos + 1) .. Len(d) : d[k] < More}
<1>1. Len(a) = n /\ n \in Nat \ {0} /\ \A k \in 1 .. n : k # n => a[k] >= More
  BY AppendUvarintIs
<1> HIDE DEF n
<1>2. ASSUME NEW k \in ends PROVE FALSE
  <2>1. Len(d) \in Nat /\ Len(d) < pos + n
    BY <1>1 DEF StandsCut
  <2>2. k - pos \in 1 .. n /\ k - pos # n /\ pos + (k - pos) = k /\ k <= Len(d)
    BY <1>1, <2>1
  <2>3. d[k] = a[k - pos] /\ a[k - pos] >= More
    BY <1>1, <2>2 DEF StandsCut
  <2>4. d[k] \in Nat /\ More \in Nat /\ d[k] < More
    <3>1. k \in 1 .. Len(d)
      BY <2>1
    <3>2. d[k] \in Byte
      BY <3>1
    <3> QED  BY <3>2, ByteFacts
  <2> HIDE DEF ends
  <2> QED  BY <2>3, <2>4
<1>3. ends = {}
  BY <1>2
<1> QED  BY <1>3 DEF Uvarint

(***************************************************************************)
(* Pieces of a payload one behind the other.                               *)
(***************************************************************************)

\* What is where in two sequences joined.
LEMMA ConcatFacts ==
    ASSUME NEW S, NEW s \in Seq(S), NEW t \in Seq(S)
    PROVE  /\ s \o t \in Seq(S)
           /\ Len(s \o t) = Len(s) + Len(t)
           /\ Len(s) \in Nat /\ Len(t) \in Nat
           /\ \A j \in 1 .. Len(s) : (s \o t)[j] = s[j]
           /\ \A j \in 1 .. Len(t) : (s \o t)[Len(s) + j] = t[j]
  OBVIOUS

\* Two pieces stand together when the second stands behind the first.
LEMMA StandsConcat ==
    ASSUME NEW s \in Seq(Byte), NEW t \in Seq(Byte), NEW d \in Seq(Byte), NEW pos \in Nat,
           Stands(s \o t, d, pos)
    PROVE  Stands(s, d, pos) /\ Stands(t, d, pos + Len(s))
<1>1. /\ Len(s \o t) = Len(s) + Len(t) /\ Len(s) \in Nat /\ Len(t) \in Nat /\ Len(d) \in Nat
      /\ \A j \in 1 .. Len(s) : (s \o t)[j] = s[j]
      /\ \A j \in 1 .. Len(t) : (s \o t)[Len(s) + j] = t[j]
  BY ConcatFacts
<1>2. pos + Len(s \o t) <= Len(d) /\ \A j \in 1 .. Len(s \o t) : d[pos + j] = (s \o t)[j]
  BY DEF Stands
<1>3. ASSUME NEW j \in 1 .. Len(s) PROVE d[pos + j] = s[j]
  <2>1. j \in 1 .. Len(s \o t)
    BY <1>1
  <2> QED  BY <1>1, <1>2, <2>1
<1>4. ASSUME NEW j \in 1 .. Len(t) PROVE d[(pos + Len(s)) + j] = t[j]
  <2>1. Len(s) + j \in 1 .. Len(s \o t) /\ pos + (Len(s) + j) = (pos + Len(s)) + j
    BY <1>1
  <2> QED  BY <1>1, <1>2, <2>1
<1> QED  BY <1>1, <1>2, <1>3, <1>4 DEF Stands

\* A cut is in the first piece or behind it.
LEMMA CutConcat ==
    ASSUME NEW s \in Seq(Byte), NEW t \in Seq(Byte), NEW d \in Seq(Byte), NEW pos \in Nat,
           StandsCut(s \o t, d, pos)
    PROVE  \/ StandsCut(s, d, pos)
           \/ Stands(s, d, pos) /\ StandsCut(t, d, pos + Len(s))
<1>1. /\ Len(s \o t) = Len(s) + Len(t) /\ Len(s) \in Nat /\ Len(t) \in Nat /\ Len(d) \in Nat
      /\ \A j \in 1 .. Len(s) : (s \o t)[j] = s[j]
      /\ \A j \in 1 .. Len(t) : (s \o t)[Len(s) + j] = t[j]
  BY ConcatFacts
<1>2. /\ Len(d) < pos + Len(s \o t)
      /\ \A j \in 1 .. Len(s \o t) : pos + j <= Len(d) => d[pos + j] = (s \o t)[j]
  BY DEF StandsCut
<1>3. ASSUME NEW j \in 1 .. Len(s), pos + j <= Len(d) PROVE d[pos + j] = s[j]
  <2>1. j \in 1 .. Len(s \o t)
    BY <1>1
  <2> QED  BY <1>1, <1>2, <1>3, <2>1
<1>4. ASSUME NEW j \in 1 .. Len(t), (pos + Len(s)) + j <= Len(d)
      PROVE  d[(pos + Len(s)) + j] = t[j]
  <2>1. Len(s) + j \in 1 .. Len(s \o t) /\ pos + (Len(s) + j) = (pos + Len(s)) + j
    BY <1>1
  <2> QED  BY <1>1, <1>2, <1>4, <2>1
<1>5. CASE Len(d) < pos + Len(s)
  BY <1>3, <1>5 DEF StandsCut
<1>6. CASE pos + Len(s) <= Len(d)
  <2>1. \A j \in 1 .. Len(s) : pos + j <= Len(d)
    BY <1>1, <1>6
  <2>2. Stands(s, d, pos)
    BY <1>3, <1>6, <2>1 DEF Stands
  <2>3. StandsCut(t, d, pos + Len(s))
    BY <1>1, <1>2, <1>4 DEF StandsCut
  <2> QED  BY <2>2, <2>3
<1> QED  BY <1>1, <1>5, <1>6

(***************************************************************************)
(* One value of either kind.                                               *)
(***************************************************************************)

\* What a reader takes back: a word, or a string that is not too long.
Takeable(kind, v) ==
    IF kind = "int" THEN v \in Word ELSE v \in Seq(Byte) /\ Len(v) <= MaxBytesValue

\* The length of a string within the limit is a word.
LEMMA LenIsWord ==
    ASSUME NEW v \in Seq(Byte), Len(v) <= MaxBytesValue
    PROVE  Len(v) \in Word
<1>1. MaxBytesValue \in Word
  BY EncodingAssumption
<1>2. Len(v) \in Nat
  OBVIOUS
<1> QED  BY <1>1, <1>2, ColumnAssumption DEF Word

\* What a writer writes: a word, or a string however long it is.
Writable(kind, v) ==
    IF kind = "int" THEN v \in Word ELSE v \in Seq(Byte) /\ Len(v) \in Word

\* What is taken back can have been written.
LEMMA TakeableIsWritable ==
    ASSUME NEW kind, NEW v, Takeable(kind, v)
    PROVE  Writable(kind, v)
  BY LenIsWord DEF Takeable, Writable

\* What is written of a value is bytes, and never none.
LEMMA PutIs ==
    ASSUME NEW kind, NEW v, Writable(kind, v)
    PROVE  Put(kind, v) \in Seq(Byte) /\ Len(Put(kind, v)) \in Nat \ {0}
<1>1. CASE kind = "int"
  BY <1>1, AppendUvarintIs DEF Writable, Put
<1>2. CASE kind # "int"
  <2>1. v \in Seq(Byte) /\ Len(v) \in Word
    BY <1>2 DEF Writable
  <2>2. AppendUvarint(Len(v)) \in Seq(Byte) /\ Len(AppendUvarint(Len(v))) \in Nat \ {0}
    BY <2>1, AppendUvarintIs
  <2>3. Put(kind, v) = AppendUvarint(Len(v)) \o v
    BY <1>2 DEF Put, AppendBytes
  <2> QED  BY <2>1, <2>2, <2>3, ConcatFacts
<1> QED  BY <1>1, <1>2

\* A value that stands in a payload is read back.
LEMMA TakeStands ==
    ASSUME NEW kind, NEW v, Takeable(kind, v), NEW d \in Seq(Byte), NEW pos \in Nat,
           Stands(Put(kind, v), d, pos)
    PROVE  Take(kind, d, pos) = [ok |-> TRUE, val |-> v, pos |-> pos + Len(Put(kind, v))]
<1>1. CASE kind = "int"
  BY <1>1, UvarintStands DEF Takeable, Put, Take
<1>2. CASE kind # "int"
  <2> DEFINE u == AppendUvarint(Len(v))
             q == pos + Len(u)
  <2>1. v \in Seq(Byte) /\ Len(v) \in Word /\ Len(v) <= MaxBytesValue
    BY <1>2, LenIsWord DEF Takeable
  <2>2. u \in Seq(Byte) /\ Len(u) \in Nat
    BY <2>1, AppendUvarintIs
  <2>3. Put(kind, v) = u \o v /\ Take(kind, d, pos) = TakeBytes(d, pos)
    BY <1>2 DEF Put, AppendBytes, Take
  <2>4. Stands(u, d, pos) /\ Stands(v, d, q)
    <3> HIDE DEF u
    <3> QED  BY <2>1, <2>2, <2>3, StandsConcat
  <2>5. Uvarint(d, pos) = [ok |-> TRUE, val |-> Len(v), pos |-> q]
    BY <2>1, <2>4, UvarintStands
  <2>6. q \in Nat /\ q + Len(v) <= Len(d) /\ Len(v) \in Nat /\ Len(d) \in Nat
    <3> HIDE DEF u
    <3> QED  BY <2>1, <2>2, <2>4 DEF Stands
  <2>7. SubSeq(d, q + 1, q + Len(v)) = v
    <3> HIDE DEF q
    <3> DEFINE t == SubSeq(d, q + 1, q + Len(v))
    <3>1. t \in Seq(Byte) /\ Len(t) = Len(v) /\ \A i \in 1 .. Len(v) : t[i] = d[q + i]
      <4>1. q + 1 \in 1 .. (Len(d) + 1) /\ q + Len(v) \in q .. Len(d)
        BY <2>6
      <4>2. /\ SubSeq(d, q + 1, q + Len(v)) \in Seq(Byte)
            /\ Len(SubSeq(d, q + 1, q + Len(v))) = (q + Len(v)) - (q + 1) + 1
            /\ \A i \in 1 .. (q + Len(v)) - (q + 1) + 1 :
                  SubSeq(d, q + 1, q + Len(v))[i] = d[(q + 1) + i - 1]
        BY <2>6, <4>1, SubSeqProperties
      <4>3. (q + Len(v)) - (q + 1) + 1 = Len(v)
        BY <2>6
      <4>4. \A i \in 1 .. Len(v) : (q + 1) + i - 1 = q + i
        BY <2>6
      <4> QED  BY <4>2, <4>3, <4>4
    <3>2. \A i \in 1 .. Len(v) : t[i] = v[i]
      BY <2>4, <3>1 DEF Stands
    <3>3. t = v
      <4> HIDE DEF t
      <4> QED  BY <2>1, <3>1, <3>2, SeqEqual
    <3> QED  BY <3>3
  <2>8. Take(kind, d, pos) = [ok |-> TRUE, val |-> v, pos |-> q + Len(v)]
    <3> DEFINE r == Uvarint(d, pos)
    <3>1. TakeBytes(d, pos) =
            IF r.ok
            THEN IF r.val <= MaxBytesValue /\ r.pos + r.val <= Len(d)
                 THEN [ok |-> TRUE, val |-> SubSeq(d, r.pos + 1, r.pos + r.val),
                       pos |-> r.pos + r.val]
                 ELSE Failed
            ELSE Failed
      BY DEF TakeBytes, Then, Provided
    <3>2. r.ok = TRUE /\ r.val = Len(v) /\ r.pos = q
      BY <2>5
    <3> HIDE DEF q, r
    <3> QED  BY <2>1, <2>3, <2>6, <2>7, <3>1, <3>2
  <2>9. q + Len(v) = pos + Len(Put(kind, v))
    <3> HIDE DEF u
    <3> QED  BY <2>1, <2>2, <2>3, ConcatFacts
  <2> QED  BY <2>8, <2>9
<1> QED  BY <1>1, <1>2

\* A value that was cut is not.
LEMMA TakeCut ==
    ASSUME NEW kind, NEW v, Writable(kind, v), NEW d \in Seq(Byte), NEW pos \in Nat,
           StandsCut(Put(kind, v), d, pos)
    PROVE  Take(kind, d, pos) = Failed
<1>1. CASE kind = "int"
  BY <1>1, UvarintCut DEF Writable, Put, Take
<1>2. CASE kind # "int"
  <2> DEFINE u == AppendUvarint(Len(v))
             q == pos + Len(u)
  <2>1. v \in Seq(Byte) /\ Len(v) \in Word
    BY <1>2 DEF Writable
  <2>2. u \in Seq(Byte) /\ Len(u) \in Nat
    BY <2>1, AppendUvarintIs
  <2>3. Put(kind, v) = u \o v /\ Take(kind, d, pos) = TakeBytes(d, pos)
    BY <1>2 DEF Put, AppendBytes, Take
  <2>4. StandsCut(u, d, pos) \/ (Stands(u, d, pos) /\ StandsCut(v, d, q))
    <3> HIDE DEF u
    <3> QED  BY <2>1, <2>2, <2>3, CutConcat
  <2>5. CASE StandsCut(u, d, pos)
    <3>1. Uvarint(d, pos) = Failed
      BY <2>1, <2>5, UvarintCut
    <3> QED  BY <2>3, <3>1 DEF TakeBytes, Then, Failed
  <2>6. CASE Stands(u, d, pos) /\ StandsCut(v, d, q)
    <3>1. Uvarint(d, pos) = [ok |-> TRUE, val |-> Len(v), pos |-> q]
      BY <2>1, <2>6, UvarintStands
    <3>2. q \in Nat /\ ~ (q + Len(v) <= Len(d))
      <4>1. q \in Nat /\ Len(v) \in Nat /\ Len(d) \in Nat
        BY <2>1, <2>2
      <4> QED  BY <2>6, <4>1 DEF StandsCut
    <3> HIDE DEF q
    <3> QED  BY <2>3, <3>1, <3>2 DEF TakeBytes, Then, Provided, Failed
  <2> QED  BY <2>4, <2>5, <2>6
<1> QED  BY <1>1, <1>2

\* A string over the limit is not either, although it is all there.
LEMMA TakeRefuses ==
    ASSUME NEW kind, NEW v, Writable(kind, v), ~ Takeable(kind, v),
           NEW d \in Seq(Byte), NEW pos \in Nat, Stands(Put(kind, v), d, pos)
    PROVE  Take(kind, d, pos) = Failed
<1> DEFINE u == AppendUvarint(Len(v))
           q == pos + Len(u)
           r == Uvarint(d, pos)
<1>1. kind # "int" /\ v \in Seq(Byte) /\ Len(v) \in Word /\ ~ (Len(v) <= MaxBytesValue)
  BY DEF Writable, Takeable
<1>2. u \in Seq(Byte)
  BY <1>1, AppendUvarintIs
<1>3. Put(kind, v) = u \o v /\ Take(kind, d, pos) = TakeBytes(d, pos)
  BY <1>1 DEF Put, AppendBytes, Take
<1>4. Stands(u, d, pos)
  <2> HIDE DEF u
  <2> QED  BY <1>1, <1>2, <1>3, StandsConcat
<1>5. r = [ok |-> TRUE, val |-> Len(v), pos |-> q]
  BY <1>1, <1>4, UvarintStands
<1>6. TakeBytes(d, pos) =
          IF r.ok
          THEN IF r.val <= MaxBytesValue /\ r.pos + r.val <= Len(d)
               THEN [ok |-> TRUE, val |-> SubSeq(d, r.pos + 1, r.pos + r.val),
                     pos |-> r.pos + r.val]
               ELSE Failed
          ELSE Failed
  BY DEF TakeBytes, Then, Provided
<1>7. r.ok = TRUE /\ r.val = Len(v)
  BY <1>5
<1> HIDE DEF q, r, u
<1> QED  BY <1>1, <1>3, <1>6, <1>7

\* A value that a reader cannot take: cut, or too long.
Broken(kind, v, d, pos) ==
    \/ StandsCut(Put(kind, v), d, pos)
    \/ Stands(Put(kind, v), d, pos) /\ ~ Takeable(kind, v)

LEMMA TakeBroken ==
    ASSUME NEW kind, NEW v, Writable(kind, v), NEW d \in Seq(Byte), NEW pos \in Nat,
           Broken(kind, v, d, pos)
    PROVE  Take(kind, d, pos) = Failed
  BY TakeCut, TakeRefuses DEF Broken

(***************************************************************************)
(* Many pieces one behind the other.                                       *)
(***************************************************************************)

\* f[k] is the first k pieces of s in one.
IsJoined(s, f) ==
    /\ f[0] = <<>>
    /\ \A k \in 1 .. Len(s) : f[k] = f[k - 1] \o s[k]

\* FlattenSeq joins the pieces.
LEMMA FlattenDef ==
    ASSUME NEW s \in Seq(Seq(Byte))
    PROVE  \E f \in [0 .. Len(s) -> Seq(Byte)] : IsJoined(s, f) /\ FlattenSeq(s) = f[Len(s)]
<1> DEFINE n == Len(s)
           g == [p \in (1 .. n) \X Seq(Byte) |-> p[2] \o s[p[1]]]
           Eq(h) == [i \in 1 .. n |-> IF i = 1 THEN s[i] ELSE h[i - 1] \o s[i]]
<1>1. n \in Nat /\ \A k \in 1 .. n : s[k] \in Seq(Byte)
  OBVIOUS
<1>2. \A k \in 1 .. n, x \in Seq(Byte) : g[<<k, x>>] = x \o s[k] /\ x \o s[k] \in Seq(Byte)
  <2>1. ASSUME NEW k \in 1 .. n, NEW x \in Seq(Byte) PROVE x \o s[k] \in Seq(Byte)
    BY <1>1, ConcatFacts
  <2>2. ASSUME NEW k \in 1 .. n, NEW x \in Seq(Byte) PROVE g[<<k, x>>] = x \o s[k]
    <3>1. <<k, x>> \in (1 .. n) \X Seq(Byte)
      OBVIOUS
    <3> HIDE DEF n
    <3> QED  BY <3>1
  <2> QED  BY <2>1, <2>2
<1>3. PICK f \in [0 .. n -> Seq(Byte)] : IsIteration(f, n, <<>>, g)
  <2>1. <<>> \in Seq(Byte)
    OBVIOUS
  <2> HIDE DEF g, n
  <2>2. \A k \in 1 .. n, x \in Seq(Byte) : g[<<k, x>>] \in Seq(Byte)
    BY <1>2
  <2> QED  BY <1>1, <2>1, <2>2, Iterates
<1>4. f[0] = <<>> /\ \A k \in 1 .. n : f[k] = f[k - 1] \o s[k]
  <2> HIDE DEF g
  <2>1. ASSUME NEW k \in 1 .. n PROVE f[k] = f[k - 1] \o s[k]
    <3>1. k - 1 \in 0 .. n
      BY <1>1
    <3>2. f[k - 1] \in Seq(Byte)
      BY <1>3, <3>1
    <3> QED  BY <1>2, <1>3, <3>2 DEF IsIteration
  <2> QED  BY <1>3, <2>1 DEF IsIteration
<1>5. CASE n = 0
  <2>1. FlattenSeq(s) = s /\ s = <<>>
    BY <1>5 DEF FlattenSeq
  <2> QED  BY <1>3, <1>4, <1>5, <2>1 DEF IsJoined
<1>6. CASE n # 0
  <2> DEFINE h == [i \in 1 .. n |-> f[i]]
             t == CHOOSE x : x = Eq(x)
  <2>1. h = Eq(h)
    <3> SUFFICES ASSUME NEW i \in 1 .. n
                 PROVE  f[i] = IF i = 1 THEN s[i] ELSE h[i - 1] \o s[i]
      BY Zenon
    <3>1. CASE i = 1
      <4>1. s[1] \in Seq(Byte) /\ f[1] = f[1 - 1] \o s[1] /\ 1 - 1 = 0
        <5>1. s[i] \in Seq(Byte) /\ f[i] = f[i - 1] \o s[i]
          BY <1>1, <1>4
        <5> QED  BY <3>1, <5>1
      <4>2. f[1] = <<>> \o s[1]
        BY <1>4, <4>1
      <4> QED  BY <3>1, <4>1, <4>2
    <3>2. CASE i # 1
      <4>1. i - 1 \in 1 .. n
        BY <1>1, <3>2
      <4> HIDE DEF n
      <4> QED  BY <1>4, <3>2, <4>1
    <3> QED  BY <3>1, <3>2
  <2>2. t = Eq(t)
    <3> HIDE DEF Eq, h
    <3> QED  BY <2>1
  <2>3. FlattenSeq(s) = t[n]
    BY <1>6 DEF FlattenSeq
  <2> HIDE DEF t
  <2>4. \A i \in 1 .. n : t[i] = f[i]
    <3> DEFINE S == {k \in 0 .. n : k # 0 => t[k] = f[k]}
    <3> HIDE DEF n
    <3>1. 0 \in S
      BY <1>1
    <3>2. ASSUME NEW k \in 0 .. n - 1, k \in S PROVE k + 1 \in S
      <4>1. k + 1 \in 1 .. n /\ (k + 1) - 1 = k /\ k + 1 \in 0 .. n
        BY <1>1
      <4>2. t[k + 1] = IF k + 1 = 1 THEN s[k + 1] ELSE t[k] \o s[k + 1]
        <5>1. t[k + 1] = Eq(t)[k + 1]
          BY <2>2
        <5> QED  BY <4>1, <5>1
      <4>3. f[k + 1] = f[k] \o s[k + 1]
        BY <1>4, <4>1
      <4>4. CASE k = 0
        <5>1. k + 1 = 1 /\ s[1] \in Seq(Byte) /\ f[1] = f[0] \o s[1]
          BY <1>1, <4>1, <4>3, <4>4
        <5>2. f[1] = s[1]
          BY <1>4, <5>1
        <5> QED  BY <4>1, <4>2, <5>1, <5>2
      <4>5. CASE k # 0
        <5>1. k + 1 # 1 /\ t[k] = f[k]
          BY <3>2, <4>5
        <5> QED  BY <4>1, <4>2, <4>3, <5>1
      <4> QED  BY <4>4, <4>5
    <3>3. \A k \in 0 .. n : k \in S
      <4> HIDE DEF S
      <4> QED  BY <1>1, <3>1, <3>2, Reaches
    <3> QED  BY <1>1, <3>3
  <2>5. n \in 1 .. n
    BY <1>1, <1>6
  <2> QED  BY <1>3, <1>4, <2>3, <2>4, <2>5 DEF IsJoined
<1> QED  BY <1>5, <1>6

\* Where the pieces stand together, each stands where those before it end.
LEMMA PiecesStand ==
    ASSUME NEW s \in Seq(Seq(Byte)), NEW f \in [0 .. Len(s) -> Seq(Byte)], IsJoined(s, f),
           NEW d \in Seq(Byte), NEW pos \in Nat, Stands(f[Len(s)], d, pos)
    PROVE  \A k \in 1 .. Len(s) : Stands(s[k], d, pos + Len(f[k - 1]))
<1> DEFINE n == Len(s)
           S == {m \in 0 .. n : Stands(f[n - m], d, pos)}
<1>1. n \in Nat /\ \A k \in 1 .. n : s[k] \in Seq(Byte)
  OBVIOUS
<1>2. 0 \in S
  BY <1>1
<1>3. ASSUME NEW k \in 1 .. n, Stands(f[k], d, pos)
      PROVE  Stands(f[k - 1], d, pos) /\ Stands(s[k], d, pos + Len(f[k - 1]))
  <2>1. k - 1 \in 0 .. n
    BY <1>1
  <2>2. f[k - 1] \in Seq(Byte) /\ s[k] \in Seq(Byte) /\ f[k] = f[k - 1] \o s[k]
    BY <1>1, <2>1 DEF IsJoined
  <2> QED  BY <1>3, <2>2, StandsConcat
<1>4. ASSUME NEW m \in 0 .. n - 1, m \in S PROVE m + 1 \in S
  <2>1. n - m \in 1 .. n /\ (n - m) - 1 = n - (m + 1) /\ m + 1 \in 0 .. n
    BY <1>1
  <2>2. Stands(f[n - m], d, pos)
    BY <1>4
  <2> HIDE DEF n
  <2> QED  BY <1>3, <2>1, <2>2
<1>5. \A m \in 0 .. n : m \in S
  <2> HIDE DEF S, n
  <2> QED  BY <1>1, <1>2, <1>4, Reaches
<1>6. ASSUME NEW k \in 1 .. n PROVE Stands(s[k], d, pos + Len(f[k - 1]))
  <2>1. n - k \in 0 .. n /\ n - (n - k) = k
    BY <1>1
  <2>2. Stands(f[k], d, pos)
    BY <1>5, <2>1
  <2> QED  BY <1>3, <2>2
<1> QED  BY <1>6

\* Where they are cut, one piece is cut and those before it stand.
LEMMA PiecesCut ==
    ASSUME NEW s \in Seq(Seq(Byte)), NEW f \in [0 .. Len(s) -> Seq(Byte)], IsJoined(s, f),
           NEW d \in Seq(Byte), NEW pos \in Nat, pos <= Len(d), StandsCut(f[Len(s)], d, pos)
    PROVE  \E j \in 1 .. Len(s) : /\ StandsCut(s[j], d, pos + Len(f[j - 1]))
                                  /\ \A k \in 1 .. j - 1 : Stands(s[k], d, pos + Len(f[k - 1]))
<1> DEFINE n == Len(s)
           P(j) == Stands(f[j - 1], d, pos) /\ StandsCut(s[j], d, pos + Len(f[j - 1]))
           S == {m \in 0 .. n : StandsCut(f[n - m], d, pos) \/ \E j \in 1 .. n : P(j)}
<1>1. n \in Nat /\ \A k \in 1 .. n : s[k] \in Seq(Byte)
  OBVIOUS
<1>2. 0 \in S
  BY <1>1
<1>3. ASSUME NEW k \in 1 .. n, StandsCut(f[k], d, pos)
      PROVE  StandsCut(f[k - 1], d, pos) \/ P(k)
  <2>1. k - 1 \in 0 .. n
    BY <1>1
  <2>2. f[k - 1] \in Seq(Byte) /\ s[k] \in Seq(Byte) /\ f[k] = f[k - 1] \o s[k]
    BY <1>1, <2>1 DEF IsJoined
  <2> QED  BY <1>3, <2>2, CutConcat
<1>4. ASSUME NEW m \in 0 .. n - 1, m \in S PROVE m + 1 \in S
  <2>1. n - m \in 1 .. n /\ (n - m) - 1 = n - (m + 1) /\ m + 1 \in 0 .. n
    BY <1>1
  <2>2. StandsCut(f[n - m], d, pos) \/ \E j \in 1 .. n : P(j)
    BY <1>4
  <2> HIDE DEF n, P
  <2> QED  BY <1>3, <2>1, <2>2
<1>5. \A m \in 0 .. n : m \in S
  <2> HIDE DEF S, n
  <2> QED  BY <1>1, <1>2, <1>4, Reaches
<1>6. \E j \in 1 .. n : P(j)
  <2>1. n \in 0 .. n /\ n - n = 0
    BY <1>1
  <2>2. ~ StandsCut(f[0], d, pos)
    <3>1. f[0] = <<>> /\ Len(<<>>) = 0 /\ Len(d) \in Nat
      BY DEF IsJoined
    <3> QED  BY <3>1 DEF StandsCut
  <2> HIDE DEF P, n
  <2> QED  BY <1>5, <2>1, <2>2
<1>7. PICK j \in 1 .. n : P(j)
  BY <1>6
<1>8. ASSUME NEW k \in 1 .. j - 1 PROVE Stands(s[k], d, pos + Len(f[k - 1]))
  <2> DEFINE r == SubSeq(s, 1, j - 1)
             e == [i \in 0 .. j - 1 |-> f[i]]
  <2>1. j - 1 \in Nat /\ \A i \in 1 .. j - 1 : s[i] \in Seq(Byte)
    BY <1>1
  <2>2. r \in Seq(Seq(Byte)) /\ Len(r) = j - 1 /\ \A i \in 1 .. j - 1 : r[i] = s[i]
    <3>1. 1 \in Int /\ j - 1 \in Int
      OBVIOUS
    <3>2. /\ SubSeq(s, 1, j - 1) \in Seq(Seq(Byte))
          /\ Len(SubSeq(s, 1, j - 1)) = IF 1 <= j - 1 THEN (j - 1) - 1 + 1 ELSE 0
          /\ \A i \in 1 .. (j - 1) - 1 + 1 : SubSeq(s, 1, j - 1)[i] = s[1 + i - 1]
      BY <2>1, <3>1, SubSeqProperties
    <3>3. (j - 1) - 1 + 1 = j - 1 /\ \A i \in 1 .. j - 1 : 1 + i - 1 = i
      OBVIOUS
    <3>4. ~ (1 <= j - 1) => j - 1 = 0
      BY <2>1
    <3> QED  BY <3>2, <3>3, <3>4
  <2> HIDE DEF r
  <2>3. e \in [0 .. Len(r) -> Seq(Byte)] /\ \A i \in 0 .. j - 1 : e[i] = f[i]
    <3>1. \A i \in 0 .. j - 1 : i \in 0 .. Len(s)
      BY <1>1
    <3> QED  BY <2>2, <3>1
  <2>4. IsJoined(r, e)
    <3>1. e[0] = <<>>
      BY <2>1, <2>3 DEF IsJoined
    <3>2. ASSUME NEW i \in 1 .. j - 1 PROVE e[i] = e[i - 1] \o r[i]
      <4>1. i \in 0 .. j - 1 /\ i - 1 \in 0 .. j - 1 /\ i \in 1 .. n
        BY <1>1
      <4>2. f[i] = f[i - 1] \o s[i]
        BY <4>1 DEF IsJoined
      <4> HIDE DEF e
      <4> QED  BY <2>2, <2>3, <4>1, <4>2
    <3> QED  BY <2>2, <3>1, <3>2 DEF IsJoined
  <2>5. Stands(e[Len(r)], d, pos)
    <3>1. j - 1 \in 0 .. j - 1
      BY <2>1
    <3> QED  BY <1>7, <2>2, <2>3, <3>1
  <2> HIDE DEF e
  <2>6. \A i \in 1 .. Len(r) : Stands(r[i], d, pos + Len(e[i - 1]))
    BY <2>2, <2>3, <2>4, <2>5, PiecesStand
  <2>7. k \in 1 .. Len(r) /\ k - 1 \in 0 .. j - 1
    BY <2>1, <2>2
  <2> QED  BY <2>2, <2>3, <2>6, <2>7
<1> QED  BY <1>7, <1>8

(***************************************************************************)
(* Many values one behind the other.                                       *)
(***************************************************************************)

\* Two iterations with the same start and the same step are the same.
LEMMA SameIteration ==
    ASSUME NEW n \in Nat, NEW s, NEW t, s[0] = t[0],
           \A k \in 0 .. n - 1 : s[k] = t[k] => s[k + 1] = t[k + 1]
    PROVE  \A k \in 0 .. n : s[k] = t[k]
<1> DEFINE S == {k \in 0 .. n : s[k] = t[k]}
<1>1. 0 \in S
  OBVIOUS
<1>2. ASSUME NEW k \in 0 .. n - 1, k \in S PROVE k + 1 \in S
  BY <1>2
<1> HIDE DEF S
<1>3. \A k \in 0 .. n : k \in S
  BY <1>1, <1>2, Reaches
<1> QED  BY <1>3 DEF S

\* The first k + 1 values are the first k and one more.
LEMMA PrefixAppend ==
    ASSUME NEW X, NEW vals \in Seq(X), NEW k \in 0 .. Len(vals) - 1
    PROVE  Append([i \in 1 .. k |-> vals[i]], vals[k + 1]) = [i \in 1 .. (k + 1) |-> vals[i]]
  OBVIOUS

\* The first values, when they are none or all.
LEMMA PrefixEnds ==
    ASSUME NEW X, NEW vals \in Seq(X)
    PROVE  [i \in 1 .. 0 |-> vals[i]] = <<>> /\ [i \in 1 .. Len(vals) |-> vals[i]] = vals
  OBVIOUS

\* h[k] is what a decoder has read after k values.
IsReading(kind, d, from, n, h) ==
    h = [k \in 0 .. n |-> IF k = 0 THEN Start(from)
                          ELSE IF h[k - 1].ok THEN ReadNext(kind, d, h[k - 1]) ELSE Failed]

\* The loop of the decoders is that function.
LEMMA ReadValuesIs ==
    ASSUME NEW kind, NEW d, NEW from, NEW n \in Nat, NEW h, IsReading(kind, d, from, n, h)
    PROVE  ReadValues(kind, d, from, n) = h[n]
<1> DEFINE Eq(x) == [k \in 0 .. n |-> IF k = 0 THEN Start(from)
                                      ELSE IF x[k - 1].ok THEN ReadNext(kind, d, x[k - 1])
                                           ELSE Failed]
           t == CHOOSE x : x = Eq(x)
<1>1. ReadValues(kind, d, from, n) = t[n]
  BY DEF ReadValues, Then
<1>2. h = Eq(h)
  BY DEF IsReading
<1>3. t = Eq(t)
  <2> HIDE DEF Eq
  <2> QED  BY <1>2
<1> HIDE DEF t
<1>4. t[0] = h[0]
  BY <1>2, <1>3
<1>5. ASSUME NEW k \in 0 .. n - 1, t[k] = h[k] PROVE t[k + 1] = h[k + 1]
  <2>1. k + 1 \in 0 .. n /\ k + 1 # 0 /\ (k + 1) - 1 = k
    OBVIOUS
  <2>2. t[k + 1] = Eq(t)[k + 1] /\ h[k + 1] = Eq(h)[k + 1]
    <3> HIDE DEF Eq
    <3> QED  BY <1>2, <1>3
  <2> QED  BY <1>5, <2>1, <2>2
<1>6. \A k \in 0 .. n : t[k] = h[k]
  <2> HIDE DEF Eq
  <2> QED  BY <1>4, <1>5, SameIteration
<1> QED  BY <1>1, <1>6

\* One round of the loop where a value can be read.
LEMMA ReadNextStands ==
    ASSUME NEW kind, NEW v, Takeable(kind, v), NEW d \in Seq(Byte), NEW r, r.pos \in Nat,
           Stands(Put(kind, v), d, r.pos)
    PROVE  ReadNext(kind, d, r) = [ok |-> TRUE, vals |-> Append(r.vals, v),
                                   pos |-> r.pos + Len(Put(kind, v))]
<1> DEFINE t == Take(kind, d, r.pos)
<1>1. t = [ok |-> TRUE, val |-> v, pos |-> r.pos + Len(Put(kind, v))]
  BY TakeStands
<1>2. ReadNext(kind, d, r) = IF t.ok THEN [ok |-> TRUE, vals |-> Append(r.vals, t.val), pos |-> t.pos]
                             ELSE Failed
  BY DEF ReadNext, Then
<1> HIDE DEF t
<1> QED  BY <1>1, <1>2

\* One round where it cannot.
LEMMA ReadNextBroken ==
    ASSUME NEW kind, NEW v, Writable(kind, v), NEW d \in Seq(Byte), NEW r, r.pos \in Nat,
           Broken(kind, v, d, r.pos)
    PROVE  ReadNext(kind, d, r) = Failed
<1>1. Take(kind, d, r.pos) = Failed
  BY TakeBroken
<1> QED  BY <1>1 DEF ReadNext, Then, Failed

AllTakeable(kind, vals) == \A i \in 1 .. Len(vals) : Takeable(kind, vals[i])

AllWritable(kind, vals) == \A i \in 1 .. Len(vals) : Writable(kind, vals[i])

LEMMA AllTakeableIsWritable ==
    ASSUME NEW kind, NEW vals, AllTakeable(kind, vals)
    PROVE  AllWritable(kind, vals)
  BY TakeableIsWritable DEF AllTakeable, AllWritable

\* The values as they are written one behind the other.
Pieces(kind, vals) == [i \in 1 .. Len(vals) |-> Put(kind, vals[i])]

Puts(kind, vals) == FlattenSeq(Pieces(kind, vals))

\* The pieces are bytes.
LEMMA PiecesAre ==
    ASSUME NEW kind, NEW X, NEW vals \in Seq(X), AllWritable(kind, vals)
    PROVE  /\ Pieces(kind, vals) \in Seq(Seq(Byte))
           /\ Len(Pieces(kind, vals)) = Len(vals)
           /\ \A i \in 1 .. Len(vals) : Pieces(kind, vals)[i] = Put(kind, vals[i])
<1>1. Len(vals) \in Nat
  OBVIOUS
<1>2. ASSUME NEW i \in 1 .. Len(vals) PROVE Put(kind, vals[i]) \in Seq(Byte)
  <2>1. Writable(kind, vals[i])
    BY DEF AllWritable
  <2> QED  BY <2>1, PutIs
<1> QED  BY <1>1, <1>2 DEF Pieces

\* The first k values of vals and the place behind them.
ReadUpTo(vals, f, pos, k) == [ok |-> TRUE, vals |-> [i \in 1 .. k |-> vals[i]], pos |-> pos + Len(f[k])]

\* A value that stands behind the first k takes the reader to k + 1.
LEMMA ReadUpToNext ==
    ASSUME NEW kind, NEW X, NEW vals \in Seq(X), AllWritable(kind, vals),
           NEW f \in [0 .. Len(vals) -> Seq(Byte)], IsJoined(Pieces(kind, vals), f),
           NEW d \in Seq(Byte), NEW pos \in Nat,
           NEW k \in 0 .. Len(vals) - 1, Takeable(kind, vals[k + 1]),
           Stands(Put(kind, vals[k + 1]), d, pos + Len(f[k]))
    PROVE  ReadNext(kind, d, ReadUpTo(vals, f, pos, k)) = ReadUpTo(vals, f, pos, k + 1)
<1> DEFINE r == ReadUpTo(vals, f, pos, k)
<1>1. k \in 0 .. Len(vals) /\ k + 1 \in 1 .. Len(vals) /\ (k + 1) - 1 = k
  OBVIOUS
<1>2. r.pos = pos + Len(f[k]) /\ r.vals = [i \in 1 .. k |-> vals[i]] /\ f[k] \in Seq(Byte)
  BY <1>1 DEF ReadUpTo
<1>3. f[k + 1] = f[k] \o Put(kind, vals[k + 1])
  <2>1. Pieces(kind, vals)[k + 1] = Put(kind, vals[k + 1]) /\ Len(Pieces(kind, vals)) = Len(vals)
    BY <1>1, PiecesAre
  <2> QED  BY <1>1, <2>1 DEF IsJoined
<1>4. Writable(kind, vals[k + 1]) /\ Takeable(kind, vals[k + 1])
  BY <1>1 DEF AllWritable
<1>5. Put(kind, vals[k + 1]) \in Seq(Byte)
  BY <1>4, PutIs
<1>6. Len(f[k + 1]) = Len(f[k]) + Len(Put(kind, vals[k + 1])) /\ Len(f[k]) \in Nat
      /\ Len(Put(kind, vals[k + 1])) \in Nat
  BY <1>2, <1>3, <1>5, ConcatFacts
<1>7. r.pos \in Nat
  BY <1>2, <1>6
<1>8. ReadNext(kind, d, r) = [ok |-> TRUE, vals |-> Append(r.vals, vals[k + 1]),
                              pos |-> r.pos + Len(Put(kind, vals[k + 1]))]
  <2>1. Stands(Put(kind, vals[k + 1]), d, r.pos)
    BY <1>2
  <2> HIDE DEF r
  <2> QED  BY <1>4, <1>7, <2>1, ReadNextStands
<1>9. r.pos + Len(Put(kind, vals[k + 1])) = pos + Len(f[k + 1])
  <2> DEFINE x == Len(f[k])
             y == Len(Put(kind, vals[k + 1]))
             z == Len(f[k + 1])
             p == r.pos
  <2>1. p = pos + x /\ z = x + y /\ x \in Nat /\ y \in Nat
    BY <1>2, <1>6
  <2> HIDE DEF x, y, z, p
  <2>2. p + y = pos + z
    BY <2>1
  <2> QED  BY <2>2 DEF x, y, z, p
<1>10. Append(r.vals, vals[k + 1]) = [i \in 1 .. (k + 1) |-> vals[i]]
  BY <1>2, PrefixAppend
<1> QED  BY <1>8, <1>9, <1>10 DEF ReadUpTo

\* Values that stand in a payload are read back, each and in order.
LEMMA ValuesStand ==
    ASSUME NEW kind, NEW X, NEW vals \in Seq(X), AllTakeable(kind, vals),
           NEW d \in Seq(Byte), NEW pos \in Nat, Stands(Puts(kind, vals), d, pos)
    PROVE  ReadValues(kind, d, pos, Len(vals)) =
               [ok |-> TRUE, vals |-> vals, pos |-> pos + Len(Puts(kind, vals))]
<1> DEFINE n == Len(vals)
           s == Pieces(kind, vals)
<1>0. AllWritable(kind, vals)
  BY AllTakeableIsWritable
<1>1. n \in Nat /\ s \in Seq(Seq(Byte)) /\ Len(s) = n /\ \A i \in 1 .. n : s[i] = Put(kind, vals[i])
  BY <1>0, PiecesAre
<1>2. PICK f \in [0 .. n -> Seq(Byte)] : IsJoined(s, f) /\ Puts(kind, vals) = f[n]
  BY <1>1, FlattenDef DEF Puts
<1>3. \A k \in 1 .. n : Stands(s[k], d, pos + Len(f[k - 1]))
  <2> HIDE DEF s, n
  <2> QED  BY <1>1, <1>2, PiecesStand
<1> DEFINE h == [k \in 0 .. n |-> ReadUpTo(vals, f, pos, k)]
<1>4. IsReading(kind, d, pos, n, h)
  <2>1. h[0] = Start(pos)
    <3>1. f[0] = <<>> /\ pos + Len(<<>>) = pos /\ 0 \in 0 .. n
      BY <1>2 DEF IsJoined
    <3> QED  BY <3>1, PrefixEnds DEF ReadUpTo, Start
  <2>2. ASSUME NEW k \in 0 .. n, k # 0
        PROVE  h[k] = IF h[k - 1].ok THEN ReadNext(kind, d, h[k - 1]) ELSE Failed
    <3>1. k - 1 \in 0 .. n - 1 /\ k - 1 \in 0 .. n /\ k \in 1 .. n /\ (k - 1) + 1 = k
      BY <2>2
    <3>2. Stands(Put(kind, vals[(k - 1) + 1]), d, pos + Len(f[k - 1]))
      BY <1>1, <1>3, <3>1
    <3>3. ReadNext(kind, d, ReadUpTo(vals, f, pos, k - 1)) = ReadUpTo(vals, f, pos, (k - 1) + 1)
      <4>1. Takeable(kind, vals[(k - 1) + 1])
        BY <3>1 DEF AllTakeable
      <4> QED  BY <1>0, <1>2, <3>1, <3>2, <4>1, ReadUpToNext
    <3>4. ReadUpTo(vals, f, pos, k - 1).ok
      BY DEF ReadUpTo
    <3> QED  BY <3>1, <3>3, <3>4
  <2> QED  BY <2>1, <2>2, Zenon DEF IsReading
<1>5. ReadValues(kind, d, pos, n) = h[n]
  <2> HIDE DEF h, n
  <2> QED  BY <1>1, <1>4, ReadValuesIs
<1>6. n \in 0 .. n
  BY <1>1
<1>7. h[n] = [ok |-> TRUE, vals |-> vals, pos |-> pos + Len(f[n])]
  BY <1>6, PrefixEnds DEF ReadUpTo
<1> QED  BY <1>2, <1>5, <1>7

\* Values of which one is cut or too long are not.
AnyBroken(kind, vals, d, pos) ==
    \/ StandsCut(Puts(kind, vals), d, pos)
    \/ Stands(Puts(kind, vals), d, pos) /\ ~ AllTakeable(kind, vals)

LEMMA ValuesBroken ==
    ASSUME NEW kind, NEW X, NEW vals \in Seq(X), AllWritable(kind, vals),
           NEW d \in Seq(Byte), NEW pos \in Nat, pos <= Len(d), AnyBroken(kind, vals, d, pos)
    PROVE  ReadValues(kind, d, pos, Len(vals)) = Failed
<1> DEFINE n == Len(vals)
           s == Pieces(kind, vals)
<1>1. n \in Nat /\ s \in Seq(Seq(Byte)) /\ Len(s) = n /\ \A i \in 1 .. n : s[i] = Put(kind, vals[i])
  BY PiecesAre
<1>2. PICK f \in [0 .. n -> Seq(Byte)] : IsJoined(s, f) /\ Puts(kind, vals) = f[n]
  BY <1>1, FlattenDef DEF Puts
<1>a. ASSUME NEW m \in 0 .. n - 1, Stands(Put(kind, vals[m + 1]), d, pos + Len(f[m])),
             Takeable(kind, vals[m + 1])
      PROVE  ReadNext(kind, d, ReadUpTo(vals, f, pos, m)) = ReadUpTo(vals, f, pos, m + 1)
  BY <1>2, <1>a, ReadUpToNext
<1> DEFINE P(k) == Broken(kind, vals[k], d, pos + Len(f[k - 1]))
<1>b. PICK l \in 1 .. n : P(l) /\ \A k \in 1 .. l - 1 : Stands(s[k], d, pos + Len(f[k - 1]))
  <2>1. CASE StandsCut(Puts(kind, vals), d, pos)
    <3>1. PICK l \in 1 .. n : /\ StandsCut(s[l], d, pos + Len(f[l - 1]))
                              /\ \A k \in 1 .. l - 1 : Stands(s[k], d, pos + Len(f[k - 1]))
      <4> HIDE DEF s, n
      <4> QED  BY <1>1, <1>2, <2>1, PiecesCut
    <3>2. P(l)
      BY <1>1, <3>1 DEF Broken
    <3> HIDE DEF P
    <3> QED  BY <3>1, <3>2
  <2>2. CASE Stands(Puts(kind, vals), d, pos) /\ ~ AllTakeable(kind, vals)
    <3>1. \A k \in 1 .. n : Stands(s[k], d, pos + Len(f[k - 1]))
      <4> HIDE DEF s, n
      <4> QED  BY <1>1, <1>2, <2>2, PiecesStand
    <3>2. PICK l \in 1 .. n : ~ Takeable(kind, vals[l])
      BY <2>2 DEF AllTakeable
    <3>3. P(l)
      BY <1>1, <3>1, <3>2 DEF Broken
    <3>4. \A k \in 1 .. l - 1 : k \in 1 .. n
      BY <1>1
    <3> HIDE DEF P
    <3> QED  BY <3>1, <3>3, <3>4
  <2> QED  BY <2>1, <2>2 DEF AnyBroken
<1>3. PICK j \in 1 .. n : /\ P(j)
                          /\ \A k \in 1 .. j - 1 : /\ Stands(s[k], d, pos + Len(f[k - 1]))
                                                    /\ Takeable(kind, vals[k])
  <2> DEFINE D == {k \in 1 .. n : k <= l /\ P(k)}
             j == Min(D)
  <2> HIDE DEF P
  <2>1. l \in D /\ D \in SUBSET Nat
    BY <1>1, <1>b
  <2>2. j \in D /\ \A y \in D : j <= y
    <3> HIDE DEF D
    <3> QED  BY <2>1, MinOfNats
  <2> HIDE DEF j
  <2>3. ASSUME NEW k \in 1 .. j - 1
        PROVE  Stands(s[k], d, pos + Len(f[k - 1])) /\ Takeable(kind, vals[k])
    <3>1. k \in 1 .. l - 1 /\ k \in 1 .. n /\ k <= l /\ ~ (j <= k)
      BY <1>1, <2>2
    <3>2. Stands(s[k], d, pos + Len(f[k - 1])) /\ ~ P(k)
      BY <1>b, <2>2, <3>1
    <3> QED  BY <1>1, <3>1, <3>2 DEF P, Broken
  <2> QED  BY <2>2, <2>3
<1> DEFINE h == [k \in 0 .. n |-> IF k < j THEN ReadUpTo(vals, f, pos, k) ELSE Failed]
<1>4. IsReading(kind, d, pos, n, h)
  <2>1. h[0] = Start(pos)
    <3>1. f[0] = <<>> /\ pos + Len(<<>>) = pos /\ 0 \in 0 .. n /\ 0 < j
      BY <1>2 DEF IsJoined
    <3> QED  BY <3>1, PrefixEnds DEF ReadUpTo, Start
  <2>2. ASSUME NEW k \in 0 .. n, k # 0
        PROVE  h[k] = IF h[k - 1].ok THEN ReadNext(kind, d, h[k - 1]) ELSE Failed
    <3>1. k - 1 \in 0 .. n - 1 /\ k - 1 \in 0 .. n /\ k \in 1 .. n /\ (k - 1) + 1 = k
      BY <2>2
    <3>2. CASE k < j
      <4>1. k \in 1 .. j - 1 /\ k - 1 < j
        BY <3>1, <3>2
      <4>2. PICK m \in 0 .. Len(vals) - 1 : m = k - 1 /\ m + 1 = k
        BY <3>1
      <4>3. Stands(Put(kind, vals[m + 1]), d, pos + Len(f[m])) /\ Takeable(kind, vals[m + 1])
        BY <1>1, <1>3, <3>1, <4>1, <4>2
      <4>4. ReadNext(kind, d, ReadUpTo(vals, f, pos, m)) = ReadUpTo(vals, f, pos, m + 1)
        BY <1>a, <4>2, <4>3
      <4>5. ReadUpTo(vals, f, pos, m).ok
        BY DEF ReadUpTo
      <4> QED  BY <3>1, <3>2, <4>1, <4>2, <4>4, <4>5
    <3>3. CASE k = j
      <4> DEFINE r == ReadUpTo(vals, f, pos, k - 1)
      <4>1. r.pos = pos + Len(f[k - 1]) /\ r.ok /\ r.pos \in Nat
        <5>1. f[k - 1] \in Seq(Byte)
          BY <1>2, <3>1
        <5> QED  BY <5>1 DEF ReadUpTo
      <4>2. Broken(kind, vals[k], d, r.pos) /\ Writable(kind, vals[k])
        BY <1>3, <3>1, <3>3, <4>1 DEF AllWritable
      <4>3. ReadNext(kind, d, r) = Failed
        <5> HIDE DEF r
        <5> QED  BY <4>1, <4>2, ReadNextBroken
      <4>4. h[k] = Failed /\ h[k - 1] = r
        BY <3>1, <3>3
      <4> HIDE DEF h, r
      <4> QED  BY <4>1, <4>3, <4>4
    <3>4. CASE k > j
      <4>1. h[k] = Failed /\ h[k - 1] = Failed
        BY <3>1, <3>4
      <4> HIDE DEF h
      <4> QED  BY <4>1 DEF Failed
    <3> QED  BY <3>1, <3>2, <3>3, <3>4
  <2> QED  BY <2>1, <2>2, Zenon DEF IsReading
<1>5. ReadValues(kind, d, pos, n) = h[n]
  <2> HIDE DEF h, n
  <2> QED  BY <1>1, <1>4, ReadValuesIs
<1>6. n \in 0 .. n /\ ~ (n < j)
  BY <1>1
<1> QED  BY <1>5, <1>6

(***************************************************************************)
(* Arithmetic of words.                                                    *)
(***************************************************************************)

\* A multiple of the modulus does not show.
LEMMA ModShift ==
    ASSUME NEW m \in Nat \ {0}, NEW x \in Int, NEW q \in Int
    PROVE  (x + (m * q)) % m = x % m
<1> DEFINE a == x \div m
           r == x % m
<1>1. a \in Int /\ r \in 0 .. (m - 1) /\ x = (m * a) + r
  BY DivModInt
<1> HIDE DEF a, r
<1>2. m * (a + q) = (m * a) + (m * q) /\ a + q \in Int
  BY <1>1, ThreeFactors
<1>3. x + (m * q) = (m * (a + q)) + r
  <2>1. m * a \in Int /\ m * q \in Int /\ r \in Int
    BY <1>1
  <2> QED  BY <1>1, <1>2, <2>1
<1>4. ((m * (a + q)) + r) % m = r
  <2>1. a + q \in Int
    BY <1>1
  <2> QED  BY <1>1, <2>1, DivModUnique
<1>5. (x + (m * q)) % m = r
  BY <1>3, <1>4
<1> QED  BY <1>5 DEF r

\* Words are the remainders of 2 * HalfWord.
LEMMA WordSize == 2 * HalfWord \in Nat \ {0} /\ HalfWord \in Nat /\ Word \subseteq Nat
  BY ColumnAssumption DEF Word

\* A wrapped integer is a word.
LEMMA WrapType ==
    ASSUME NEW x \in Int
    PROVE  Wrap(x) \in Word
  BY WordSize, DivModInt DEF Wrap, Word

\* Wrapping leaves words alone.
LEMMA WrapWord ==
    ASSUME NEW x \in Word
    PROVE  Wrap(x) = x
<1>1. x \in Nat /\ 2 * HalfWord \in Nat /\ x < 2 * HalfWord
  BY ColumnAssumption DEF Word
<1> QED  BY <1>1, ModOfSmaller DEF Wrap

\* What one summand lost by wrapping does not show in the wrapped sum.
LEMMA WrapSum ==
    ASSUME NEW x \in Int, NEW y \in Int
    PROVE  Wrap(Wrap(x) + y) = Wrap(x + y)
<1> DEFINE m == 2 * HalfWord
           q == x \div m
           r == x % m
<1>1. m \in Nat \ {0}
  BY WordSize
<1> HIDE DEF m
<1>2. q \in Int /\ r \in 0 .. (m - 1) /\ x = (m * q) + r
  BY <1>1, DivModInt
<1> HIDE DEF q, r
<1>3. x + y = (r + y) + (m * q) /\ r + y \in Int
  <2>1. m * q \in Int /\ r \in Int
    BY <1>1, <1>2
  <2> QED  BY <1>2, <2>1
<1>4. ((r + y) + (m * q)) % m = (r + y) % m
  <2>1. r + y \in Int
    BY <1>3
  <2> QED  BY <1>1, <1>2, <2>1, ModShift
<1>5. (x + y) % m = (r + y) % m
  BY <1>3, <1>4
<1> QED  BY <1>5 DEF Wrap, m, r

\* The signed words.
Int64 == (-HalfWord) .. (HalfWord - 1)

\* A word and its signed reading are the same to wrapping arithmetic.
LEMMA AsInt64Facts ==
    /\ \A w \in Word : AsInt64(w) \in Int64 /\ Wrap(AsInt64(w)) = w
    /\ \A x \in Int64 : AsInt64(Wrap(x)) = x
<1> DEFINE m == 2 * HalfWord
<1>1. m \in Nat \ {0} /\ HalfWord \in Nat \ {0}
  BY ColumnAssumption
<1>2. \A x \in Int : (x + (m * 1)) % m = x % m
  <2> HIDE DEF m
  <2>1. 1 \in Int
    OBVIOUS
  <2> QED  BY <1>1, <2>1, ModShift
<1>3. ASSUME NEW w \in Word PROVE AsInt64(w) \in Int64 /\ Wrap(AsInt64(w)) = w
  <2>1. CASE w < HalfWord
    <3>1. AsInt64(w) = w /\ w \in Int64
      BY <1>1, <2>1 DEF AsInt64, Int64, Word
    <3> QED  BY <3>1, WrapWord
  <2>2. CASE ~ (w < HalfWord)
    <3>1. AsInt64(w) = w - m /\ w - m \in Int64 /\ w - m \in Int /\ (w - m) + (m * 1) = w
      BY <1>1, <2>2 DEF AsInt64, Int64, Word
    <3>2. (w - m) % m = w % m
      BY <1>2, <3>1
    <3>3. w % m = w
      BY WrapWord DEF Wrap
    <3> QED  BY <3>1, <3>2, <3>3 DEF Wrap
  <2> QED  BY <2>1, <2>2
<1>4. ASSUME NEW x \in Int64 PROVE AsInt64(Wrap(x)) = x
  <2>1. CASE x >= 0
    <3>1. x \in Word /\ x < HalfWord
      BY <1>1, <2>1 DEF Int64, Word
    <3> QED  BY <3>1, WrapWord DEF AsInt64
  <2>2. CASE ~ (x >= 0)
    <3>1. x \in Int /\ x + m \in Word /\ m * 1 = m /\ ~ (x + m < HalfWord) /\ (x + m) - m = x
      BY <1>1, <2>2 DEF Int64, Word
    <3>2. x % m = (x + m) % m
      BY <1>2, <3>1
    <3>3. (x + m) % m = x + m
      BY <3>1, WrapWord DEF Wrap
    <3>4. Wrap(x) = x + m
      BY <3>2, <3>3 DEF Wrap
    <3> QED  BY <3>1, <3>4 DEF AsInt64
  <2> QED  BY <2>1, <2>2
<1> QED  BY <1>3, <1>4

\* ZigZag puts the signed words one to one on the words.
LEMMA ZigZagFacts ==
    ASSUME NEW x \in Int64
    PROVE  ZigZag(x) \in Word /\ UnZigZag(ZigZag(x)) = x
<1>1. HalfWord \in Nat \ {0} /\ x \in Int
  BY ColumnAssumption DEF Int64
<1>2. ZigZag(x) \in Word
  BY <1>1 DEF ZigZag, Word, Int64
<1>3. UnZigZag(ZigZag(x)) = x
  BY <1>1 DEF ZigZag, UnZigZag
<1> QED  BY <1>2, <1>3

\* A wrapped difference, added and wrapped again, leads from u to v.
LEMMA DifferenceFacts ==
    ASSUME NEW u \in Word, NEW v \in Word
    PROVE  Difference(u, v) \in Int64 /\ Wrap(u + Difference(u, v)) = v
<1>1. u \in Int /\ v \in Int /\ v - u \in Int
  BY WordSize
<1>2. Wrap(v - u) \in Word
  BY <1>1, WrapType
<1>3. Difference(u, v) \in Int64 /\ Wrap(Difference(u, v)) = Wrap(v - u)
  BY <1>2, AsInt64Facts DEF Difference
<1> DEFINE e == Difference(u, v)
<1>4. e \in Int
  BY <1>1, <1>3, ColumnAssumption DEF Int64
<1> HIDE DEF e
<1>5. Wrap(Wrap(e) + u) = Wrap(e + u) /\ Wrap(Wrap(v - u) + u) = Wrap((v - u) + u)
  BY <1>1, <1>4, WrapSum
<1>6. (v - u) + u = v /\ e + u = u + e
  BY <1>1, <1>4
<1>7. Wrap(e) = Wrap(v - u)
  BY <1>3 DEF e
<1>8. Wrap(u + e) = v
  BY <1>5, <1>6, <1>7, WrapWord
<1> QED  BY <1>3, <1>8 DEF e

\* A signed word reached by a wrapping step from another one.
LEMMA SignedStep ==
    ASSUME NEW x \in Int64, NEW y \in Int64
    PROVE  /\ AsInt64(Wrap(y - x)) \in Int64
           /\ AsInt64(Wrap(x + AsInt64(Wrap(y - x)))) = y
<1>1. x \in Int /\ y \in Int /\ y - x \in Int
  BY ColumnAssumption DEF Int64
<1> DEFINE e == AsInt64(Wrap(y - x))
<1>2. e \in Int64 /\ Wrap(e) = Wrap(y - x)
  BY <1>1, WrapType, AsInt64Facts
<1>3. e \in Int
  BY <1>2, ColumnAssumption DEF Int64
<1> HIDE DEF e
<1>4. Wrap(Wrap(e) + x) = Wrap(e + x) /\ Wrap(Wrap(y - x) + x) = Wrap((y - x) + x)
  BY <1>1, <1>3, WrapSum
<1>5. (y - x) + x = y /\ e + x = x + e
  BY <1>1, <1>3
<1>6. Wrap(x + e) = Wrap(y)
  BY <1>2, <1>4, <1>5
<1>7. AsInt64(Wrap(x + e)) = y
  BY <1>6, AsInt64Facts
<1> QED  BY <1>2, <1>7 DEF e

\* Undoing the differences of a column gives the column.
LEMMA UndoIs ==
    ASSUME NEW vals \in Seq(Word), NEW first, NEW d,
           Len(vals) # 0 => first = vals[1],
           \A i \in 2 .. Len(vals) : Wrap(vals[i - 1] + d[i]) = vals[i]
    PROVE  Undo(first, d, Len(vals)) = vals
<1> DEFINE n == Len(vals)
           Eq(x) == [i \in 1 .. n |-> IF i = 1 THEN first ELSE Wrap(x[i - 1] + d[i])]
           t == CHOOSE x : x = Eq(x)
<1>1. n \in Nat /\ vals = [i \in 1 .. n |-> vals[i]]
  OBVIOUS
<1>2. Undo(first, d, n) = [i \in 1 .. n |-> t[i]]
  BY DEF Undo
<1>3. vals = Eq(vals)
  <2>1. ASSUME NEW i \in 1 .. n PROVE vals[i] = IF i = 1 THEN first ELSE Wrap(vals[i - 1] + d[i])
    <3>1. i # 1 => i \in 2 .. n
      BY <1>1
    <3>2. n # 0
      BY <1>1
    <3> QED  BY <3>1, <3>2
  <2> QED  BY <1>1, <2>1
<1>4. t = Eq(t)
  <2> HIDE DEF Eq
  <2> QED  BY <1>3
<1> HIDE DEF t
<1>5. \A i \in 1 .. n : t[i] = IF i = 1 THEN first ELSE Wrap(t[i - 1] + d[i])
  <2>1. \A i \in 1 .. n : t[i] = Eq(t)[i]
    <3> HIDE DEF Eq
    <3> QED  BY <1>4
  <2> QED  BY <2>1
<1>6. \A i \in 1 .. n : t[i] = vals[i]
  <2> DEFINE S == {k \in 0 .. n : k # 0 => t[k] = vals[k]}
  <2>1. 0 \in S
    BY <1>1
  <2>2. ASSUME NEW k \in 0 .. n - 1, k \in S PROVE k + 1 \in S
    <3>1. k + 1 \in 1 .. n /\ (k + 1) - 1 = k /\ k + 1 \in 0 .. n /\ n # 0
      BY <1>1
    <3>2. CASE k = 0
      <4>1. 1 \in 1 .. n
        BY <1>1, <3>1
      <4> QED  BY <1>5, <3>1, <3>2, <4>1
    <3>3. CASE k # 0
      <4>1. k + 1 \in 2 .. n /\ k + 1 # 1
        BY <1>1, <3>3
      <4> QED  BY <1>5, <2>2, <3>1, <3>3, <4>1
    <3> QED  BY <3>2, <3>3
  <2>3. \A k \in 0 .. n : k \in S
    <3> HIDE DEF S, n
    <3> QED  BY <1>1, <2>1, <2>2, Reaches
  <2>4. \A i \in 1 .. n : i \in 0 .. n /\ i # 0
    BY <1>1
  <2> QED  BY <2>3, <2>4
<1> HIDE DEF n
<1>7. [i \in 1 .. n |-> t[i]] = [i \in 1 .. n |-> vals[i]]
  BY <1>6
<1>8. Undo(first, d, n) = vals
  BY <1>1, <1>2, <1>7
<1> QED  BY <1>8 DEF n

(***************************************************************************)
(* The codecs that write one value behind the other.                       *)
(***************************************************************************)

\* A payload stands in itself.
LEMMA WholeStands ==
    ASSUME NEW e \in Seq(Byte)
    PROVE  Stands(e, e, 0)
<1>1. Len(e) \in Nat /\ 0 + Len(e) <= Len(e) /\ \A j \in 1 .. Len(e) : 0 + j = j
  OBVIOUS
<1> QED  BY <1>1 DEF Stands

\* Every proper prefix of a payload is the payload cut.
LEMMA PrefixIsCut ==
    ASSUME NEW e \in Seq(Byte), NEW n \in 0 .. Len(e) - 1
    PROVE  /\ SubSeq(e, 1, n) \in Seq(Byte) /\ Len(SubSeq(e, 1, n)) = n
           /\ StandsCut(e, SubSeq(e, 1, n), 0)
<1> DEFINE p == SubSeq(e, 1, n)
<1>1. p \in Seq(Byte) /\ Len(p) = n /\ \A i \in 1 .. n : p[i] = e[i]
  <2>1. 1 \in 1 .. (Len(e) + 1) /\ n \in (1 - 1) .. Len(e) /\ n \in Nat
    OBVIOUS
  <2>2. /\ SubSeq(e, 1, n) \in Seq(Byte) /\ Len(SubSeq(e, 1, n)) = n - 1 + 1
        /\ \A i \in 1 .. n - 1 + 1 : SubSeq(e, 1, n)[i] = e[1 + i - 1]
    BY <2>1, SubSeqProperties
  <2>3. n - 1 + 1 = n /\ \A i \in 1 .. n : 1 + i - 1 = i
    BY <2>1
  <2> QED  BY <2>2, <2>3
<1> HIDE DEF p
<1>2. Len(p) < 0 + Len(e)
  BY <1>1
<1>3. ASSUME NEW j \in 1 .. Len(e), 0 + j <= Len(p) PROVE p[0 + j] = e[j]
  <2>1. 0 + j = j /\ j \in 1 .. n
    BY <1>1, <1>3
  <2> QED  BY <1>1, <2>1
<1>4. StandsCut(e, p, 0)
  BY <1>2, <1>3 DEF StandsCut
<1> QED  BY <1>1, <1>4 DEF p

\* Values one behind the other are bytes.
LEMMA PutsType ==
    ASSUME NEW kind, NEW X, NEW vals \in Seq(X), AllWritable(kind, vals)
    PROVE  Puts(kind, vals) \in Seq(Byte)
<1>1. Pieces(kind, vals) \in Seq(Seq(Byte)) /\ Len(Pieces(kind, vals)) \in Nat
  BY PiecesAre
<1>2. PICK f \in [0 .. Len(Pieces(kind, vals)) -> Seq(Byte)] :
          Puts(kind, vals) = f[Len(Pieces(kind, vals))]
  BY <1>1, FlattenDef DEF Puts
<1>3. Len(Pieces(kind, vals)) \in 0 .. Len(Pieces(kind, vals))
  BY <1>1
<1> QED  BY <1>2, <1>3

\* Reading values off a payload that is nothing but these values.
LEMMA ValuesAlone ==
    ASSUME NEW kind, NEW X, NEW vals \in Seq(X), AllWritable(kind, vals)
    PROVE  LET e == Puts(kind, vals)
               r == ReadValues(kind, e, 0, Len(vals))
           IN  /\ e \in Seq(Byte)
               /\ AllTakeable(kind, vals) => r.ok /\ r.vals = vals
               /\ \A n \in 0 .. Len(e) - 1 : ReadValues(kind, SubSeq(e, 1, n), 0, Len(vals)) = Failed
<1> DEFINE e == Puts(kind, vals)
<1>1. e \in Seq(Byte)
  BY PutsType
<1>2. AllTakeable(kind, vals) =>
          ReadValues(kind, e, 0, Len(vals)) = [ok |-> TRUE, vals |-> vals, pos |-> 0 + Len(e)]
  BY <1>1, WholeStands, ValuesStand
<1>3. ASSUME NEW n \in 0 .. Len(e) - 1
      PROVE  ReadValues(kind, SubSeq(e, 1, n), 0, Len(vals)) = Failed
  <2> DEFINE p == SubSeq(e, 1, n)
  <2>1. p \in Seq(Byte) /\ Len(p) = n /\ StandsCut(e, p, 0)
    <3> HIDE DEF e
    <3> QED  BY <1>1, PrefixIsCut
  <2>2. 0 <= Len(p) /\ 0 \in Nat
    BY <2>1
  <2> HIDE DEF p
  <2>3. ReadValues(kind, p, 0, Len(vals)) = Failed
    BY <2>1, <2>2, ValuesBroken DEF AnyBroken
  <2> QED  BY <2>3 DEF p
<1> QED  BY <1>1, <1>2, <1>3

\* Words are what a reader of integers takes.
LEMMA WordsTakeable ==
    ASSUME NEW vals \in Seq(Word)
    PROVE  /\ AllTakeable("int", vals) /\ AllWritable("int", vals)
           /\ EncodeVarint(vals) = Puts("int", vals)
<1>1. ASSUME NEW i \in 1 .. Len(vals) PROVE Takeable("int", vals[i]) /\ Writable("int", vals[i])
  BY DEF Takeable, Writable
<1>2. DOMAIN vals = 1 .. Len(vals)
  OBVIOUS
<1>3. [i \in DOMAIN vals |-> AppendUvarint(vals[i])] = Pieces("int", vals)
  BY <1>2 DEF Pieces, Put
<1> QED  BY <1>1, <1>3 DEF AllTakeable, AllWritable, EncodeVarint, Puts

\* What a codec owes: all values back from its payload, and none from a
\* payload that was cut.
Exact(r, vals) == r.ok /\ r.vals = vals

\* The varint codec.
LEMMA VarintExact ==
    ASSUME NEW vals \in Seq(Word)
    PROVE  /\ EncodeVarint(vals) \in Seq(Byte)
           /\ Exact(DecodeVarint(EncodeVarint(vals), Len(vals)), vals)
           /\ \A n \in 0 .. Len(EncodeVarint(vals)) - 1 :
                 DecodeVarint(SubSeq(EncodeVarint(vals), 1, n), Len(vals)) = Failed
<1>1. /\ AllTakeable("int", vals) /\ AllWritable("int", vals)
      /\ EncodeVarint(vals) = Puts("int", vals)
  BY WordsTakeable
<1> QED  BY <1>1, ValuesAlone DEF DecodeVarint, Exact

\* Strings up to the longest that a reader takes.
ShortStrings == {s \in Seq(Byte) : Len(s) <= MaxBytesValue}

\* And of any length there is.
AnyStrings == {s \in Seq(Byte) : Len(s) \in Word}

\* Strings can be written, and taken back when they are short.
LEMMA StringsWritable ==
    ASSUME NEW vals \in Seq(AnyStrings)
    PROVE  /\ AllWritable("bytes", vals) /\ EncodeRaw(vals) = Puts("bytes", vals)
           /\ vals \in Seq(ShortStrings) => AllTakeable("bytes", vals)
<1>1. \A i \in 1 .. Len(vals) : vals[i] \in AnyStrings
  OBVIOUS
<1>2. AllWritable("bytes", vals)
  BY <1>1 DEF AllWritable, Writable, AnyStrings
<1>3. ASSUME vals \in Seq(ShortStrings) PROVE AllTakeable("bytes", vals)
  <2>1. \A i \in 1 .. Len(vals) : vals[i] \in ShortStrings
    BY <1>3
  <2> QED  BY <2>1 DEF AllTakeable, Takeable, ShortStrings
<1>4. DOMAIN vals = 1 .. Len(vals)
  OBVIOUS
<1>5. [i \in DOMAIN vals |-> AppendBytes(vals[i])] = Pieces("bytes", vals)
  BY <1>4 DEF Pieces, Put
<1> QED  BY <1>2, <1>3, <1>5 DEF EncodeRaw, Puts

\* Short strings are some of them.
LEMMA ShortIsAny == ShortStrings \subseteq AnyStrings
  BY LenIsWord DEF ShortStrings, AnyStrings

\* The raw codec.
LEMMA RawExact ==
    ASSUME NEW vals \in Seq(AnyStrings)
    PROVE  /\ EncodeRaw(vals) \in Seq(Byte)
           /\ vals \in Seq(ShortStrings) => Exact(DecodeRaw(EncodeRaw(vals), Len(vals)), vals)
           /\ \A n \in 0 .. Len(EncodeRaw(vals)) - 1 :
                 DecodeRaw(SubSeq(EncodeRaw(vals), 1, n), Len(vals)) = Failed
  BY StringsWritable, ValuesAlone DEF DecodeRaw, Exact

(***************************************************************************)
(* Differences, and differences of differences.                            *)
(***************************************************************************)

\* What the delta codec writes: a value and zigzag differences.
DeltaEntries(vals) ==
    [i \in DOMAIN vals |-> IF i = 1 THEN vals[1] ELSE ZigZag(Difference(vals[i - 1], vals[i]))]

\* These are words and keep the differences.
LEMMA DeltaEntriesAre ==
    ASSUME NEW vals \in Seq(Word)
    PROVE  /\ DeltaEntries(vals) \in Seq(Word) /\ Len(DeltaEntries(vals)) = Len(vals)
           /\ EncodeDelta(vals) = EncodeVarint(DeltaEntries(vals))
           /\ Len(vals) # 0 => DeltaEntries(vals)[1] = vals[1]
           /\ \A i \in 2 .. Len(vals) :
                 UnZigZag(DeltaEntries(vals)[i]) = Difference(vals[i - 1], vals[i])
<1> DEFINE z == DeltaEntries(vals)
<1>1. DOMAIN vals = 1 .. Len(vals) /\ Len(vals) \in Nat
  OBVIOUS
<1>2. ASSUME NEW i \in 2 .. Len(vals)
      PROVE  /\ z[i] = ZigZag(Difference(vals[i - 1], vals[i])) /\ z[i] \in Word
             /\ UnZigZag(z[i]) = Difference(vals[i - 1], vals[i])
  <2>1. i \in 1 .. Len(vals) /\ i - 1 \in 1 .. Len(vals) /\ i # 1
    BY <1>1
  <2>2. vals[i - 1] \in Word /\ vals[i] \in Word
    BY <2>1
  <2>3. Difference(vals[i - 1], vals[i]) \in Int64
    BY <2>2, DifferenceFacts
  <2>4. z[i] = ZigZag(Difference(vals[i - 1], vals[i]))
    BY <1>1, <2>1 DEF DeltaEntries
  <2> QED  BY <2>3, <2>4, ZigZagFacts
<1>3. Len(vals) # 0 => z[1] = vals[1] /\ vals[1] \in Word
  BY <1>1 DEF DeltaEntries
<1>4. \A i \in 1 .. Len(vals) : z[i] \in Word
  <2>1. \A i \in 1 .. Len(vals) : i = 1 \/ i \in 2 .. Len(vals)
    BY <1>1
  <2>2. \A i \in 1 .. Len(vals) : Len(vals) # 0
    BY <1>1
  <2> QED  BY <1>2, <1>3, <2>1, <2>2
<1>5. z \in Seq(Word) /\ Len(z) = Len(vals) /\ DOMAIN z = DOMAIN vals
  <2>1. z = [i \in 1 .. Len(vals) |-> z[i]]
    BY <1>1 DEF DeltaEntries
  <2> HIDE DEF z
  <2> QED  BY <1>1, <1>4, <2>1
<1>6. EncodeDelta(vals) = EncodeVarint(z)
  <2>1. [i \in DOMAIN vals |->
            AppendUvarint(IF i = 1 THEN vals[1] ELSE ZigZag(Difference(vals[i - 1], vals[i])))]
        = [i \in DOMAIN z |-> AppendUvarint(z[i])]
    BY <1>5 DEF DeltaEntries
  <2> QED  BY <2>1 DEF EncodeDelta, EncodeVarint
<1> QED  BY <1>2, <1>3, <1>5, <1>6

\* The delta codec.
LEMMA DeltaExact ==
    ASSUME NEW vals \in Seq(Word)
    PROVE  /\ EncodeDelta(vals) \in Seq(Byte)
           /\ Exact(DecodeDelta(EncodeDelta(vals), Len(vals)), vals)
           /\ \A n \in 0 .. Len(EncodeDelta(vals)) - 1 :
                 DecodeDelta(SubSeq(EncodeDelta(vals), 1, n), Len(vals)) = Failed
<1> DEFINE z == DeltaEntries(vals)
           e == EncodeDelta(vals)
           r == DecodeVarint(e, Len(vals))
           d == [i \in 1 .. Len(vals) |-> UnZigZag(r.vals[i])]
<1>1. /\ z \in Seq(Word) /\ Len(z) = Len(vals) /\ e = EncodeVarint(z)
      /\ Len(vals) # 0 => z[1] = vals[1]
      /\ \A i \in 2 .. Len(vals) : UnZigZag(z[i]) = Difference(vals[i - 1], vals[i])
  BY DeltaEntriesAre
<1>2. /\ e \in Seq(Byte) /\ r.ok /\ r.vals = z
      /\ \A n \in 0 .. Len(e) - 1 : DecodeVarint(SubSeq(e, 1, n), Len(vals)) = Failed
  <2> HIDE DEF z
  <2> QED  BY <1>1, VarintExact DEF Exact
<1>3. DecodeDelta(e, Len(vals)) = [ok |-> TRUE, vals |-> Undo(r.vals[1], d, Len(vals))]
  BY <1>2 DEF DecodeDelta, Then
<1>4. \A n \in 0 .. Len(e) - 1 : DecodeDelta(SubSeq(e, 1, n), Len(vals)) = Failed
  <2> HIDE DEF e
  <2> QED  BY <1>2 DEF DecodeDelta, Then, Failed
<1> HIDE DEF z, r
<1>5. Len(vals) \in Nat /\ Len(vals) # 0 => r.vals[1] = vals[1]
  BY <1>1, <1>2
<1>6. ASSUME NEW i \in 2 .. Len(vals) PROVE Wrap(vals[i - 1] + d[i]) = vals[i]
  <2>1. i \in 1 .. Len(vals) /\ i - 1 \in 1 .. Len(vals)
    OBVIOUS
  <2>2. vals[i - 1] \in Word /\ vals[i] \in Word /\ d[i] = Difference(vals[i - 1], vals[i])
    BY <1>1, <1>2, <2>1
  <2> QED  BY <2>2, DifferenceFacts
<1> HIDE DEF d
<1>7. Undo(r.vals[1], d, Len(vals)) = vals
  <2>1. Len(vals) # 0 => r.vals[1] = vals[1]
    BY <1>5
  <2> QED  BY <1>6, <2>1, UndoIs
<1> QED  BY <1>2, <1>3, <1>4, <1>7 DEF Exact

\* What the delta-of-delta codec writes.
DoDEntries(vals) ==
    [i \in DOMAIN vals |->
        IF i = 1 THEN vals[1]
        ELSE IF i = 2 THEN ZigZag(Difference(vals[1], vals[2]))
        ELSE ZigZag(AsInt64(Wrap(Difference(vals[i - 1], vals[i])
                                 - Difference(vals[i - 2], vals[i - 1]))))]

\* These are words and keep the differences of differences.
LEMMA DoDEntriesAre ==
    ASSUME NEW vals \in Seq(Word)
    PROVE  /\ DoDEntries(vals) \in Seq(Word) /\ Len(DoDEntries(vals)) = Len(vals)
           /\ EncodeDoD(vals) = EncodeVarint(DoDEntries(vals))
           /\ Len(vals) # 0 => DoDEntries(vals)[1] = vals[1]
           /\ 2 \in 1 .. Len(vals) =>
                 UnZigZag(DoDEntries(vals)[2]) = Difference(vals[1], vals[2])
           /\ \A i \in 3 .. Len(vals) :
                 AsInt64(Wrap(Difference(vals[i - 2], vals[i - 1]) + UnZigZag(DoDEntries(vals)[i])))
                 = Difference(vals[i - 1], vals[i])
<1> DEFINE z == DoDEntries(vals)
           D(i) == Difference(vals[i - 1], vals[i])
<1>1. DOMAIN vals = 1 .. Len(vals) /\ Len(vals) \in Nat
  OBVIOUS
<1>2. ASSUME NEW i \in 2 .. Len(vals) PROVE D(i) \in Int64
  <2>1. i \in 1 .. Len(vals) /\ i - 1 \in 1 .. Len(vals)
    BY <1>1
  <2>2. vals[i - 1] \in Word /\ vals[i] \in Word
    BY <2>1
  <2> QED  BY <2>2, DifferenceFacts
<1>3. ASSUME NEW i \in 3 .. Len(vals)
      PROVE  z[i] \in Word /\ AsInt64(Wrap(D(i - 1) + UnZigZag(z[i]))) = D(i)
  <2>1. i \in 1 .. Len(vals) /\ i \in 2 .. Len(vals) /\ i - 1 \in 2 .. Len(vals) /\ i # 1 /\ i # 2
        /\ (i - 1) - 1 = i - 2
    BY <1>1
  <2>2. z[i] = ZigZag(AsInt64(Wrap(D(i) - D(i - 1))))
    BY <1>1, <2>1 DEF DoDEntries
  <2>3. D(i) \in Int64 /\ D(i - 1) \in Int64
    BY <1>2, <2>1
  <2> HIDE DEF D, z
  <2>4. /\ AsInt64(Wrap(D(i) - D(i - 1))) \in Int64
        /\ AsInt64(Wrap(D(i - 1) + AsInt64(Wrap(D(i) - D(i - 1))))) = D(i)
    BY <2>3, SignedStep
  <2> QED  BY <2>2, <2>4, ZigZagFacts
<1>4. ASSUME 2 \in 1 .. Len(vals) PROVE z[2] \in Word /\ UnZigZag(z[2]) = D(2)
  <2>1. 2 \in 2 .. Len(vals) /\ 2 # 1 /\ 2 - 1 = 1
    BY <1>1, <1>4
  <2>2. z[2] = ZigZag(D(2))
    BY <1>1, <1>4, <2>1 DEF DoDEntries
  <2>3. D(2) \in Int64
    BY <1>2, <2>1
  <2> HIDE DEF D, z
  <2> QED  BY <2>2, <2>3, ZigZagFacts
<1>5. Len(vals) # 0 => z[1] = vals[1] /\ vals[1] \in Word
  BY <1>1 DEF DoDEntries
<1>6. \A i \in 1 .. Len(vals) : z[i] \in Word
  <2>1. \A i \in 1 .. Len(vals) : i = 1 \/ i = 2 \/ i \in 3 .. Len(vals)
    BY <1>1
  <2>2. \A i \in 1 .. Len(vals) : Len(vals) # 0
    BY <1>1
  <2> HIDE DEF z
  <2> QED  BY <1>3, <1>4, <1>5, <2>1, <2>2
<1>7. z \in Seq(Word) /\ Len(z) = Len(vals) /\ DOMAIN z = DOMAIN vals
  <2>1. z = [i \in 1 .. Len(vals) |-> z[i]]
    BY <1>1 DEF DoDEntries
  <2> HIDE DEF z
  <2> QED  BY <1>1, <1>6, <2>1
<1>8. EncodeDoD(vals) = EncodeVarint(z)
  <2> DEFINE entry(i) == IF i = 1 THEN vals[1]
                         ELSE IF i = 2 THEN ZigZag(Difference(vals[2 - 1], vals[2]))
                         ELSE ZigZag(AsInt64(Wrap(Difference(vals[i - 1], vals[i])
                                             - Difference(vals[(i - 1) - 1], vals[i - 1]))))
  <2>1. \A i \in DOMAIN vals : entry(i) = z[i]
    <3>1. ASSUME NEW i \in DOMAIN vals PROVE 2 - 1 = 1 /\ (i - 1) - 1 = i - 2
      BY <1>1
    <3> QED  BY <3>1 DEF DoDEntries
  <2>2. EncodeDoD(vals) = FlattenSeq([i \in DOMAIN vals |-> AppendUvarint(entry(i))])
    BY DEF EncodeDoD
  <2> HIDE DEF z, entry
  <2>3. [i \in DOMAIN vals |-> AppendUvarint(entry(i))] = [i \in DOMAIN z |-> AppendUvarint(z[i])]
    BY <1>7, <2>1
  <2> QED  BY <2>2, <2>3 DEF EncodeVarint
<1>9. \A i \in 3 .. Len(vals) : (i - 1) - 1 = i - 2
  BY <1>1
<1>10. 2 - 1 = 1
  OBVIOUS
<1> QED  BY <1>3, <1>4, <1>5, <1>7, <1>8, <1>9, <1>10

\* h[i] is the difference that leads to value i.
AreDeltas(z, n, h) ==
    /\ h = [i \in 2 .. n |-> h[i]]
    /\ 2 \in 1 .. n => h[2] = UnZigZag(z[2])
    /\ \A i \in 3 .. n : h[i] = AsInt64(Wrap(h[i - 1] + UnZigZag(z[i])))

\* The differences come back from the differences of the differences.
LEMMA DeltasAre ==
    ASSUME NEW n \in Nat, NEW z, NEW h, AreDeltas(z, n, h)
    PROVE  Deltas(z, n) = h
<1> DEFINE Eq(x) == [i \in 2 .. n |-> IF i = 2 THEN UnZigZag(z[2])
                                      ELSE AsInt64(Wrap(x[i - 1] + UnZigZag(z[i])))]
           t == CHOOSE x : x = Eq(x)
<1>1. Deltas(z, n) = t
  BY DEF Deltas
<1>2. h = Eq(h)
  <2>1. ASSUME NEW i \in 2 .. n
        PROVE  h[i] = IF i = 2 THEN UnZigZag(z[2]) ELSE AsInt64(Wrap(h[i - 1] + UnZigZag(z[i])))
    <3>1. (i = 2 => 2 \in 1 .. n) /\ (i # 2 => i \in 3 .. n)
      OBVIOUS
    <3> QED  BY <3>1 DEF AreDeltas
  <2> QED  BY <2>1 DEF AreDeltas
<1>3. t = Eq(t)
  <2> HIDE DEF Eq
  <2> QED  BY <1>2
<1> HIDE DEF t
<1>4. \A i \in 2 .. n : t[i] = IF i = 2 THEN UnZigZag(z[2])
                               ELSE AsInt64(Wrap(t[i - 1] + UnZigZag(z[i])))
  <2>1. \A i \in 2 .. n : t[i] = Eq(t)[i]
    <3> HIDE DEF Eq
    <3> QED  BY <1>3
  <2> QED  BY <2>1
<1>5. \A i \in 2 .. n : t[i] = h[i]
  <2> DEFINE S == {k \in 0 .. n : k >= 2 => t[k] = h[k]}
  <2>1. 0 \in S
    OBVIOUS
  <2>2. ASSUME NEW k \in 0 .. n - 1, k \in S PROVE k + 1 \in S
    <3>1. k + 1 \in 0 .. n /\ (k + 1) - 1 = k /\ k \in Nat
      OBVIOUS
    <3>2. CASE k + 1 < 2
      BY <3>1, <3>2
    <3>3. CASE k + 1 = 2
      <4>1. 2 \in 1 .. n /\ 2 \in 2 .. n
        BY <3>1, <3>3
      <4> QED  BY <1>4, <3>1, <3>3, <4>1 DEF AreDeltas
    <3>4. CASE k + 1 > 2
      <4>1. k + 1 \in 3 .. n /\ k + 1 \in 2 .. n /\ k + 1 # 2 /\ t[k] = h[k]
        BY <2>2, <3>1, <3>4
      <4>2. t[k + 1] = AsInt64(Wrap(t[k] + UnZigZag(z[k + 1])))
        BY <1>4, <3>1, <4>1
      <4>3. h[k + 1] = AsInt64(Wrap(h[k] + UnZigZag(z[k + 1])))
        BY <3>1, <4>1 DEF AreDeltas
      <4> QED  BY <3>1, <4>1, <4>2, <4>3
    <3> QED  BY <3>1, <3>2, <3>3, <3>4
  <2>3. \A k \in 0 .. n : k \in S
    <3> HIDE DEF S
    <3> QED  BY <2>1, <2>2, Reaches
  <2>4. \A i \in 2 .. n : i \in 0 .. n /\ i >= 2
    OBVIOUS
  <2> QED  BY <2>3, <2>4
<1>6. t = [i \in 2 .. n |-> t[i]]
  BY <1>3
<1> HIDE DEF Eq
<1> QED  BY <1>1, <1>5, <1>6 DEF AreDeltas

\* The delta-of-delta codec.
LEMMA DoDExact ==
    ASSUME NEW vals \in Seq(Word)
    PROVE  /\ EncodeDoD(vals) \in Seq(Byte)
           /\ Exact(DecodeDoD(EncodeDoD(vals), Len(vals)), vals)
           /\ \A n \in 0 .. Len(EncodeDoD(vals)) - 1 :
                 DecodeDoD(SubSeq(EncodeDoD(vals), 1, n), Len(vals)) = Failed
<1> DEFINE z == DoDEntries(vals)
           e == EncodeDoD(vals)
           r == DecodeVarint(e, Len(vals))
           h == [i \in 2 .. Len(vals) |-> Difference(vals[i - 1], vals[i])]
<1>1. /\ z \in Seq(Word) /\ Len(z) = Len(vals) /\ e = EncodeVarint(z)
      /\ Len(vals) # 0 => z[1] = vals[1]
      /\ 2 \in 1 .. Len(vals) => UnZigZag(z[2]) = Difference(vals[1], vals[2])
      /\ \A i \in 3 .. Len(vals) :
            AsInt64(Wrap(Difference(vals[i - 2], vals[i - 1]) + UnZigZag(z[i])))
            = Difference(vals[i - 1], vals[i])
  BY DoDEntriesAre
<1>2. /\ e \in Seq(Byte) /\ r.ok /\ r.vals = z
      /\ \A n \in 0 .. Len(e) - 1 : DecodeVarint(SubSeq(e, 1, n), Len(vals)) = Failed
  <2> HIDE DEF z
  <2> QED  BY <1>1, VarintExact DEF Exact
<1>3. DecodeDoD(e, Len(vals)) =
          [ok |-> TRUE, vals |-> Undo(r.vals[1], Deltas(r.vals, Len(vals)), Len(vals))]
  BY <1>2 DEF DecodeDoD, Then
<1>4. \A n \in 0 .. Len(e) - 1 : DecodeDoD(SubSeq(e, 1, n), Len(vals)) = Failed
  <2> HIDE DEF e
  <2> QED  BY <1>2 DEF DecodeDoD, Then, Failed
<1> HIDE DEF z, r
<1>5. Len(vals) \in Nat
  OBVIOUS
<1>6. Deltas(z, Len(vals)) = h
  <2>1. h = [i \in 2 .. Len(vals) |-> h[i]]
    OBVIOUS
  <2>2. 2 \in 1 .. Len(vals) => h[2] = UnZigZag(z[2])
    <3>1. 2 \in 1 .. Len(vals) => 2 \in 2 .. Len(vals)
      BY <1>5
    <3>2. 2 - 1 = 1
      OBVIOUS
    <3> QED  BY <1>1, <3>1, <3>2
  <2>3. ASSUME NEW i \in 3 .. Len(vals) PROVE h[i] = AsInt64(Wrap(h[i - 1] + UnZigZag(z[i])))
    <3>1. i \in 2 .. Len(vals) /\ i - 1 \in 2 .. Len(vals) /\ (i - 1) - 1 = i - 2
      BY <1>5
    <3>2. h[i] = Difference(vals[i - 1], vals[i]) /\ h[i - 1] = Difference(vals[i - 2], vals[i - 1])
      BY <3>1
    <3> HIDE DEF h
    <3> QED  BY <1>1, <3>2
  <2>4. AreDeltas(z, Len(vals), h)
    <3> HIDE DEF h
    <3> QED  BY <2>1, <2>2, <2>3 DEF AreDeltas
  <2> HIDE DEF h
  <2> QED  BY <1>5, <2>4, DeltasAre
<1>7. ASSUME NEW i \in 2 .. Len(vals) PROVE Wrap(vals[i - 1] + h[i]) = vals[i]
  <2>1. i \in 1 .. Len(vals) /\ i - 1 \in 1 .. Len(vals)
    BY <1>5
  <2>2. vals[i - 1] \in Word /\ vals[i] \in Word /\ h[i] = Difference(vals[i - 1], vals[i])
    BY <2>1
  <2> QED  BY <2>2, DifferenceFacts
<1> HIDE DEF h
<1>8. Undo(z[1], h, Len(vals)) = vals
  <2>1. Len(vals) # 0 => z[1] = vals[1]
    BY <1>1
  <2> QED  BY <1>7, <2>1, UndoIs
<1> QED  BY <1>2, <1>3, <1>4, <1>6, <1>8 DEF Exact

(***************************************************************************)
(* A sequence of digits of w bits codes a number.                          *)
(***************************************************************************)

\* A multiple of the divisor adds its factor to the quotient.
LEMMA DivShift ==
    ASSUME NEW m \in Nat \ {0}, NEW x \in Int, NEW q \in Int
    PROVE  (x + (m * q)) \div m = (x \div m) + q
<1> DEFINE a == x \div m
           r == x % m
<1>1. a \in Int /\ r \in 0 .. (m - 1) /\ x = (m * a) + r
  BY DivModInt
<1> HIDE DEF a, r
<1>2. m * (a + q) = (m * a) + (m * q) /\ a + q \in Int
  BY <1>1, ThreeFactors
<1>3. x + (m * q) = (m * (a + q)) + r
  <2>1. m * a \in Int /\ m * q \in Int /\ r \in Int
    BY <1>1
  <2> QED  BY <1>1, <1>2, <2>1
<1>4. ((m * (a + q)) + r) \div m = a + q
  <2>1. a + q \in Int
    BY <1>1
  <2> QED  BY <1>1, <2>1, DivModUnique
<1>5. (x + (m * q)) \div m = a + q
  BY <1>3, <1>4
<1> QED  BY <1>5 DEF a

\* What a digit of w bits counts that has m digits below it.
Weight(w, m) == Pow2[w * m]

\* A weight is a positive number.
LEMMA WeightIs ==
    ASSUME NEW w \in Nat, NEW m \in Nat
    PROVE  Weight(w, m) \in Nat \ {0} /\ w * m \in Nat
<1>1. w * m \in Nat
  BY TimesNat
<1> QED  BY <1>1, Pow2Pos DEF Weight

\* Weights multiply as digits add.
LEMMA WeightSums == \A w, m, n \in Nat : Weight(w, m + n) = Weight(w, m) * Weight(w, n)
<1> SUFFICES ASSUME NEW w \in Nat, NEW m \in Nat, NEW n \in Nat
             PROVE  Weight(w, m + n) = Weight(w, m) * Weight(w, n)
  OBVIOUS
<1>1. w * m \in Nat /\ w * n \in Nat
  BY TimesNat
<1>2. w * (m + n) = (w * m) + (w * n)
  BY ThreeFactors
<1> QED  BY <1>1, <1>2, Pow2Sum DEF Weight

\* More digits weigh at least as much.
LEMMA WeightGrows ==
    ASSUME NEW w \in Nat, NEW m \in Nat, NEW n \in Nat, m <= n
    PROVE  Weight(w, m) <= Weight(w, n)
<1> DEFINE k == n - m
<1>1. k \in Nat /\ n = m + k
  OBVIOUS
<1> HIDE DEF k
<1>2. w * m \in Nat /\ w * k \in Nat /\ w * n = (w * m) + (w * k)
  BY <1>1, TimesNat, ThreeFactors
<1>3. w * n \in Nat /\ w * m <= w * n
  BY <1>2
<1> QED  BY <1>2, <1>3, Pow2Grows DEF Weight

\* A digit in terms of weights.
LEMMA DigitIs ==
    ASSUME NEW v, NEW w \in Nat, NEW j, NEW i, i = j - 1
    PROVE  Digit(v, w, j) = (v \div Weight(w, i)) % Weight(w, 1)
<1>1. w * 1 = w
  OBVIOUS
<1> QED  BY <1>1 DEF Digit, Weight

\* Digits above m are the digits of what is above m.
LEMMA DigitShift ==
    ASSUME NEW v \in Nat, NEW w \in Nat, NEW m \in Nat, NEW j \in Nat \ {0}, NEW k, k = m + j,
           NEW u, u = v \div Weight(w, m)
    PROVE  u \in Nat /\ Digit(v, w, k) = Digit(u, w, j)
<1> DEFINE i == j - 1
           l == k - 1
           p == Weight(w, m)
           q == Weight(w, i)
           r == Weight(w, l)
<1>1. i \in Nat /\ l = m + i
  OBVIOUS
<1> HIDE DEF i, l
<1>2. p \in Nat \ {0} /\ q \in Nat \ {0} /\ r = p * q
  <2>1. r = p * q
    BY <1>1, WeightSums
  <2> QED  BY <1>1, <2>1, WeightIs
<1>3. u = v \div p
  OBVIOUS
<1>4. Digit(v, w, k) = (v \div r) % Weight(w, 1)
  BY DigitIs DEF l
<1>5. Digit(u, w, j) = (u \div q) % Weight(w, 1)
  BY DigitIs DEF i
<1> HIDE DEF p, q, r
<1>6. u \in Nat
  BY <1>2, <1>3, DivMod
<1>7. (v \div p) \div q = v \div (p * q)
  BY <1>2, DivTwice
<1> QED  BY <1>2, <1>3, <1>4, <1>5, <1>6, <1>7

\* Four natural numbers in any order.
LEMMA FactorOut ==
    ASSUME NEW x \in Nat, NEW a \in Nat, NEW p \in Nat, NEW c \in Nat
    PROVE  x * (a * (p * c)) = a * (p * (c * x)) /\ c * x \in Nat /\ p * (c * x) \in Nat
<1>1. p * c \in Nat /\ c * x \in Nat
  BY TimesNat
<1>2. p * (c * x) \in Nat
  BY <1>1, TimesNat
<1>3. x * (a * (p * c)) = (x * a) * (p * c) /\ a * (x * (p * c)) = (a * x) * (p * c)
  BY <1>1, ThreeFactors
<1>4. x * a = a * x /\ x * (p * c) = (p * c) * x
  BY <1>1, ThreeFactors
<1>5. p * (c * x) = (p * c) * x
  BY ThreeFactors
<1> QED  BY <1>1, <1>2, <1>3, <1>4, <1>5

\* Digits below m are not disturbed by what is above.
LEMMA DigitLow ==
    ASSUME NEW v \in Nat, NEW w \in Nat, NEW m \in Nat, NEW x \in Nat, NEW j \in 1 .. m,
           NEW u, u = v + (x * Weight(w, m))
    PROVE  Digit(u, w, j) = Digit(v, w, j)
<1> DEFINE i == j - 1
           l == m - j
           k == m - i
           a == Weight(w, i)
           p == Weight(w, 1)
           c == Weight(w, l)
           e == Weight(w, k)
           f == Weight(w, m)
<1>1. i \in Nat /\ l \in Nat /\ k \in Nat /\ m = i + k /\ k = 1 + l /\ 1 \in Nat
  OBVIOUS
<1>2. Digit(u, w, j) = (u \div a) % p /\ Digit(v, w, j) = (v \div a) % p
  BY DigitIs
<1> HIDE DEF i, l, k
<1>3. a \in Nat \ {0} /\ p \in Nat \ {0} /\ c \in Nat \ {0} /\ e = p * c /\ f = a * e
  <2>1. e = p * c
    BY <1>1, WeightSums
  <2>2. m \in Nat /\ f = a * e
    BY <1>1, WeightSums
  <2> QED  BY <1>1, <2>1, <2>2, WeightIs
<1>4. u = v + (x * f)
  OBVIOUS
<1> HIDE DEF a, p, c, e, f
<1> DEFINE y == c * x
           z == p * y
<1>5. y \in Nat /\ z \in Nat /\ u = v + (a * z)
  BY <1>3, <1>4, FactorOut
<1> HIDE DEF z
<1>6. (v + (a * z)) \div a = (v \div a) + z
  BY <1>3, <1>5, DivShift
<1> DEFINE d == v \div a
<1>7. d \in Nat
  BY <1>3, DivMod
<1> HIDE DEF d, y
<1>8. (d + (p * y)) % p = d % p
  <2>1. d \in Int /\ y \in Int
    BY <1>5, <1>7
  <2> QED  BY <1>3, <2>1, ModShift
<1>9. u \div a = d + (p * y)
  BY <1>5, <1>6 DEF d, z
<1> QED  BY <1>2, <1>8, <1>9 DEF d

\* A number has no digits beyond its size.
LEMMA DigitBeyond ==
    ASSUME NEW w \in Nat, NEW m \in Nat, NEW v \in Nat, v < Weight(w, m), NEW j \in Nat, j > m
    PROVE  Digit(v, w, j) = 0
<1> DEFINE i == j - 1
           p == Weight(w, i)
           q == Weight(w, 1)
<1>1. i \in Nat /\ m <= i /\ 1 \in Nat
  OBVIOUS
<1>2. Digit(v, w, j) = (v \div p) % q
  BY DigitIs
<1> HIDE DEF i
<1>3. Weight(w, m) \in Nat /\ p \in Nat /\ q \in Nat \ {0} /\ Weight(w, m) <= p
  BY <1>1, WeightIs, WeightGrows
<1> HIDE DEF p, q
<1>4. v < p
  BY <1>3
<1>5. v \div p = 0
  BY <1>3, <1>4, ModOfSmaller
<1>6. 0 % q = 0
  BY <1>3
<1> QED  BY <1>2, <1>5, <1>6

\* The digits of w bits in s, the first one the lowest, are the number v.
Codes(s, w, v) ==
    /\ v \in Nat /\ v < Weight(w, Len(s))
    /\ \A j \in 1 .. Len(s) : s[j] = Digit(v, w, j)

\* No digits are 0.
LEMMA CodesEmpty ==
    ASSUME NEW w \in Nat
    PROVE  Codes(<<>>, w, 0)
<1>1. Len(<<>>) = 0 /\ w * 0 = 0 /\ Pow2[0] = 1
  BY Pow2Next
<1> QED  BY <1>1 DEF Codes, Weight

\* Digits behind others weigh more by the number of these.
LEMMA CodesConcat ==
    ASSUME NEW S, NEW s \in Seq(S), NEW t \in Seq(S), NEW w \in Nat, NEW u, NEW v,
           Codes(s, w, u), Codes(t, w, v)
    PROVE  Codes(s \o t, w, u + (v * Weight(w, Len(s))))
<1> DEFINE m == Len(s)
           n == Len(t)
           l == Len(s \o t)
           p == Weight(w, m)
           q == Weight(w, n)
           x == u + (v * p)
<1>1. /\ m \in Nat /\ n \in Nat /\ l = m + n /\ l \in Nat
      /\ \A j \in 1 .. m : (s \o t)[j] = s[j]
      /\ \A j \in 1 .. n : (s \o t)[m + j] = t[j]
  BY ConcatFacts
<1>2. u \in Nat /\ u < p /\ v \in Nat /\ v < q
  BY DEF Codes
<1>3. /\ \A j \in 1 .. m : s[j] = Digit(u, w, j)
      /\ \A j \in 1 .. n : t[j] = Digit(v, w, j)
  BY DEF Codes
<1> HIDE DEF m, n, l
<1>4. p \in Nat \ {0} /\ q \in Nat \ {0} /\ Weight(w, l) = p * q
  <2>1. Weight(w, l) = p * q
    BY <1>1, WeightSums
  <2> QED  BY <1>1, <2>1, WeightIs
<1>5. x \in Nat /\ x < p * q /\ v = x \div p
  <2> HIDE DEF p, q
  <2>1. v * p \in Nat /\ v * p = p * v
    BY <1>2, <1>4, TimesNat
  <2>2. (p * v) + u < p * q
    BY <1>2, <1>4, DigitsLess
  <2>3. x = (p * v) + u /\ u \in 0 .. (p - 1)
    BY <1>2, <1>4, <2>1
  <2>4. ((p * v) + u) \div p = v
    <3>1. v \in Int
      BY <1>2
    <3> QED  BY <1>4, <2>3, <3>1, DivModUnique
  <2> QED  BY <1>2, <2>1, <2>2, <2>3, <2>4
<1>6. ASSUME NEW j \in 1 .. m PROVE (s \o t)[j] = Digit(x, w, j)
  <2>1. Digit(x, w, j) = Digit(u, w, j)
    BY <1>1, <1>2, DigitLow
  <2> QED  BY <1>1, <1>3, <2>1
<1> HIDE DEF x
<1>7. ASSUME NEW j \in 1 .. l PROVE (s \o t)[j] = Digit(x, w, j)
  <2>1. CASE j <= m
    <3>1. j \in 1 .. m
      BY <1>1, <2>1
    <3> QED  BY <1>6, <3>1
  <2>2. CASE ~ (j <= m)
    <3>1. PICK i \in 1 .. n : j = m + i /\ i \in Nat \ {0}
      <4>1. j - m \in 1 .. n /\ j = m + (j - m) /\ j - m \in Nat \ {0}
        BY <1>1, <2>2
      <4> QED  BY <4>1
    <3>2. Digit(x, w, j) = Digit(v, w, i)
      BY <1>1, <1>5, <3>1, DigitShift
    <3> QED  BY <1>1, <1>3, <3>1, <3>2
  <2> QED  BY <2>1, <2>2
<1> HIDE DEF p, q
<1>8. Codes(s \o t, w, x)
  BY <1>4, <1>5, <1>7 DEF Codes, l
<1> QED  BY <1>8 DEF x, p, m

\* Little-endian bytes code the number.
LEMMA LittleEndianIs ==
    ASSUME NEW v \in Nat, NEW k \in Nat
    PROVE  /\ LittleEndian(v, k) \in Seq(Byte) /\ Len(LittleEndian(v, k)) = k
           /\ v < Weight(ByteBits, k) => Codes(LittleEndian(v, k), ByteBits, v)
<1> DEFINE s == LittleEndian(v, k)
<1>1. ByteBits \in Nat /\ Byte = 0 .. (Pow2[ByteBits] - 1)
  BY ByteFacts DEF Byte, ByteSize
<1>2. s = [j \in 1 .. k |-> Digit(v, ByteBits, j)]
  BY DEF LittleEndian, Digit, ByteSize
<1>3. ASSUME NEW j \in 1 .. k PROVE Digit(v, ByteBits, j) \in Byte
  <2>1. j \in Nat \ {0}
    OBVIOUS
  <2> QED  BY <1>1, <2>1, DigitType
<1> HIDE DEF s
<1>4. s \in Seq(Byte) /\ Len(s) = k /\ \A j \in 1 .. k : s[j] = Digit(v, ByteBits, j)
  BY <1>2, <1>3
<1>5. v < Weight(ByteBits, k) => Codes(s, ByteBits, v)
  BY <1>4 DEF Codes
<1> QED  BY <1>4, <1>5 DEF s

\* What is read off bytes that code v.
LEMMA ReadLEIs ==
    ASSUME NEW s \in Seq(Byte), NEW v, Codes(s, ByteBits, v), NEW pos \in Nat, NEW k \in Nat
    PROVE  ReadLE(s, pos, k) = (v \div Weight(ByteBits, pos)) % Weight(ByteBits, k)
<1> DEFINE u == v \div Weight(ByteBits, pos)
           g == Digits(u, ByteBits, k)
           f == [j \in 1 .. k |-> IF pos + j <= Len(s) THEN s[pos + j] * Pow2[ByteBits * (j - 1)]
                                  ELSE 0]
<1>1. ByteBits \in Nat /\ Len(s) \in Nat /\ v \in Nat /\ v < Weight(ByteBits, Len(s))
      /\ \A j \in 1 .. Len(s) : s[j] = Digit(v, ByteBits, j)
  BY ByteFacts DEF Codes
<1>2. ReadLE(s, pos, k) = Total(f, k)
  BY DEF ReadLE
<1>3. u = v \div Weight(ByteBits, pos)
  OBVIOUS
<1> HIDE DEF u
<1>4. u \in Nat
  <2>1. 1 \in Nat \ {0} /\ pos + 1 = pos + 1
    OBVIOUS
  <2> QED  BY <1>1, <1>3, <2>1, DigitShift
<1>5. ASSUME NEW j \in 1 .. k PROVE f[j] = g[j]
  <2> DEFINE i == pos + j
             c == Pow2[ByteBits * (j - 1)]
  <2>1. j \in Nat \ {0} /\ i = pos + j /\ i \in Nat \ {0}
    OBVIOUS
  <2>2. Digit(v, ByteBits, i) = Digit(u, ByteBits, j)
    <3> HIDE DEF i
    <3> QED  BY <1>1, <1>3, <2>1, DigitShift
  <2>3. g[j] = Digit(u, ByteBits, j) * c
    BY DEF Digits
  <2>4. f[j] = IF i <= Len(s) THEN s[i] * c ELSE 0
    OBVIOUS
  <2>5. c \in Nat
    <3>1. ByteBits * (j - 1) \in Nat
      BY <1>1, <2>1, <1>4, DigitType
    <3> QED  BY <3>1, Pow2Pos
  <2> HIDE DEF i, f, g, c
  <2>6. CASE i <= Len(s)
    <3>1. i \in 1 .. Len(s)
      BY <1>1, <2>1, <2>6
    <3> QED  BY <1>1, <2>2, <2>3, <2>4, <2>6, <3>1
  <2>7. CASE ~ (i <= Len(s))
    <3>1. i > Len(s)
      BY <1>1, <2>1, <2>7
    <3>2. Digit(v, ByteBits, i) = 0
      BY <1>1, <2>1, <3>1, DigitBeyond
    <3>3. 0 * c = 0
      BY <2>5
    <3> QED  BY <2>2, <2>3, <2>4, <2>7, <3>2, <3>3
  <2> QED  BY <2>6, <2>7
<1>6. NatsTo(g, k)
  BY <1>1, <1>4, DigitsNat
<1>7. g = Digits(u, ByteBits, k)
  OBVIOUS
<1> HIDE DEF f, g
<1>8. Total(f, k) = Total(g, k)
  BY <1>5, <1>6, TotalSame
<1>9. Total(g, k) = u % Pow2[ByteBits * k]
  BY <1>1, <1>4, <1>7, DigitsAre
<1> QED  BY <1>2, <1>3, <1>8, <1>9 DEF Weight

(***************************************************************************)
(* The packer: the bytes it has flushed and its accumulator together code  *)
(* the number that the values code.                                        *)
(***************************************************************************)

\* The state of the packer: bytes flushed, accumulator, bits in it.
PackState == [dst : Seq(Byte), acc : Nat, nbits : 0 .. (WordBits - 1)]

\* Sizes of a byte and a word.
LEMMA WordBitsFacts ==
    /\ WordBits \in Nat \ {0} /\ ByteBits \in Nat \ {0} /\ WordBytes \in Nat \ {0}
    /\ Weight(ByteBits, WordBytes) = Pow2[WordBits]
    /\ \A n \in Nat : Pow2[n] \in Nat \ {0} /\ Weight(ByteBits, n) \in Nat \ {0}
<1>1. ByteBits \in Nat \ {0} /\ WordBits \in Nat \ {0} /\ WordBytes \in Nat \ {0}
  BY ByteFacts, EncodingAssumption
<1>2. ByteBits * WordBytes = WordBytes * ByteBits
  BY <1>1, ThreeFactors
<1>3. Weight(ByteBits, WordBytes) = Pow2[WordBits]
  BY <1>2 DEF Weight, WordBits
<1> QED  BY <1>1, <1>3, Pow2Pos, WeightIs

\* Exponents add, for all.
LEMMA PowSums == \A m, n \in Nat : Pow2[m + n] = Pow2[m] * Pow2[n]
  BY Pow2Sum

\* A word that is flushed.
LEMMA FlushIs ==
    ASSUME NEW s \in Seq(Byte), NEW u, Codes(s, ByteBits, u), NEW v \in Nat, NEW k \in Nat,
           v < Weight(ByteBits, k)
    PROVE  /\ s \o LittleEndian(v, k) \in Seq(Byte)
           /\ Len(s \o LittleEndian(v, k)) = Len(s) + k
           /\ Codes(s \o LittleEndian(v, k), ByteBits, u + (v * Weight(ByteBits, Len(s))))
<1> DEFINE t == LittleEndian(v, k)
<1>1. t \in Seq(Byte) /\ Len(t) = k /\ Codes(t, ByteBits, v)
  BY LittleEndianIs
<1>2. ByteBits \in Nat
  BY ByteFacts
<1> HIDE DEF t
<1>3. s \o t \in Seq(Byte) /\ Len(s \o t) = Len(s) + k
  BY <1>1, ConcatFacts
<1>4. Codes(s \o t, ByteBits, u + (v * Weight(ByteBits, Len(s))))
  BY <1>1, <1>2, CodesConcat
<1> QED  BY <1>3, <1>4 DEF t

\* The algebra of a value that fits in the accumulator.
LEMMA FitsAbove ==
    ASSUME NEW u \in Nat, NEW p \in Nat, NEW q \in Nat, NEW v \in Nat, NEW x \in Nat
    PROVE  (u + (v * p)) + (x * (p * q)) = u + ((v + (x * q)) * p)
<1>1. p * q \in Nat /\ x * q \in Nat /\ v * p \in Nat
  BY TimesNat
<1>2. (x * q) * p \in Nat
  BY <1>1, TimesNat
<1>3. x * (p * q) = (x * q) * p
  <2>1. p * q = q * p /\ x * (q * p) = (x * q) * p
    BY ThreeFactors
  <2> QED  BY <2>1
<1>4. (v + (x * q)) * p = (v * p) + ((x * q) * p)
  <2>1. v + (x * q) \in Nat
    BY <1>1
  <2>2. (v + (x * q)) * p = p * (v + (x * q)) /\ p * (v + (x * q)) = (p * v) + (p * (x * q))
        /\ p * v = v * p /\ p * (x * q) = (x * q) * p
    BY <1>1, <2>1, ThreeFactors
  <2> QED  BY <2>2
<1> DEFINE y == v * p
           z == (x * q) * p
<1> HIDE DEF y, z
<1>5. y \in Nat /\ z \in Nat
  BY <1>1, <1>2 DEF y, z
<1>6. (u + y) + z = u + (y + z)
  BY <1>5
<1> QED  BY <1>3, <1>4, <1>6 DEF y, z

\* The algebra of a value that crosses to the next word.
LEMMA FitsAcross ==
    \A u, p, q, v, f, hi, lo \in Nat :
        (u + (v * p)) + (((f * hi) + lo) * (p * q))
        = (u + ((v + (lo * q)) * p)) + (hi * (p * (q * f)))
<1> SUFFICES ASSUME NEW u \in Nat, NEW p \in Nat, NEW q \in Nat, NEW v \in Nat, NEW f \in Nat,
                    NEW hi \in Nat, NEW lo \in Nat
             PROVE  (u + (v * p)) + (((f * hi) + lo) * (p * q))
                    = (u + ((v + (lo * q)) * p)) + (hi * (p * (q * f)))
  OBVIOUS
<1> DEFINE y == p * q
<1>1. y \in Nat /\ f * hi \in Nat /\ v * p \in Nat
  BY TimesNat
<1>2. (u + (v * p)) + (lo * y) = u + ((v + (lo * q)) * p)
  BY FitsAbove
<1>3. p * (q * f) = y * f
  BY ThreeFactors
<1> HIDE DEF y
<1>4. ((f * hi) + lo) * y = ((f * hi) * y) + (lo * y)
  <2>1. (f * hi) + lo \in Nat
    BY <1>1
  <2>2. ((f * hi) + lo) * y = y * ((f * hi) + lo)
        /\ y * ((f * hi) + lo) = (y * (f * hi)) + (y * lo)
        /\ y * (f * hi) = (f * hi) * y /\ y * lo = lo * y
    BY <1>1, <2>1, ThreeFactors
  <2> QED  BY <2>2
<1>5. (f * hi) * y = hi * (y * f)
  <2>1. y * f \in Nat
    BY <1>1, TimesNat
  <2>2. (f * hi) * y = y * (f * hi) /\ y * (f * hi) = (y * f) * hi /\ (y * f) * hi = hi * (y * f)
    BY <1>1, <2>1, ThreeFactors
  <2> QED  BY <2>2
<1> DEFINE a == u + (v * p)
           c == (f * hi) * y
           d == lo * y
<1>6. a \in Nat /\ c \in Nat /\ d \in Nat
  BY <1>1, TimesNat
<1> HIDE DEF a, c, d
<1>7. a + (c + d) = (a + d) + c
  BY <1>6
<1> QED  BY <1>2, <1>3, <1>4, <1>5, <1>7 DEF a, c, d

\* After k values of w bits that code v.
Packs(s, w, k, v) ==
    /\ s \in PackState
    /\ s.acc < Pow2[s.nbits]
    /\ (ByteBits * Len(s.dst)) + s.nbits = w * k
    /\ \E u : Codes(s.dst, ByteBits, u) /\ v = u + (s.acc * Weight(ByteBits, Len(s.dst)))

\* The packer starts with nothing.
LEMMA PacksStart ==
    ASSUME NEW w \in Nat
    PROVE  Packs([dst |-> <<>>, acc |-> 0, nbits |-> 0], w, 0, 0)
<1> DEFINE s == [dst |-> <<>>, acc |-> 0, nbits |-> 0]
<1>1. s \in PackState /\ s.acc = 0 /\ s.nbits = 0 /\ s.dst = <<>> /\ Len(<<>>) = 0
  <2>1. WordBits \in Nat \ {0} /\ <<>> \in Seq(Byte)
    BY WordBitsFacts
  <2> QED  BY <2>1 DEF PackState
<1>2. 0 < Pow2[0] /\ ByteBits * 0 = 0 /\ w * 0 = 0 /\ ByteBits \in Nat
  BY Pow2Next, ByteFacts
<1>3. Codes(<<>>, ByteBits, 0)
  BY <1>2, CodesEmpty
<1>4. 0 * Weight(ByteBits, 0) = 0
  BY WordBitsFacts
<1> HIDE DEF s
<1>5. 0 = 0 + (0 * Weight(ByteBits, Len(s.dst)))
  BY <1>1, <1>4
<1> QED  BY <1>1, <1>2, <1>3, <1>5 DEF Packs, s

\* A full accumulator is flushed.
Full(s) == IF s.nbits = WordBits
           THEN [dst |-> s.dst \o LittleEndian(s.acc, WordBytes), acc |-> 0, nbits |-> 0]
           ELSE s

\* One value leaves the packer in a state of its type.
LEMMA PackOneType ==
    ASSUME NEW s \in PackState, NEW x \in Nat, NEW w \in 1 .. WordBits
    PROVE  /\ PackOne(s, x, w) \in PackState
           /\ LET free == WordBits - s.nbits
                  a == s.acc + (x * Pow2[s.nbits])
                  c == s.acc + ((x % Pow2[free]) * Pow2[s.nbits])
              IN  /\ free \in 1 .. WordBits
                  /\ x % Pow2[free] \in Nat /\ x \div Pow2[free] \in Nat /\ a \in Nat /\ c \in Nat
                  /\ PackOne(s, x, w) =
                        IF w <= free
                        THEN IF s.nbits + w = WordBits
                             THEN [dst |-> s.dst \o LittleEndian(a, WordBytes), acc |-> 0, nbits |-> 0]
                             ELSE [dst |-> s.dst, acc |-> a, nbits |-> s.nbits + w]
                        ELSE [dst |-> s.dst \o LittleEndian(c, WordBytes),
                              acc |-> x \div Pow2[free], nbits |-> w - free]
<1> DEFINE free == WordBits - s.nbits
           e == Pow2[s.nbits]
           f == Pow2[free]
           lo == x % f
           hi == x \div f
           a == s.acc + (x * e)
           c == s.acc + (lo * e)
<1>1. s.dst \in Seq(Byte) /\ s.acc \in Nat /\ s.nbits \in 0 .. (WordBits - 1)
      /\ s = [dst |-> s.dst, acc |-> s.acc, nbits |-> s.nbits] /\ WordBits \in Nat
      /\ WordBytes \in Nat
  BY WordBitsFacts DEF PackState
<1>2. free \in 1 .. WordBits /\ free \in Nat /\ s.nbits \in Nat
  BY <1>1
<1>3. e \in Nat \ {0} /\ f \in Nat \ {0}
  <2> HIDE DEF free
  <2> QED  BY <1>2, Pow2Pos
<1>4. lo \in Nat /\ hi \in Nat
  <2>1. f \in Nat \ {0}
    BY <1>3
  <2> HIDE DEF f
  <2>2. x \div f \in Nat /\ x % f \in 0 .. (f - 1)
    BY <2>1, DivMod
  <2> QED  BY <2>1, <2>2
<1>5. a \in Nat /\ c \in Nat
  <2> HIDE DEF e, lo
  <2>1. x * e \in Nat /\ lo * e \in Nat
    BY <1>3, <1>4, TimesNat
  <2> QED  BY <1>1, <2>1
<1>6. \A y \in Nat : s.dst \o LittleEndian(y, WordBytes) \in Seq(Byte)
  <2> SUFFICES ASSUME NEW y \in Nat PROVE s.dst \o LittleEndian(y, WordBytes) \in Seq(Byte)
    OBVIOUS
  <2>1. LittleEndian(y, WordBytes) \in Seq(Byte)
    BY <1>1, LittleEndianIs
  <2> QED  BY <1>1, <2>1, ConcatFacts
<1> DEFINE t == IF w <= free THEN [s EXCEPT !.acc = @ + x * Pow2[s.nbits], !.nbits = @ + w]
                ELSE Cross(s, x, w)
<1>7. PackOne(s, x, w) = Full(t)
  BY DEF PackOne, Full
<1>8. CASE w <= free
  <2>1. t = [dst |-> s.dst, acc |-> a, nbits |-> s.nbits + w]
    BY <1>1, <1>8
  <2> HIDE DEF t, a
  <2>2. t.nbits = s.nbits + w /\ t.acc = a /\ t.dst = s.dst
    BY <2>1
  <2>3. PackOne(s, x, w) =
            IF s.nbits + w = WordBits
            THEN [dst |-> s.dst \o LittleEndian(a, WordBytes), acc |-> 0, nbits |-> 0]
            ELSE [dst |-> s.dst, acc |-> a, nbits |-> s.nbits + w]
    BY <1>7, <2>1, <2>2 DEF Full
  <2>4. s.nbits + w # WordBits => s.nbits + w \in 0 .. (WordBits - 1)
    BY <1>1, <1>2, <1>8
  <2>5. 0 \in 0 .. (WordBits - 1)
    BY <1>1
  <2>6. PackOne(s, x, w) \in PackState
    <3>1. CASE s.nbits + w = WordBits
      BY <1>5, <1>6, <2>3, <2>5, <3>1 DEF PackState
    <3>2. CASE s.nbits + w # WordBits
      BY <1>1, <1>5, <2>3, <2>4, <3>2 DEF PackState
    <3> QED  BY <3>1, <3>2
  <2> QED  BY <1>2, <1>4, <1>5, <1>8, <2>3, <2>6 DEF a
<1>9. CASE ~ (w <= free)
  <2>1. t = [dst |-> s.dst \o LittleEndian(c, WordBytes), acc |-> hi, nbits |-> w - free]
    BY <1>9 DEF Cross
  <2>2. w - free \in 0 .. (WordBits - 1) /\ w - free # WordBits
    BY <1>1, <1>2, <1>9
  <2> HIDE DEF t, c, hi
  <2>3. t.nbits = w - free
    BY <2>1
  <2>4. PackOne(s, x, w) = t
    BY <1>7, <2>2, <2>3 DEF Full
  <2>5. t \in PackState
    BY <1>4, <1>5, <1>6, <2>1, <2>2 DEF PackState
  <2> QED  BY <1>2, <1>4, <1>5, <1>9, <2>1, <2>4, <2>5 DEF c, hi
<1> QED  BY <1>8, <1>9

\* One more value: it goes behind the others, also across a word.
LEMMA PacksStep ==
    ASSUME NEW w \in 1 .. WordBits, NEW s, NEW k \in Nat, NEW v, Packs(s, w, k, v),
           NEW x \in Nat, x < Pow2[w]
    PROVE  Packs(PackOne(s, x, w), w, k + 1, v + (x * Weight(w, k)))
<1> DEFINE L == Len(s.dst)
           free == WordBits - s.nbits
           p == Weight(ByteBits, L)
           q == Pow2[s.nbits]
           f == Pow2[free]
           m == Pow2[WordBits]
           lo == x % f
           hi == x \div f
           full == s.acc + (x * q)
           part == s.acc + (lo * q)
           t == PackOne(s, x, w)
<1>1. s \in PackState /\ s.acc < q /\ (ByteBits * L) + s.nbits = w * k
  BY DEF Packs
<1>2. PICK u : Codes(s.dst, ByteBits, u) /\ v = u + (s.acc * p)
  BY DEF Packs
<1>3. /\ s.dst \in Seq(Byte) /\ s.acc \in Nat /\ s.nbits \in 0 .. (WordBits - 1) /\ L \in Nat
      /\ u \in Nat /\ w \in Nat /\ s.nbits \in Nat
  BY <1>1, <1>2, WordBitsFacts DEF PackState, Codes
<1>4. /\ t \in PackState /\ free \in 1 .. WordBits /\ lo \in Nat /\ hi \in Nat
      /\ full \in Nat /\ part \in Nat
      /\ t = IF w <= free
             THEN IF s.nbits + w = WordBits
                  THEN [dst |-> s.dst \o LittleEndian(full, WordBytes), acc |-> 0, nbits |-> 0]
                  ELSE [dst |-> s.dst, acc |-> full, nbits |-> s.nbits + w]
             ELSE [dst |-> s.dst \o LittleEndian(part, WordBytes), acc |-> hi, nbits |-> w - free]
  BY <1>1, PackOneType, Zenon
<1> HIDE DEF t
<1>5. free \in Nat /\ s.nbits + free = WordBits /\ free + s.nbits = WordBits
  <2>1. WordBits \in Nat
    BY WordBitsFacts
  <2>2. s.nbits \in Nat /\ s.nbits <= WordBits
    BY <1>3, <2>1
  <2> HIDE DEF L, p, q, f, m, lo, hi, full, part
  <2> QED  BY <2>1, <2>2
<1>6. /\ p \in Nat \ {0} /\ q \in Nat \ {0} /\ f \in Nat \ {0} /\ m \in Nat \ {0}
      /\ Weight(ByteBits, WordBytes) = m /\ q * f = m /\ Weight(w, k) = p * q
      /\ Weight(ByteBits, L + WordBytes) = p * m
  <2>1. ByteBits \in Nat /\ WordBytes \in Nat /\ WordBits \in Nat /\ ByteBits * L \in Nat
    BY <1>3, WordBitsFacts, TimesNat
  <2>2. q * f = m
    <3>1. Pow2[s.nbits + free] = Pow2[s.nbits] * Pow2[free]
      <4>1. s.nbits \in Nat /\ free \in Nat
        BY <1>3, <1>5
      <4> HIDE DEF free
      <4> QED  BY <4>1, PowSums, Zenon
    <3> QED  BY <1>5, <3>1
  <2>3. Weight(w, k) = p * q
    <3>1. Pow2[(ByteBits * L) + s.nbits] = Pow2[ByteBits * L] * Pow2[s.nbits]
      <4>1. s.nbits \in Nat /\ ByteBits * L \in Nat
        BY <1>3, <2>1
      <4> QED  BY <4>1, PowSums, Zenon
    <3> QED  BY <1>1, <3>1 DEF Weight
  <2>4. Weight(ByteBits, L + WordBytes) = p * Weight(ByteBits, WordBytes)
    <3>1. L \in Nat /\ ByteBits \in Nat /\ WordBytes \in Nat
      BY <1>3, <2>1
    <3> HIDE DEF L, q, f, m
    <3> QED  BY <3>1, WeightSums, Zenon DEF p
  <2> HIDE DEF L, free
  <2> QED  BY <1>3, <1>5, <2>1, <2>2, <2>3, <2>4, WordBitsFacts
<1> HIDE DEF p, q, f, m
<1>7. x = (f * hi) + lo /\ lo < f
  <2>1. x = (f * (x \div f)) + (x % f) /\ x % f \in 0 .. (f - 1)
    BY <1>6, DivMod
  <2> QED  BY <1>6, <2>1
<1>8. /\ w * k \in Nat /\ w * (k + 1) = (w * k) + w /\ ByteBits * L \in Nat
      /\ ByteBits * (L + WordBytes) = (ByteBits * L) + WordBits
      /\ WordBits \in Nat /\ WordBytes \in Nat
  <2>1. ByteBits \in Nat /\ WordBytes \in Nat /\ WordBits = ByteBits * WordBytes
    BY WordBitsFacts, ThreeFactors DEF WordBits
  <2> HIDE DEF L
  <2>2. ByteBits * (L + WordBytes) = (ByteBits * L) + (ByteBits * WordBytes)
    BY <1>3, <2>1, ThreeFactors
  <2>3. w * (k + 1) = (w * k) + w
    <3>1. w * (k + 1) = (w * k) + (w * 1) /\ w * 1 = w
      BY <1>3, ThreeFactors
    <3> QED  BY <3>1
  <2> QED  BY <1>3, <2>1, <2>2, <2>3, TimesNat
<1> DEFINE BL == ByteBits * L
           Bl == ByteBits * (L + WordBytes)
           wk == w * k
           wl == w * (k + 1)
<1>a. BL + s.nbits = wk /\ BL \in Nat /\ wk \in Nat /\ wl = wk + w /\ Bl = BL + WordBits
  BY <1>1, <1>8
<1>9. Packs(t, w, k + 1, v + (x * Weight(w, k)))
  <2>1. CASE w <= free
    <3>1. v + (x * Weight(w, k)) = u + (full * p)
      <4> HIDE DEF L, free
      <4>1. (u + (s.acc * p)) + (x * (p * q)) = u + ((s.acc + (x * q)) * p)
        BY <1>3, <1>6, FitsAbove
      <4> QED  BY <1>2, <1>6, <4>1
    <3>2. full < Pow2[s.nbits + w]
      <4>1. Pow2[s.nbits + w] = Pow2[s.nbits] * Pow2[w] /\ Pow2[w] \in Nat
        BY <1>3, PowSums, Pow2Pos
      <4>2. (q * x) + s.acc < q * Pow2[w]
        BY <1>1, <1>3, <1>6, <4>1, DigitsLess
      <4>3. q * x = x * q /\ q * x \in Nat
        BY <1>6, TimesNat
      <4> QED  BY <1>3, <4>1, <4>2, <4>3 DEF q
    <3>3. CASE s.nbits + w = WordBits
      <4> DEFINE d == s.dst \o LittleEndian(full, WordBytes)
      <4>1. t = [dst |-> d, acc |-> 0, nbits |-> 0]
        BY <1>4, <2>1, <3>3
      <4>2. full < Weight(ByteBits, WordBytes)
        BY <1>6, <3>2, <3>3 DEF m
      <4>3. d \in Seq(Byte) /\ Len(d) = L + WordBytes /\ Codes(d, ByteBits, u + (full * p))
        <5>1. full \in Nat /\ s.dst \in Seq(Byte) /\ WordBytes \in Nat /\ Codes(s.dst, ByteBits, u)
          BY <1>2, <1>3, <1>4, <1>8
        <5> HIDE DEF full
        <5> QED  BY <4>2, <5>1, FlushIs DEF p
      <4>4. u + (full * p) = (u + (full * p)) + (0 * Weight(ByteBits, L + WordBytes))
        <5>1. full * p \in Nat /\ p * m \in Nat
          BY <1>4, <1>6, TimesNat
        <5> DEFINE y == full * p
        <5>2. 0 * Weight(ByteBits, L + WordBytes) = 0
          BY <1>6, <5>1
        <5> HIDE DEF y
        <5>3. u + y = (u + y) + 0
          BY <1>3, <5>1 DEF y
        <5> QED  BY <5>2, <5>3 DEF y
      <4>5. Bl + 0 = wl
        <5> HIDE DEF L, BL, Bl, wk, wl
        <5> QED  BY <1>a, <1>3, <1>8, <3>3
      <4>6. 0 < Pow2[0]
        BY Pow2Next
      <4> HIDE DEF d, full, L
      <4>7. t.dst = d /\ t.acc = 0 /\ t.nbits = 0
        BY <4>1
      <4> QED  BY <1>4, <3>1, <4>3, <4>4, <4>5, <4>6, <4>7 DEF Packs
    <3>4. CASE s.nbits + w # WordBits
      <4>1. t = [dst |-> s.dst, acc |-> full, nbits |-> s.nbits + w]
        BY <1>4, <2>1, <3>4
      <4> HIDE DEF full
      <4>2. t.dst = s.dst /\ t.acc = full /\ t.nbits = s.nbits + w
        BY <4>1
      <4>3. BL + (s.nbits + w) = wl
        <5> HIDE DEF L, BL, Bl, wk, wl
        <5> QED  BY <1>a, <1>3
      <4> QED  BY <1>2, <1>4, <3>1, <3>2, <4>2, <4>3 DEF Packs, p
    <3> QED  BY <3>3, <3>4
  <2>2. CASE ~ (w <= free)
    <3> DEFINE d == s.dst \o LittleEndian(part, WordBytes)
    <3>1. t = [dst |-> d, acc |-> hi, nbits |-> w - free]
      BY <1>4, <2>2
    <3>2. v + (x * Weight(w, k)) = (u + (part * p)) + (hi * Weight(ByteBits, L + WordBytes))
      <4> HIDE DEF L, free, hi, lo, full, d
      <4>0. u \in Nat /\ p \in Nat /\ q \in Nat /\ s.acc \in Nat /\ f \in Nat /\ hi \in Nat /\ lo \in Nat
        BY <1>3, <1>4, <1>6
      <4>1. (u + (s.acc * p)) + (((f * hi) + lo) * (p * q))
            = (u + ((s.acc + (lo * q)) * p)) + (hi * (p * (q * f)))
        BY <4>0, FitsAcross
      <4> QED  BY <1>2, <1>6, <1>7, <4>1
    <3>3. part < Weight(ByteBits, WordBytes)
      <4> HIDE DEF lo
      <4>1. (q * lo) + s.acc < q * f
        BY <1>1, <1>3, <1>4, <1>6, <1>7, DigitsLess
      <4>2. q * lo = lo * q /\ q * lo \in Nat
        BY <1>4, <1>6, TimesNat
      <4> QED  BY <1>3, <1>6, <4>1, <4>2
    <3>4. hi < Pow2[w - free]
      <4>1. w - free \in Nat /\ free + (w - free) = w
        BY <1>3, <1>5, <2>2
      <4>2. Pow2[free + (w - free)] = Pow2[free] * Pow2[w - free] /\ Pow2[w - free] \in Nat
        BY <1>5, <4>1, PowSums, Pow2Pos
      <4> DEFINE g == Pow2[w - free]
      <4>3. (f * hi) + lo < f * g
        BY <1>7, <4>1, <4>2 DEF f
      <4>4. g \in Nat
        BY <4>2
      <4> HIDE DEF g, hi, lo
      <4>5. ~ (g <= hi)
        <5> SUFFICES ASSUME g <= hi PROVE FALSE
          OBVIOUS
        <5>1. PICK y \in Nat : hi = g + y
          <6>1. hi - g \in Nat /\ hi = g + (hi - g)
            BY <1>4, <4>4
          <6> QED  BY <6>1
        <5>2. f * hi = (f * g) + (f * y) /\ f * g \in Nat /\ f * y \in Nat
          BY <1>6, <4>4, <5>1, ThreeFactors, TimesNat
        <5> QED  BY <1>4, <4>3, <5>2
      <4> QED  BY <1>4, <4>4, <4>5 DEF g
    <3>5. d \in Seq(Byte) /\ Len(d) = L + WordBytes /\ Codes(d, ByteBits, u + (part * p))
      <4>1. part \in Nat /\ s.dst \in Seq(Byte) /\ WordBytes \in Nat /\ Codes(s.dst, ByteBits, u)
        BY <1>2, <1>3, <1>4, <1>8
      <4> HIDE DEF part
      <4> QED  BY <3>3, <4>1, FlushIs DEF p
    <3>6. Bl + (w - free) = wl
      <4> DEFINE z == s.nbits
      <4> HIDE DEF L, BL, Bl, wk, wl
      <4>1. z \in Nat /\ w \in Nat /\ WordBits \in Nat
        BY <1>3, <1>5, <1>8
      <4>2. free = WordBits - z
        OBVIOUS
      <4>3. BL + z = wk /\ BL \in Nat /\ wk \in Nat /\ wl = wk + w /\ Bl = BL + WordBits
        BY <1>a
      <4> HIDE DEF z, free
      <4> QED  BY <4>1, <4>2, <4>3
    <3> HIDE DEF d, part, hi, L
    <3>7. t.dst = d /\ t.acc = hi /\ t.nbits = w - free
      BY <3>1
    <3> QED  BY <1>4, <3>2, <3>4, <3>5, <3>6, <3>7 DEF Packs
  <2> QED  BY <2>1, <2>2
<1> QED  BY <1>9 DEF t

\* A sequence with one digit more.
LEMMA CodesOne ==
    ASSUME NEW w \in Nat, NEW x \in Nat, x < Pow2[w]
    PROVE  Codes(<<x>>, w, x)
<1>1. Len(<<x>>) = 1 /\ <<x>>[1] = x /\ w * 1 = w /\ Pow2[0] = 1 /\ w * 0 = 0 /\ 1 - 1 = 0
  BY Pow2Next
<1>2. Digit(x, w, 1) = (x \div 1) % Pow2[w]
  BY <1>1 DEF Digit
<1>3. x \div 1 = x
  OBVIOUS
<1>4. Pow2[w] \in Nat
  BY Pow2Pos
<1>5. x % Pow2[w] = x
  BY <1>4, ModOfSmaller
<1> QED  BY <1>1, <1>2, <1>3, <1>5 DEF Codes, Weight

\* What is packed of values: their low w bits.
Masked(vals, w) == [i \in 1 .. Len(vals) |-> vals[i] % Pow2[w]]

\* The loop of the packer is an iteration.
LEMMA PackerDef ==
    ASSUME NEW vals \in Seq(Nat), NEW w \in 1 .. WordBits
    PROVE  \E t : /\ Packer(vals, w) = t[Len(vals)]
                  /\ t[0] = [dst |-> <<>>, acc |-> 0, nbits |-> 0]
                  /\ \A k \in 1 .. Len(vals) : t[k] = PackOne(t[k - 1], vals[k] % Pow2[w], w)
<1> DEFINE n == Len(vals)
           base == [dst |-> <<>>, acc |-> 0, nbits |-> 0]
           g == [p \in (1 .. n) \X PackState |-> PackOne(p[2], vals[p[1]] % Pow2[w], w)]
           Eq(h) == [k \in 0 .. n |-> IF k = 0 THEN base ELSE PackOne(h[k - 1], vals[k] % Pow2[w], w)]
           t == CHOOSE h : h = Eq(h)
<1>1. n \in Nat /\ \A k \in 1 .. n : vals[k] \in Nat
  OBVIOUS
<1>2. base \in PackState
  BY PacksStart DEF Packs
<1>3. ASSUME NEW k \in 1 .. n, NEW x \in PackState
      PROVE  g[<<k, x>>] = PackOne(x, vals[k] % Pow2[w], w) /\ g[<<k, x>>] \in PackState
  <2>1. g[<<k, x>>] = PackOne(x, vals[k] % Pow2[w], w)
    <3>1. <<k, x>> \in (1 .. n) \X PackState
      OBVIOUS
    <3> HIDE DEF n
    <3> QED  BY <3>1
  <2>2. vals[k] % Pow2[w] \in Nat
    <3>1. Pow2[w] \in Nat \ {0} /\ vals[k] \in Nat
      BY <1>1, Pow2Pos
    <3>2. vals[k] % Pow2[w] \in 0 .. (Pow2[w] - 1)
      BY <3>1, DivMod
    <3> QED  BY <3>1, <3>2
  <2>3. PackOne(x, vals[k] % Pow2[w], w) \in PackState
    BY <2>2, PackOneType
  <2> QED  BY <2>1, <2>3
<1> HIDE DEF g
<1>4. PICK f \in [0 .. n -> PackState] : IsIteration(f, n, base, g)
  <2> HIDE DEF n, base
  <2> QED  BY <1>1, <1>2, <1>3, Iterates
<1>5. f = Eq(f)
  <2>1. f[0] = base
    BY <1>4 DEF IsIteration
  <2>2. ASSUME NEW k \in 1 .. n PROVE f[k] = PackOne(f[k - 1], vals[k] % Pow2[w], w)
    <3>1. k - 1 \in 0 .. n
      BY <1>1
    <3>2. f[k - 1] \in PackState /\ f[k] = g[<<k, f[k - 1]>>]
      BY <1>4, <3>1 DEF IsIteration
    <3> HIDE DEF n
    <3> QED  BY <1>3, <3>2
  <2>3. \A k \in 0 .. n : k = 0 \/ k \in 1 .. n
    BY <1>1
  <2> HIDE DEF n, base
  <2>4. f = [k \in 0 .. n |-> f[k]]
    BY <1>4
  <2>5. \A k \in 0 .. n : f[k] = IF k = 0 THEN base ELSE PackOne(f[k - 1], vals[k] % Pow2[w], w)
    <3>1. \A k \in 1 .. n : k # 0
      BY <1>1
    <3> QED  BY <2>1, <2>2, <2>3
  <2> QED  BY <2>4, <2>5
<1>6. t = Eq(t)
  <2> HIDE DEF Eq
  <2> QED  BY <1>5
<1>7. Packer(vals, w) = t[n]
  BY DEF Packer
<1> HIDE DEF t
<1>8. t[0] = base
  <2>1. 0 \in 0 .. n
    BY <1>1
  <2>2. t[0] = Eq(t)[0]
    <3> HIDE DEF Eq
    <3> QED  BY <1>6
  <2> HIDE DEF base
  <2> QED  BY <2>1, <2>2
<1>9. ASSUME NEW k \in 1 .. n PROVE t[k] = PackOne(t[k - 1], vals[k] % Pow2[w], w)
  <2>1. k \in 0 .. n /\ k # 0
    BY <1>1
  <2>2. t[k] = Eq(t)[k]
    <3> HIDE DEF Eq
    <3> QED  BY <1>6
  <2> HIDE DEF base
  <2> QED  BY <2>1, <2>2
<1> QED  BY <1>7, <1>8, <1>9

\* After all values the packer has the number that they code.
LEMMA PackerIs ==
    ASSUME NEW vals \in Seq(Nat), NEW w \in 1 .. WordBits
    PROVE  \E v : Packs(Packer(vals, w), w, Len(vals), v) /\ Codes(Masked(vals, w), w, v)
<1> DEFINE n == Len(vals)
           x(k) == vals[k] % Pow2[w]
           pre(k) == [i \in 1 .. k |-> x(i)]
<1>1. n \in Nat /\ w \in Nat /\ \A k \in 1 .. n : vals[k] \in Nat
  <2>1. w \in Nat
    <3>1. WordBits \in Nat
      BY WordBitsFacts
    <3> QED  BY <3>1
  <2>2. n \in Nat /\ \A k \in 1 .. n : vals[k] \in Nat
    OBVIOUS
  <2> QED  BY <2>1, <2>2
<1>2. PICK t : /\ Packer(vals, w) = t[n]
               /\ t[0] = [dst |-> <<>>, acc |-> 0, nbits |-> 0]
               /\ \A k \in 1 .. n : t[k] = PackOne(t[k - 1], x(k), w)
  BY PackerDef
<1>3. ASSUME NEW k \in 1 .. n PROVE x(k) \in Nat /\ x(k) < Pow2[w]
  <2>1. Pow2[w] \in Nat \ {0} /\ vals[k] \in Nat
    BY <1>1, Pow2Pos
  <2>2. vals[k] % Pow2[w] \in 0 .. (Pow2[w] - 1)
    BY <2>1, DivMod
  <2> QED  BY <2>1, <2>2
<1> HIDE DEF x
<1> DEFINE S == {k \in 0 .. n : \E v : Packs(t[k], w, k, v) /\ Codes(pre(k), w, v)}
<1>4. 0 \in S
  <2>1. pre(0) = <<>> /\ 0 \in 0 .. n
    BY <1>1
  <2>2. Packs(t[0], w, 0, 0) /\ Codes(<<>>, w, 0)
    BY <1>1, <1>2, PacksStart, CodesEmpty
  <2> HIDE DEF pre
  <2> QED  BY <2>1, <2>2
<1>5. ASSUME NEW k \in 0 .. n - 1, k \in S PROVE k + 1 \in S
  <2>1. k \in Nat /\ k + 1 \in 1 .. n /\ (k + 1) - 1 = k /\ k + 1 \in 0 .. n
    BY <1>1
  <2>2. PICK v : Packs(t[k], w, k, v) /\ Codes(pre(k), w, v)
    BY <1>5
  <2>3. x(k + 1) \in Nat /\ x(k + 1) < Pow2[w] /\ t[k + 1] = PackOne(t[k], x(k + 1), w)
    BY <1>2, <1>3, <2>1
  <2>4. Packs(t[k + 1], w, k + 1, v + (x(k + 1) * Weight(w, k)))
    BY <2>1, <2>2, <2>3, PacksStep
  <2>5. pre(k) \in Seq(Nat) /\ Len(pre(k)) = k /\ <<x(k + 1)>> \in Seq(Nat)
        /\ pre(k + 1) = pre(k) \o <<x(k + 1)>>
    <3>1. \A i \in 1 .. k : x(i) \in Nat /\ i \in 1 .. n
      BY <1>1, <1>3
    <3>2. pre(k) \in Seq(Nat) /\ Len(pre(k)) = k /\ <<x(k + 1)>> \in Seq(Nat)
      BY <2>1, <2>3, <3>1
    <3>3. pre(k + 1) = pre(k) \o <<x(k + 1)>>
      BY <2>1, <2>3, <3>1
    <3> QED  BY <3>2, <3>3
  <2>6. Codes(<<x(k + 1)>>, w, x(k + 1))
    BY <1>1, <2>3, CodesOne
  <2> HIDE DEF pre
  <2>7. Codes(pre(k + 1), w, v + (x(k + 1) * Weight(w, k)))
    <3>1. Codes(pre(k) \o <<x(k + 1)>>, w, v + (x(k + 1) * Weight(w, Len(pre(k)))))
      BY <1>1, <2>2, <2>5, <2>6, CodesConcat
    <3> QED  BY <2>5, <3>1
  <2> QED  BY <2>1, <2>4, <2>7
<1>6. n \in S
  <2>1. \A k \in 0 .. n : k \in S
    <3> HIDE DEF S, n
    <3> QED  BY <1>1, <1>4, <1>5, Reaches
  <2>2. n \in 0 .. n
    BY <1>1
  <2> HIDE DEF S
  <2> QED  BY <2>1, <2>2
<1>7. pre(n) = Masked(vals, w)
  BY DEF Masked, x
<1> HIDE DEF pre
<1> QED  BY <1>2, <1>6, <1>7

\* The length of the packed bytes is enough and not a byte more.
LEMMA PackedBytesFacts ==
    ASSUME NEW n \in Nat, NEW w \in Nat
    PROVE  PackedBytes(n, w) \in Nat
<1> DEFINE a == n * w
<1>1. a \in Nat /\ ByteBits \in Nat \ {0}
  BY WordBitsFacts, TimesNat
<1> HIDE DEF a
<1>2. a + (ByteBits - 1) \in Nat
  BY <1>1
<1>3. (a + (ByteBits - 1)) \div ByteBits \in Nat
  BY <1>1, <1>2, DivMod
<1> QED  BY <1>3 DEF PackedBytes, a

\* The packed values are the bytes of the number that the values code.
LEMMA PackedIs ==
    ASSUME NEW vals \in Seq(Nat), NEW w \in 0 .. WordBits
    PROVE  /\ AppendPacked(vals, w) \in Seq(Byte)
           /\ Len(AppendPacked(vals, w)) = PackedBytes(Len(vals), w)
           /\ \E v : Codes(Masked(vals, w), w, v) /\ Codes(AppendPacked(vals, w), ByteBits, v)
<1> DEFINE n == Len(vals)
           B == ByteBits
<1>1. n \in Nat /\ w \in Nat /\ B \in Nat \ {0} /\ \A k \in 1 .. n : vals[k] \in Nat
  <2>1. WordBits \in Nat /\ B \in Nat \ {0}
    BY WordBitsFacts
  <2>2. w \in Nat
    BY <2>1
  <2>3. n \in Nat /\ \A k \in 1 .. n : vals[k] \in Nat
    OBVIOUS
  <2> QED  BY <2>1, <2>2, <2>3
<1>2. CASE w = 0
  <2>1. AppendPacked(vals, w) = <<>> /\ <<>> \in Seq(Byte) /\ Len(<<>>) = 0
    BY <1>2 DEF AppendPacked
  <2>2. PackedBytes(n, w) = 0
    <3>1. n * 0 = 0
      BY <1>1
    <3>2. PackedBytes(n, w) = (B - 1) \div B
      BY <1>1, <1>2, <3>1 DEF PackedBytes
    <3>3. (B - 1) \div B = 0
      BY <1>1, ModOfSmaller
    <3> QED  BY <3>2, <3>3
  <2>3. Codes(<<>>, B, 0)
    BY <1>1, CodesEmpty
  <2>4. Codes(Masked(vals, w), w, 0)
    <3>1. Pow2[0] = 1 /\ Len(Masked(vals, w)) = n
      BY <1>1, Pow2Next DEF Masked
    <3>2. 0 * n = 0
      BY <1>1
    <3>3. ASSUME NEW j \in 1 .. n PROVE Masked(vals, w)[j] = Digit(0, w, j)
      <4>1. Masked(vals, w)[j] = vals[j] % 1
        BY <1>2, <3>1 DEF Masked
      <4>2. vals[j] % 1 = 0
        BY <1>1
      <4>3. j \in Nat \ {0} /\ 0 \in Nat
        OBVIOUS
      <4>4. Digit(0, w, j) \in 0 .. (Pow2[w] - 1)
        BY <1>1, <4>3, DigitType
      <4> QED  BY <1>2, <3>1, <4>1, <4>2, <4>4
    <3> QED  BY <1>2, <3>1, <3>2, <3>3 DEF Codes, Weight
  <2> QED  BY <2>1, <2>2, <2>3, <2>4
<1>3. CASE w # 0
  <2> DEFINE s == Packer(vals, w)
             L == Len(s.dst)
             c == PackedBytes(1, s.nbits)
             e == s.dst \o LittleEndian(s.acc, c)
  <2>1. w \in 1 .. WordBits
    BY <1>1, <1>3, WordBitsFacts
  <2>2. PICK v : Packs(s, w, n, v) /\ Codes(Masked(vals, w), w, v)
    BY <2>1, PackerIs
  <2>3. AppendPacked(vals, w) = e
    BY <1>3 DEF AppendPacked
  <2> HIDE DEF s
  <2>4. /\ s.dst \in Seq(Byte) /\ s.acc \in Nat /\ s.nbits \in Nat /\ L \in Nat
        /\ s.acc < Pow2[s.nbits] /\ (B * L) + s.nbits = w * n
    BY <2>2, WordBitsFacts DEF Packs, PackState
  <2>5. PICK u : Codes(s.dst, B, u) /\ v = u + (s.acc * Weight(B, L))
    BY <2>2 DEF Packs
  <2> DEFINE a == s.nbits + (B - 1)
  <2>6. a \in Nat /\ c = a \div B /\ c \in Nat
    <3>1. 1 * s.nbits = s.nbits
      BY <2>4
    <3>2. a \in Nat /\ c = a \div B
      BY <1>1, <2>4, <3>1 DEF PackedBytes
    <3> HIDE DEF a, c
    <3> QED  BY <1>1, <3>2, DivMod
  <2>7. B * c \in Nat /\ s.nbits <= B * c
    <3> HIDE DEF c
    <3>1. a \div B \in Nat /\ a % B \in 0 .. (B - 1) /\ a = (B * (a \div B)) + (a % B)
      <4> HIDE DEF a
      <4> QED  BY <1>1, <2>6, DivMod
    <3> DEFINE y == B * c
    <3>2. a = y + (a % B) /\ y \in Nat /\ a % B <= B - 1 /\ a % B \in Nat
      <4>1. y \in Nat
        BY <1>1, <2>6, TimesNat
      <4>2. a = y + (a % B)
        BY <2>6, <3>1
      <4> HIDE DEF a, y
      <4> QED  BY <1>1, <3>1, <4>1, <4>2
    <3> DEFINE r == a % B
    <3> HIDE DEF y, r
    <3>3. s.nbits + (B - 1) = y + r /\ r <= B - 1 /\ r \in Nat /\ y \in Nat
      BY <3>2 DEF r
    <3>4. s.nbits <= y
      BY <1>1, <2>4, <3>3
    <3> QED  BY <3>2, <3>4 DEF y
  <2>8. s.acc < Weight(B, c)
    <3>1. Pow2[s.nbits] <= Pow2[B * c] /\ Pow2[s.nbits] \in Nat /\ Pow2[B * c] \in Nat
      BY <2>4, <2>7, Pow2Grows, Pow2Pos
    <3> HIDE DEF c
    <3> QED  BY <2>4, <3>1 DEF Weight
  <2>9. e \in Seq(Byte) /\ Len(e) = L + c /\ Codes(e, B, v)
    <3> HIDE DEF c
    <3> QED  BY <2>4, <2>5, <2>6, <2>8, FlushIs
  <2>10. L + c = PackedBytes(n, w)
    <3> DEFINE y == B * L
    <3>1. n * w = y + s.nbits /\ y \in Nat
      BY <1>1, <2>4, ThreeFactors, TimesNat
    <3>2. PackedBytes(n, w) = ((n * w) + (B - 1)) \div B
      BY DEF PackedBytes
    <3> HIDE DEF y
    <3> DEFINE z == n * w
    <3>3. z + (B - 1) = a + y
      <4>1. z = y + s.nbits /\ y \in Nat /\ s.nbits \in Nat /\ B \in Nat
        BY <1>1, <2>4, <3>1
      <4> HIDE DEF z, L, c, e
      <4> QED  BY <4>1
    <3>4. (a + (B * L)) \div B = (a \div B) + L
      <4> HIDE DEF a, L, B
      <4>1. B \in Nat \ {0} /\ a \in Int /\ L \in Int
        BY <1>1, <2>4, <2>6
      <4> QED  BY <4>1, DivShift
    <3> HIDE DEF a, L, c
    <3> QED  BY <2>4, <2>6, <3>2, <3>3, <3>4 DEF y
  <2> QED  BY <2>2, <2>3, <2>9, <2>10
<1> QED  BY <1>2, <1>3

\* Quotients and remainders of products, for all.
LEMMA DivsTwice ==
    \A a \in Nat, x, y \in Nat \ {0} :
        /\ (a \div x) \div y = a \div (x * y)
        /\ a % (x * y) = (x * ((a \div x) % y)) + (a % x)
        /\ (a % (x * y)) % x = a % x
        /\ (a % (x * y)) \div x = (a \div x) % y
  BY DivTwice

\* x divides y.
Divides(x, y) == \E g \in Nat \ {0} : y = x * g

\* The low bits of two words put together are those of the number.
LowBits(r, h, m, e) == ((r % h) + (((r \div h) % m) * h)) % e = r % e

\* The low bits of a number that stands in two words, the lower one of h.
LEMMA AcrossTwo ==
    ASSUME NEW r \in Nat, NEW h \in Nat \ {0}, NEW m \in Nat \ {0}, NEW e \in Nat \ {0},
           Divides(e, h * m)
    PROVE  LowBits(r, h, m, e)
<1>0. PICK g \in Nat \ {0} : h * m = e * g
  BY DEF Divides
<1> DEFINE next == (r \div h) % m
           low == r % h
           q == r \div h
<1>1. q \in Nat /\ low \in Nat
  <2>1. q \in Nat /\ low \in 0 .. (h - 1)
    BY DivMod
  <2> HIDE DEF low, q
  <2> QED  BY <2>1
<1>2. next \in Nat
  <2>1. q % m \in 0 .. (m - 1)
    <3> HIDE DEF q
    <3> QED  BY <1>1, DivMod
  <2>2. next \in 0 .. (m - 1)
    BY <2>1
  <2> HIDE DEF next, q
  <2> QED  BY <2>2
<1>3. r % (h * m) = (h * next) + low
  BY DivsTwice
<1>4. (r % (e * g)) % e = r % e
  BY <1>0, DivsTwice
<1> HIDE DEF next, low, q
<1>5. next * h = h * next /\ h * next \in Nat
  BY <1>2, TimesNat, ThreeFactors
<1> DEFINE z == h * next
<1>6. low + z = z + low
  <2>1. z \in Nat
    BY <1>5
  <2> HIDE DEF z
  <2> QED  BY <1>1, <2>1
<1>7. low + (next * h) = (h * next) + low
  BY <1>5, <1>6
<1>8. (low + (next * h)) % e = r % e
  BY <1>0, <1>3, <1>4, <1>7
<1> QED  BY <1>8 DEF next, low, LowBits

\* A word read at byte p, and the one after it.
LEMMA ReadsAre ==
    ASSUME NEW src \in Seq(Byte), NEW v, Codes(src, ByteBits, v), NEW p \in Nat
    PROVE  /\ ReadLE(src, p, WordBytes) = (v \div Weight(ByteBits, p)) % Pow2[WordBits]
           /\ ReadLE(src, p + WordBytes, WordBytes)
              = ((v \div Weight(ByteBits, p)) \div Pow2[WordBits]) % Pow2[WordBits]
           /\ v \in Nat /\ v \div Weight(ByteBits, p) \in Nat
<1> DEFINE x == Weight(ByteBits, p)
           m == Weight(ByteBits, WordBytes)
           k == p + WordBytes
           y == Weight(ByteBits, k)
<1>1. ByteBits \in Nat /\ WordBytes \in Nat /\ k \in Nat /\ m = Pow2[WordBits]
  BY WordBitsFacts
<1>2. x \in Nat \ {0} /\ m \in Nat \ {0} /\ y = x * m
  <2>1. y = x * m
    BY <1>1, WeightSums
  <2> HIDE DEF k, y
  <2> QED  BY <1>1, <2>1, WeightIs
<1>3. ReadLE(src, p, WordBytes) = (v \div x) % m
  BY <1>1, ReadLEIs
<1>4. ReadLE(src, k, WordBytes) = (v \div y) % m
  <2> HIDE DEF k
  <2> QED  BY <1>1, ReadLEIs
<1>5. v \in Nat
  BY DEF Codes
<1>6. (v \div x) \div m = v \div (x * m) /\ v \div x \in Nat
  <2> HIDE DEF x, m
  <2> QED  BY <1>2, <1>5, DivsTwice, DivMod
<1>7. ReadLE(src, k, WordBytes) = ((v \div x) \div m) % m
  <2> HIDE DEF k, x, m, y
  <2> QED  BY <1>2, <1>4, <1>6
<1>8. ReadLE(src, k, WordBytes) = ((v \div x) \div Pow2[WordBits]) % Pow2[WordBits]
  <2> HIDE DEF k, x, y
  <2> QED  BY <1>1, <1>7
<1>9. ReadLE(src, p, WordBytes) = (v \div x) % Pow2[WordBits]
  <2> HIDE DEF k, x, y
  <2> QED  BY <1>1, <1>3
<1> QED  BY <1>5, <1>6, <1>8, <1>9

\* Where bit off stands: in byte p, with have bits of its word from there on.
LEMMA PlaceOfBit ==
    ASSUME NEW off \in Nat
    PROVE  LET p   == off \div ByteBits
               bit == off % ByteBits
           IN  /\ p \in Nat /\ bit \in Nat /\ WordBits - bit \in Nat
               /\ Pow2[off] = Weight(ByteBits, p) * Pow2[bit]
               /\ Pow2[WordBits] = Pow2[bit] * Pow2[WordBits - bit]
<1> DEFINE p   == off \div ByteBits
           bit == off % ByteBits
           have == WordBits - bit
<1>1. ByteBits \in Nat \ {0} /\ WordBits \in Nat \ {0} /\ WordBytes \in Nat \ {0}
  BY WordBitsFacts
<1>2. ByteBits <= WordBits
  <2>1. PICK y \in Nat : WordBytes = y + 1
    BY <1>1
  <2>2. ByteBits * (y + 1) = (ByteBits * y) + (ByteBits * 1) /\ ByteBits * (y + 1) = (y + 1) * ByteBits
    BY <1>1, ThreeFactors
  <2>3. ByteBits * y \in Nat /\ ByteBits * 1 = ByteBits
    BY <1>1, TimesNat
  <2>4. WordBits = (ByteBits * y) + ByteBits
    BY <2>1, <2>2, <2>3 DEF WordBits
  <2> DEFINE z == ByteBits * y
  <2> HIDE DEF z
  <2> QED  BY <1>1, <2>3, <2>4 DEF z
<1>3. p \in Nat /\ bit \in 0 .. (ByteBits - 1) /\ off = (ByteBits * p) + bit
  BY <1>1, DivMod
<1>4. bit \in Nat /\ have \in Nat /\ bit + have = WordBits /\ ByteBits * p \in Nat
  BY <1>1, <1>2, <1>3, TimesNat
<1>5. Pow2[(ByteBits * p) + bit] = Pow2[ByteBits * p] * Pow2[bit]
  BY <1>4, PowSums
<1>6. Pow2[bit + have] = Pow2[bit] * Pow2[have]
  <2> HIDE DEF have
  <2> QED  BY <1>4, PowSums
<1> QED  BY <1>3, <1>4, <1>5, <1>6 DEF Weight

\* The unpacker reads w bits of the number from bit off on.
LEMMA GetBitsIs ==
    ASSUME NEW src \in Seq(Byte), NEW v, Codes(src, ByteBits, v), NEW off \in Nat,
           NEW w \in 0 .. WordBits
    PROVE  GetBits(src, off, w) = (v \div Pow2[off]) % Pow2[w]
<1> DEFINE p == off \div ByteBits
           bit == off % ByteBits
           have == WordBits - bit
           x == Weight(ByteBits, p)
           c == Pow2[bit]
           h == Pow2[have]
           m == Pow2[WordBits]
           e == Pow2[w]
           q == v \div x
           r == q \div c
           low == ReadLE(src, p, WordBytes) \div c
           next == ReadLE(src, p + WordBytes, WordBytes)
<1>1. GetBits(src, off, w) = (low + (IF have < w THEN next * h ELSE 0)) % e
  BY DEF GetBits
<1>2. WordBits \in Nat /\ w \in Nat /\ w <= WordBits
  BY WordBitsFacts
<1>3. p \in Nat /\ bit \in Nat /\ have \in Nat /\ Pow2[off] = x * c /\ m = c * h
  BY PlaceOfBit
<1> HIDE DEF p, bit
<1>4. ReadLE(src, p, WordBytes) = q % m /\ next = (q \div m) % m /\ v \in Nat /\ q \in Nat
  BY <1>3, ReadsAre
<1>5. x \in Nat \ {0} /\ c \in Nat \ {0} /\ h \in Nat \ {0} /\ m \in Nat \ {0} /\ e \in Nat \ {0}
  <2> HIDE DEF have
  <2> QED  BY <1>2, <1>3, WordBitsFacts
<1>6. r = v \div Pow2[off] /\ r \in Nat
  <2>1. (v \div x) \div c = v \div (x * c)
    <3>1. v \in Nat /\ x \in Nat \ {0} /\ c \in Nat \ {0}
      BY <1>4, <1>5
    <3> HIDE DEF x, c
    <3> QED  BY <3>1, DivsTwice
  <2>2. r \in Nat
    <3> HIDE DEF q, c
    <3> QED  BY <1>4, <1>5, DivMod
  <2> QED  BY <1>3, <2>1, <2>2
<1>7. low = r % h /\ next = (r \div h) % m
  <2> DEFINE a == ReadLE(src, p, WordBytes)
  <2>1. a = q % m /\ low = a \div c
    BY <1>4
  <2>2. q \in Nat /\ c \in Nat \ {0} /\ h \in Nat \ {0}
    BY <1>4, <1>5
  <2> HIDE DEF q, c, h, m, low, next, a, x, e, have
  <2>3. (q % (c * h)) \div c = (q \div c) % h /\ (q \div c) \div h = q \div (c * h)
    BY <2>2, DivsTwice
  <2> QED  BY <1>3, <1>4, <2>1, <2>3
<1> HIDE DEF low, next, r
<1>8. CASE have < w
  <2> DEFINE d == (have + WordBits) - w
             g == Pow2[d]
  <2>1. d \in Nat /\ w + d = have + WordBits
    BY <1>2, <1>3
  <2>2. g \in Nat \ {0} /\ h * m = e * g
    <3>1. Pow2[w + d] = Pow2[w] * Pow2[d] /\ Pow2[have + WordBits] = Pow2[have] * Pow2[WordBits]
      <4> HIDE DEF d, have
      <4> QED  BY <1>2, <1>3, <2>1, PowSums
    <3>2. g \in Nat \ {0}
      <4> HIDE DEF d
      <4> QED  BY <2>1, Pow2Pos
    <3> QED  BY <2>1, <3>1, <3>2
  <2>3. ((r % h) + (((r \div h) % m) * h)) % e = r % e
    <3>1. r \in Nat /\ h \in Nat \ {0} /\ m \in Nat \ {0} /\ e \in Nat \ {0} /\ g \in Nat \ {0}
      BY <1>5, <1>6, <2>2
    <3>2. h * m = e * g
      BY <2>2
    <3>3. Divides(e, h * m)
      <4> HIDE DEF g, h, m, e, d, have, x, c, q
      <4> QED  BY <3>1, <3>2 DEF Divides
    <3>4. LowBits(r, h, m, e)
      <4> HIDE DEF g, h, m, e, d, have, x, c, q
      <4> QED  BY <3>1, <3>3, AcrossTwo
    <3> QED  BY <3>4 DEF LowBits
  <2>4. GetBits(src, off, w) = r % e
    <3> HIDE DEF g, h, m, e, d, have
    <3> QED  BY <1>1, <1>7, <1>8, <2>3
  <2> QED  BY <1>6, <2>4
<1>9. CASE ~ (have < w)
  <2> DEFINE d == have - w
             g == Pow2[d]
  <2>1. d \in Nat /\ w + d = have
    BY <1>2, <1>3, <1>9
  <2>2. g \in Nat \ {0} /\ h = e * g
    <3>1. Pow2[w + d] = Pow2[w] * Pow2[d]
      <4> HIDE DEF d, have
      <4> QED  BY <1>2, <2>1, PowSums
    <3>2. g \in Nat \ {0}
      <4> HIDE DEF d
      <4> QED  BY <2>1, Pow2Pos
    <3> QED  BY <2>1, <3>1, <3>2
  <2>3. (r % h) % e = r % e /\ r % h \in Nat
    <3>0. r \in Nat /\ h \in Nat \ {0} /\ e \in Nat \ {0} /\ g \in Nat \ {0}
      BY <1>5, <1>6, <2>2
    <3> HIDE DEF g, h, m, e, d, have, x, c, q
    <3>1. (r % (e * g)) % e = r % e
      BY <3>0, DivsTwice
    <3>2. r % h \in 0 .. (h - 1)
      BY <1>5, <1>6, DivMod
    <3>3. r % h \in Nat
      BY <1>5, <3>2
    <3> QED  BY <2>2, <3>1, <3>3
  <2>4. low + 0 = low
    BY <1>7, <2>3
  <2>5. GetBits(src, off, w) = r % e
    <3> HIDE DEF g, h, m, e, d, have
    <3> QED  BY <1>1, <1>7, <1>9, <2>3, <2>4
  <2> QED  BY <1>6, <2>5
<1> QED  BY <1>8, <1>9

\* The unpacker gives back the digits.
LEMMA UnpackIs ==
    ASSUME NEW vals \in Seq(Nat), NEW w \in 0 .. WordBits, NEW src \in Seq(Byte),
           \A i \in 1 .. Len(vals) : vals[i] < Pow2[w],
           src = AppendPacked(vals, w)
    PROVE  Unpack(src, Len(vals), w) = [ok |-> TRUE, vals |-> vals]
<1> DEFINE n == Len(vals)
<1>1. n \in Nat /\ \A i \in 1 .. n : vals[i] \in Nat
  OBVIOUS
<1>2. w \in Nat /\ w <= WordBits
  <2>1. WordBits \in Nat
    BY WordBitsFacts
  <2> QED  BY <2>1
<1>3. Len(src) = PackedBytes(n, w)
  BY PackedIs
<1>4. PICK v : Codes(Masked(vals, w), w, v) /\ Codes(src, ByteBits, v)
  BY PackedIs
<1>5. ASSUME NEW i \in 1 .. n PROVE GetBits(src, (i - 1) * w, w) = vals[i]
  <2> DEFINE off == (i - 1) * w
  <2>1. i - 1 \in Nat /\ i \in Nat \ {0}
    BY <1>1
  <2>2. off \in Nat /\ off = w * (i - 1)
    BY <1>2, <2>1, TimesNat, ThreeFactors
  <2> HIDE DEF off
  <2>3. GetBits(src, off, w) = (v \div Pow2[off]) % Pow2[w]
    BY <1>4, <2>2, GetBitsIs
  <2>4. Masked(vals, w)[i] = vals[i] % Pow2[w] /\ Len(Masked(vals, w)) = n
    BY <1>1 DEF Masked
  <2>5. Masked(vals, w)[i] = Digit(v, w, i)
    BY <1>4, <2>4 DEF Codes
  <2>6. vals[i] % Pow2[w] = vals[i]
    <3>1. Pow2[w] \in Nat /\ vals[i] \in Nat /\ vals[i] < Pow2[w]
      BY <1>1, <1>2, Pow2Pos
    <3> QED  BY <3>1, ModOfSmaller
  <2>7. Digit(v, w, i) = (v \div Pow2[off]) % Pow2[w]
    BY <2>2 DEF Digit
  <2> QED  BY <2>3, <2>4, <2>5, <2>6, <2>7 DEF off
<1>6. Unpack(src, n, w) = [ok |-> TRUE, vals |-> [i \in 1 .. n |-> GetBits(src, (i - 1) * w, w)]]
  <2>1. Len(src) >= PackedBytes(n, w)
    <3>1. Len(src) \in Nat
      OBVIOUS
    <3> QED  BY <1>3, <3>1
  <2> QED  BY <1>2, <2>1 DEF Unpack, Provided
<1>7. [i \in 1 .. n |-> GetBits(src, (i - 1) * w, w)] = vals
  <2>1. vals = [i \in 1 .. n |-> vals[i]]
    OBVIOUS
  <2> QED  BY <1>5, <2>1
<1> QED  BY <1>6, <1>7

(***************************************************************************)
(* The width and the values packed behind it, at the end of a payload.     *)
(***************************************************************************)

\* The least width for m is wide enough and no wider than a word.
LEMMA MinWidthFacts ==
    ASSUME NEW m \in Word
    PROVE  /\ MinWidth(m) \in 0 .. WordBits /\ MinWidth(m) \in Byte
           /\ m < Pow2[MinWidth(m)]
<1> DEFINE S == {w \in 0 .. WordBits : m < Pow2[w]}
<1>1. WordBits \in Nat /\ Word = 0 .. (Pow2[WordBits] - 1)
  BY ByteFacts
<1>2. Pow2[WordBits] \in Nat
  BY <1>1, Pow2Pos
<1>3. m < Pow2[WordBits]
  <2> DEFINE p == Pow2[WordBits]
  <2> HIDE DEF p
  <2>1. p \in Nat /\ m \in 0 .. (p - 1)
    BY <1>1, <1>2 DEF p
  <2>2. m < p
    BY <2>1
  <2> QED  BY <2>2 DEF p
<1>4. S \in SUBSET Nat /\ S # {}
  <2>1. WordBits \in S
    BY <1>1, <1>3
  <2> QED  BY <1>1, <2>1
<1>5. Min(S) \in S
  <2> HIDE DEF S
  <2> QED  BY <1>4, MinOfNats
<1>6. MinWidth(m) = Min(S)
  BY DEF MinWidth
<1>7. Byte = 0 .. (ByteSize - 1) /\ ByteSize \in Nat /\ WordBits < ByteSize
  BY ByteFacts, EncodingAssumption DEF Byte
<1>8. \A w \in 0 .. WordBits : w \in Byte
  BY <1>1, <1>7
<1> QED  BY <1>5, <1>6, <1>8

\* A width and the values packed behind it.
Packed(vals, w) == <<w>> \o AppendPacked(vals, w)

\* The values and their width are such as an encoder packs.
Packable(vals, w) ==
    /\ vals \in Seq(Nat) /\ w \in 0 .. WordBits
    /\ \A i \in 1 .. Len(vals) : vals[i] < Pow2[w]

\* Such bytes, one by one.
LEMMA PackedFacts ==
    ASSUME NEW vals, NEW w, Packable(vals, w)
    PROVE  /\ Packed(vals, w) \in Seq(Byte)
           /\ Len(Packed(vals, w)) = 1 + PackedBytes(Len(vals), w)
           /\ PackedBytes(Len(vals), w) \in Nat
           /\ Packed(vals, w)[1] = w
           /\ w \in Byte
           /\ AppendPacked(vals, w) \in Seq(Byte)
           /\ Len(AppendPacked(vals, w)) = PackedBytes(Len(vals), w)
           /\ \A j \in 1 .. Len(AppendPacked(vals, w)) : Packed(vals, w)[1 + j] = AppendPacked(vals, w)[j]
<1> DEFINE p == AppendPacked(vals, w)
<1>1. vals \in Seq(Nat) /\ w \in 0 .. WordBits
  BY DEF Packable
<1>2. p \in Seq(Byte) /\ Len(p) = PackedBytes(Len(vals), w)
  BY <1>1, PackedIs
<1>3. w \in Byte
  <2>1. Byte = 0 .. (ByteSize - 1) /\ ByteSize \in Nat /\ WordBits < ByteSize /\ WordBits \in Nat
    BY ByteFacts, EncodingAssumption DEF Byte
  <2> QED  BY <1>1, <2>1
<1> HIDE DEF p
<1>4. <<w>> \in Seq(Byte) /\ Len(<<w>>) = 1 /\ <<w>>[1] = w /\ 1 \in 1 .. 1
  BY <1>3
<1>5. /\ <<w>> \o p \in Seq(Byte) /\ Len(<<w>> \o p) = Len(<<w>>) + Len(p) /\ Len(p) \in Nat
      /\ \A j \in 1 .. Len(<<w>>) : (<<w>> \o p)[j] = <<w>>[j]
      /\ \A j \in 1 .. Len(p) : (<<w>> \o p)[Len(<<w>>) + j] = p[j]
  BY <1>2, <1>4, ConcatFacts
<1> QED  BY <1>2, <1>3, <1>4, <1>5 DEF Packed, p

\* Packed values behind other bytes are read back.
LEMMA ReadPackedStands ==
    ASSUME NEW vals, NEW w, Packable(vals, w), NEW d \in Seq(Byte), NEW pos \in Nat,
           Stands(Packed(vals, w), d, pos), Len(d) = pos + Len(Packed(vals, w))
    PROVE  ReadPacked(d, pos, Len(vals)) = [ok |-> TRUE, vals |-> vals]
<1> DEFINE n == PackedBytes(Len(vals), w)
           p == AppendPacked(vals, w)
           e == Packed(vals, w)
           s == SubSeq(d, pos + 2, Len(d))
<1>1. /\ e \in Seq(Byte) /\ Len(e) = 1 + n /\ n \in Nat /\ e[1] = w
      /\ p \in Seq(Byte) /\ Len(p) = n
      /\ \A j \in 1 .. Len(p) : e[1 + j] = p[j]
  BY PackedFacts
<1> HIDE DEF n, p, e
<1>2. Len(d) = pos + (1 + n) /\ \A j \in 1 .. (1 + n) : d[pos + j] = e[j]
  BY <1>1 DEF Stands, e
<1>3. pos < Len(d) /\ d[pos + 1] = w
  <2>1. 1 \in 1 .. (1 + n)
    BY <1>1
  <2> QED  BY <1>1, <1>2, <2>1
<1>4. s = p
  <2>1. s \in Seq(Byte) /\ Len(s) = n /\ \A j \in 1 .. n : s[j] = d[pos + (1 + j)]
    BY <1>1, <1>2
  <2>2. \A j \in 1 .. n : d[pos + (1 + j)] = p[j]
    <3>1. ASSUME NEW j \in 1 .. n PROVE 1 + j \in 1 .. (1 + n) /\ j \in 1 .. Len(p)
      BY <1>1
    <3> QED  BY <1>1, <1>2, <3>1
  <2> HIDE DEF s
  <2>3. \A j \in 1 .. n : s[j] = p[j]
    BY <2>1, <2>2
  <2> QED  BY <1>1, <2>1, <2>3
<1>5. Unpack(p, Len(vals), w) = [ok |-> TRUE, vals |-> vals]
  <2>1. vals \in Seq(Nat) /\ w \in 0 .. WordBits /\ \A i \in 1 .. Len(vals) : vals[i] < Pow2[w]
    BY DEF Packable
  <2> QED  BY <1>1, <2>1, UnpackIs DEF p
<1>6. ReadPacked(d, pos, Len(vals)) = Unpack(s, Len(vals), d[pos + 1])
  <2>1. ~ (pos >= Len(d))
    BY <1>3
  <2> QED  BY <2>1 DEF ReadPacked
<1> QED  BY <1>3, <1>4, <1>5, <1>6

\* Packed values that were cut are not.
LEMMA ReadPackedCut ==
    ASSUME NEW vals, NEW w, Packable(vals, w), NEW d \in Seq(Byte), NEW pos \in Nat,
           StandsCut(Packed(vals, w), d, pos)
    PROVE  ReadPacked(d, pos, Len(vals)) = Failed
<1> DEFINE n == PackedBytes(Len(vals), w)
           e == Packed(vals, w)
           s == SubSeq(d, pos + 2, Len(d))
<1>1. Len(e) = 1 + n /\ n \in Nat /\ e[1] = w
  BY PackedFacts
<1> HIDE DEF n, e
<1>2. Len(d) \in Nat /\ Len(d) < pos + (1 + n)
      /\ \A j \in 1 .. (1 + n) : pos + j <= Len(d) => d[pos + j] = e[j]
  BY <1>1 DEF StandsCut, e
<1>3. CASE pos >= Len(d)
  BY <1>3 DEF ReadPacked
<1>4. CASE ~ (pos >= Len(d))
  <2>1. 1 \in 1 .. (1 + n) /\ pos + 1 <= Len(d)
    BY <1>1, <1>2, <1>4
  <2>2. d[pos + 1] = w
    BY <1>1, <1>2, <2>1
  <2>3. Len(s) \in Nat /\ Len(s) < n
    BY <1>1, <1>2, <2>1
  <2> HIDE DEF s
  <2>4. ~ (Len(s) >= n)
    BY <1>1, <2>3
  <2>5. Unpack(s, Len(vals), w) = Failed
    BY <2>4 DEF Unpack, Provided, n
  <2>6. ReadPacked(d, pos, Len(vals)) = Unpack(s, Len(vals), d[pos + 1])
    BY <1>4 DEF ReadPacked, s
  <2> QED  BY <2>2, <2>5, <2>6
<1> QED  BY <1>3, <1>4

\* Joining is associative.
LEMMA ConcatTwice ==
    ASSUME NEW S, NEW s \in Seq(S), NEW t \in Seq(S), NEW u \in Seq(S)
    PROVE  (s \o t) \o u = s \o (t \o u)
  OBVIOUS

\* Joining bytes is associative.
LEMMA BytesTwice == \A x, y, z \in Seq(Byte) : (x \o y) \o z = x \o (y \o z)
  BY ConcatTwice

(***************************************************************************)
(* Bit packing of integers.                                                *)
(***************************************************************************)

\* The parts of the bitpack codec: the least value, the rest and the width.
LowOf(vals) == Min(ToSet(vals))

AboveLow(vals) == [i \in DOMAIN vals |-> vals[i] - LowOf(vals)]

WidthOf(vals) == MinWidth(Max(ToSet(vals)) - LowOf(vals))

\* They are words that the packer takes.
LEMMA BitpackParts ==
    ASSUME NEW vals \in Seq(Word), Len(vals) # 0
    PROVE  /\ LowOf(vals) \in Word
           /\ Packable(AboveLow(vals), WidthOf(vals))
           /\ Len(AboveLow(vals)) = Len(vals)
           /\ \A i \in 1 .. Len(vals) : Wrap(AboveLow(vals)[i] + LowOf(vals)) = vals[i]
           /\ EncodeBitpack(vals)
              = AppendUvarint(LowOf(vals)) \o Packed(AboveLow(vals), WidthOf(vals))
<1> DEFINE S == ToSet(vals)
           low == LowOf(vals)
           high == Max(S)
           w == WidthOf(vals)
           g == AboveLow(vals)
<1>1. DOMAIN vals = 1 .. Len(vals) /\ Len(vals) \in Nat /\ Len(vals) \in 1 .. Len(vals)
  OBVIOUS
<1>2. S = {vals[i] : i \in 1 .. Len(vals)}
  BY <1>1 DEF ToSet
<1>3. S \in SUBSET Word /\ S # {} /\ \A i \in 1 .. Len(vals) : vals[i] \in S
  BY <1>1, <1>2
<1>4. low \in S /\ high \in S /\ \A x \in S : low <= x /\ x <= high
  <2>1. Word \subseteq Nat /\ Word = 0 .. (2 * HalfWord - 1) /\ 2 * HalfWord - 1 \in Nat
    BY WordSize DEF Word
  <2>2. Min(S) \in S /\ \A x \in S : Min(S) <= x
    <3> HIDE DEF S
    <3> QED  BY <1>3, <2>1, MinOfNats
  <2>3. Max(S) \in S /\ \A x \in S : Max(S) >= x
    <3> HIDE DEF S
    <3> QED  BY <1>3, <2>1, MaxOfNats
  <2>4. \A x \in S : x \in Nat
    BY <1>3, <2>1
  <2>5. high >= high /\ \A x \in S : high >= x => x <= high
    <3> HIDE DEF S
    <3> QED  BY <2>3, <2>4
  <2> QED  BY <2>2, <2>3, <2>5 DEF LowOf
<1> HIDE DEF S, low, high
<1>5. low \in Word /\ high \in Word /\ high - low \in Word /\ low \in Nat
  <2>1. Word \subseteq Nat /\ Word = 0 .. (2 * HalfWord - 1) /\ 2 * HalfWord - 1 \in Nat
    BY WordSize DEF Word
  <2>2. low <= high
    BY <1>4
  <2> QED  BY <1>3, <1>4, <2>1, <2>2
<1>6. w \in 0 .. WordBits /\ w \in Byte /\ high - low < Pow2[w]
  <2>1. w = MinWidth(high - low)
    BY DEF WidthOf, high, low, S
  <2> QED  BY <1>5, <2>1, MinWidthFacts
<1> HIDE DEF w
<1>7. Pow2[w] \in Nat
  <2>1. WordBits \in Nat
    BY ByteFacts
  <2>2. w \in Nat
    BY <1>6, <2>1
  <2> QED  BY <2>2, Pow2Pos
<1>8. g = [i \in 1 .. Len(vals) |-> vals[i] - low]
  BY <1>1 DEF AboveLow, low
<1>9. ASSUME NEW i \in 1 .. Len(vals)
      PROVE  vals[i] - low \in Nat /\ vals[i] - low < Pow2[w] /\ Wrap((vals[i] - low) + low) = vals[i]
  <2>1. vals[i] \in S /\ vals[i] \in Word /\ vals[i] \in Nat
    BY <1>3, WordSize
  <2>2. low <= vals[i] /\ vals[i] <= high /\ high \in Nat
    BY <1>4, <1>5, <2>1, WordSize
  <2>3. vals[i] - low \in Nat /\ vals[i] - low <= high - low /\ (vals[i] - low) + low = vals[i]
    <3> DEFINE x == vals[i]
    <3>1. x \in Nat /\ low \in Nat /\ high \in Nat /\ low <= x /\ x <= high
      BY <1>5, <2>1, <2>2
    <3> HIDE DEF x
    <3>2. x - low \in Nat /\ x - low <= high - low /\ (x - low) + low = x
      BY <3>1
    <3> QED  BY <3>2 DEF x
  <2>4. Wrap(vals[i]) = vals[i]
    BY <2>1, WrapWord
  <2>5. vals[i] - low < Pow2[w]
    <3> DEFINE p == Pow2[w]
    <3>1. p \in Nat /\ high - low < p
      BY <1>6, <1>7
    <3> HIDE DEF p
    <3>2. vals[i] - low < p
      BY <1>5, <2>1, <2>2, <3>1
    <3> QED  BY <3>2 DEF p
  <2> QED  BY <2>3, <2>4, <2>5
<1>10. /\ g \in Seq(Nat) /\ Len(g) = Len(vals)
       /\ \A i \in 1 .. Len(vals) : g[i] = vals[i] - low
  BY <1>1, <1>8, <1>9
<1> HIDE DEF g
<1>11. Packable(g, w)
  BY <1>6, <1>9, <1>10 DEF Packable
<1>12. EncodeBitpack(vals) = (AppendUvarint(low) \o <<w>>) \o AppendPacked(g, w)
  BY DEF EncodeBitpack, low, w, g, LowOf, WidthOf, AboveLow
<1>13. (AppendUvarint(low) \o <<w>>) \o AppendPacked(g, w) = AppendUvarint(low) \o Packed(g, w)
  <2>1. AppendUvarint(low) \in Seq(Byte)
    BY <1>5, AppendUvarintIs
  <2>2. AppendPacked(g, w) \in Seq(Byte)
    BY <1>11, PackedFacts
  <2>3. <<w>> \in Seq(Byte)
    BY <1>6
  <2> QED  BY <2>1, <2>2, <2>3, ConcatTwice DEF Packed
<1>14. \A i \in 1 .. Len(vals) : Wrap(g[i] + low) = vals[i]
  BY <1>9, <1>10
<1> QED  BY <1>5, <1>10, <1>11, <1>12, <1>13, <1>14 DEF low, w, g

\* The steps of the decoder.
LEMMA BitpackSteps ==
    ASSUME NEW d, NEW n, NEW low, NEW o, NEW g,
           Uvarint(d, 0) = [ok |-> TRUE, val |-> low, pos |-> o],
           ReadPacked(d, o, n) = [ok |-> TRUE, vals |-> g]
    PROVE  DecodeBitpack(d, n) =
               [ok |-> TRUE, vals |-> [i \in 1 .. n |-> Wrap(g[i] + low)]]
<1> DEFINE u == Uvarint(d, 0)
           r == ReadPacked(d, u.pos, n)
<1>1. DecodeBitpack(d, n) =
          IF u.ok THEN IF r.ok THEN [ok |-> TRUE, vals |-> [i \in 1 .. n |-> Wrap(r.vals[i] + u.val)]]
                       ELSE Failed
          ELSE Failed
  BY DEF DecodeBitpack, Then
<1>2. u.ok /\ u.val = low /\ u.pos = o
  OBVIOUS
<1> HIDE DEF u
<1>3. r.ok /\ r.vals = g
  BY <1>2
<1> HIDE DEF r
<1> QED  BY <1>1, <1>2, <1>3

\* The bitpack codec.
LEMMA BitpackExact ==
    ASSUME NEW vals \in Seq(Word), Len(vals) # 0
    PROVE  /\ EncodeBitpack(vals) \in Seq(Byte)
           /\ Exact(DecodeBitpack(EncodeBitpack(vals), Len(vals)), vals)
           /\ \A n \in 0 .. Len(EncodeBitpack(vals)) - 1 :
                 DecodeBitpack(SubSeq(EncodeBitpack(vals), 1, n), Len(vals)) = Failed
<1> DEFINE low == LowOf(vals)
           w == WidthOf(vals)
           g == AboveLow(vals)
           a == AppendUvarint(low)
           p == Packed(g, w)
           e == EncodeBitpack(vals)
<1>1. /\ low \in Word /\ Packable(g, w) /\ Len(g) = Len(vals) /\ e = a \o p
      /\ \A i \in 1 .. Len(vals) : Wrap(g[i] + low) = vals[i]
  BY BitpackParts
<1> HIDE DEF low, w, g, e
<1>2. a \in Seq(Byte) /\ p \in Seq(Byte)
  BY <1>1, AppendUvarintIs, PackedFacts
<1>3. e \in Seq(Byte) /\ Len(e) = Len(a) + Len(p) /\ Len(a) \in Nat /\ Len(p) \in Nat
  <2> HIDE DEF a, p
  <2> QED  BY <1>1, <1>2, ConcatFacts
<1>4. DecodeBitpack(e, Len(vals)) = [ok |-> TRUE, vals |-> vals]
  <2>1. Stands(a, e, 0) /\ Stands(p, e, 0 + Len(a))
    <3>1. Stands(e, e, 0)
      BY <1>3, WholeStands
    <3> HIDE DEF a, p
    <3> QED  BY <1>1, <1>2, <1>3, <3>1, StandsConcat
  <2>2. Uvarint(e, 0) = [ok |-> TRUE, val |-> low, pos |-> 0 + Len(a)]
    BY <1>1, <1>3, <2>1, UvarintStands
  <2>3. ReadPacked(e, 0 + Len(a), Len(vals)) = [ok |-> TRUE, vals |-> g]
    <3>1. 0 + Len(a) \in Nat /\ Len(e) = (0 + Len(a)) + Len(p)
      BY <1>3
    <3>2. ReadPacked(e, 0 + Len(a), Len(g)) = [ok |-> TRUE, vals |-> g]
      <4> DEFINE o == 0 + Len(a)
      <4>1. o \in Nat /\ Len(e) = o + Len(p) /\ Stands(p, e, o)
        BY <2>1, <3>1
      <4> HIDE DEF o
      <4>2. ReadPacked(e, o, Len(g)) = [ok |-> TRUE, vals |-> g]
        BY <1>1, <1>3, <4>1, ReadPackedStands
      <4> QED  BY <4>2 DEF o
    <3> QED  BY <1>1, <3>2
  <2>4. [i \in 1 .. Len(vals) |-> Wrap(g[i] + low)] = vals
    <3>1. vals = [i \in 1 .. Len(vals) |-> vals[i]]
      OBVIOUS
    <3> QED  BY <1>1, <3>1
  <2> HIDE DEF a, p
  <2> QED  BY <2>2, <2>3, <2>4, BitpackSteps
<1>5. ASSUME NEW n \in 0 .. Len(e) - 1
      PROVE  DecodeBitpack(SubSeq(e, 1, n), Len(vals)) = Failed
  <2> DEFINE d == SubSeq(e, 1, n)
  <2>1. d \in Seq(Byte) /\ StandsCut(e, d, 0)
    BY <1>3, PrefixIsCut
  <2> HIDE DEF d
  <2>2. StandsCut(a, d, 0) \/ (Stands(a, d, 0) /\ StandsCut(p, d, 0 + Len(a)))
    <3> HIDE DEF a, p
    <3> QED  BY <1>1, <1>2, <2>1, CutConcat
  <2>3. CASE StandsCut(a, d, 0)
    <3>1. Uvarint(d, 0) = Failed
      BY <1>1, <2>1, <2>3, UvarintCut
    <3> QED  BY <3>1 DEF DecodeBitpack, Then, Failed, d
  <2>4. CASE Stands(a, d, 0) /\ StandsCut(p, d, 0 + Len(a))
    <3>1. Uvarint(d, 0) = [ok |-> TRUE, val |-> low, pos |-> 0 + Len(a)]
      BY <1>1, <2>1, <2>4, UvarintStands
    <3>2. ReadPacked(d, 0 + Len(a), Len(vals)) = Failed
      <4> DEFINE o == 0 + Len(a)
      <4>1. o \in Nat /\ StandsCut(p, d, o)
        BY <1>3, <2>4
      <4> HIDE DEF o
      <4>2. ReadPacked(d, o, Len(g)) = Failed
        BY <1>1, <2>1, <4>1, ReadPackedCut
      <4> QED  BY <1>1, <4>2 DEF o
    <3> HIDE DEF a, p
    <3> QED  BY <3>1, <3>2 DEF DecodeBitpack, Then, Failed, d
  <2> QED  BY <2>2, <2>3, <2>4
<1> QED  BY <1>3, <1>4, <1>5 DEF e, Exact

(***************************************************************************)
(* Words as they are.                                                      *)
(***************************************************************************)

\* A word that stands in a payload is read back.
LEMMA WordStands ==
    ASSUME NEW v \in Word, NEW d \in Seq(Byte), NEW pos \in Nat,
           Stands(LittleEndian(v, WordBytes), d, pos)
    PROVE  ReadLE(d, pos, WordBytes) = v
<1> DEFINE s == LittleEndian(v, WordBytes)
           k == WordBytes
           f == [j \in 1 .. k |-> IF pos + j <= Len(d) THEN d[pos + j] * Pow2[ByteBits * (j - 1)]
                                  ELSE 0]
           g == [j \in 1 .. k |-> IF 0 + j <= Len(s) THEN s[0 + j] * Pow2[ByteBits * (j - 1)]
                                  ELSE 0]
<1>1. k \in Nat /\ ByteBits \in Nat /\ Weight(ByteBits, k) = Pow2[WordBits]
  BY WordBitsFacts
<1>2. v \in Nat /\ v < Weight(ByteBits, k)
  <2> DEFINE p == Pow2[WordBits]
  <2>1. Word = 0 .. (p - 1) /\ p \in Nat
    BY ByteFacts, Pow2Pos
  <2> HIDE DEF p
  <2>2. v \in Nat /\ v < p
    BY <2>1
  <2> QED  BY <1>1, <2>2 DEF p
<1>3. s \in Seq(Byte) /\ Len(s) = k /\ Codes(s, ByteBits, v)
  BY <1>1, <1>2, LittleEndianIs
<1>4. ReadLE(d, pos, k) = Total(f, k) /\ ReadLE(s, 0, k) = Total(g, k)
  BY DEF ReadLE
<1>5. pos + k <= Len(d) /\ Len(d) \in Nat /\ \A j \in 1 .. k : d[pos + j] = s[j]
  <2> HIDE DEF s, k
  <2> QED  BY <1>3 DEF Stands, s, k
<1> HIDE DEF s, k
<1>6. \A j \in 1 .. k : pos + j <= Len(d) /\ 0 + j <= Len(s) /\ 0 + j = j
  BY <1>1, <1>3, <1>5
<1>7. f = g
  <2>1. ASSUME NEW j \in 1 .. k
        PROVE  (IF pos + j <= Len(d) THEN d[pos + j] * Pow2[ByteBits * (j - 1)] ELSE 0)
               = (IF 0 + j <= Len(s) THEN s[0 + j] * Pow2[ByteBits * (j - 1)] ELSE 0)
    <3>1. pos + j <= Len(d) /\ 0 + j <= Len(s) /\ d[pos + j] = s[0 + j]
      BY <1>5, <1>6
    <3> QED  BY <3>1
  <2> QED  BY <2>1
<1> HIDE DEF f, g
<1>8. ReadLE(s, 0, k) = (v \div Weight(ByteBits, 0)) % Weight(ByteBits, k)
  <2>1. 0 \in Nat
    OBVIOUS
  <2> QED  BY <1>1, <1>3, <2>1, ReadLEIs
<1>9. (v \div Weight(ByteBits, 0)) % Weight(ByteBits, k) = v
  <2>1. Weight(ByteBits, 0) = 1
    <3>1. ByteBits * 0 = 0
      BY <1>1
    <3> QED  BY <3>1, Pow2Next DEF Weight
  <2>2. v \div 1 = v
    BY <1>2
  <2>3. Weight(ByteBits, k) \in Nat
    BY <1>1, WordBitsFacts
  <2>4. v % Weight(ByteBits, k) = v
    BY <1>2, <2>3, ModOfSmaller
  <2> QED  BY <2>1, <2>2, <2>4
<1> QED  BY <1>4, <1>7, <1>8, <1>9 DEF k

\* The words as pieces of the payload.
WordPieces(vals) == [i \in 1 .. Len(vals) |-> LittleEndian(vals[i], WordBytes)]

\* Each has the bytes of a word.
LEMMA WordPiecesAre ==
    ASSUME NEW vals \in Seq(Word)
    PROVE  /\ WordPieces(vals) \in Seq(Seq(Byte)) /\ Len(WordPieces(vals)) = Len(vals)
           /\ \A i \in 1 .. Len(vals) : /\ WordPieces(vals)[i] = LittleEndian(vals[i], WordBytes)
                                        /\ Len(WordPieces(vals)[i]) = WordBytes
           /\ EncodePlain(vals) = FlattenSeq(WordPieces(vals))
<1>1. \A i \in 1 .. Len(vals) : /\ LittleEndian(vals[i], WordBytes) \in Seq(Byte)
                                /\ Len(LittleEndian(vals[i], WordBytes)) = WordBytes
  <2>1. ASSUME NEW i \in 1 .. Len(vals) PROVE vals[i] \in Nat
    <3>1. vals[i] \in Word
      OBVIOUS
    <3> QED  BY <3>1, WordSize
  <2>2. WordBytes \in Nat
    BY WordBitsFacts
  <2> QED  BY <2>1, <2>2, LittleEndianIs
<1>2. DOMAIN vals = 1 .. Len(vals) /\ Len(vals) \in Nat
  OBVIOUS
<1>3. EncodePlain(vals) = FlattenSeq(WordPieces(vals))
  BY <1>2 DEF EncodePlain, WordPieces
<1> QED  BY <1>1, <1>2, <1>3 DEF WordPieces

\* The first k words take k times the bytes of a word.
LEMMA JoinedWords ==
    ASSUME NEW s \in Seq(Seq(Byte)), NEW f \in [0 .. Len(s) -> Seq(Byte)], IsJoined(s, f),
           \A i \in 1 .. Len(s) : Len(s[i]) = WordBytes
    PROVE  \A k \in 0 .. Len(s) : Len(f[k]) = k * WordBytes
<1> DEFINE n == Len(s)
           S == {k \in 0 .. n : Len(f[k]) = k * WordBytes}
<1>1. n \in Nat /\ WordBytes \in Nat
  BY WordBitsFacts
<1>2. 0 \in S
  <2>1. f[0] = <<>> /\ 0 * WordBytes = 0 /\ Len(<<>>) = 0
    BY <1>1 DEF IsJoined
  <2> QED  BY <1>1, <2>1
<1>3. ASSUME NEW k \in 0 .. n - 1, k \in S PROVE k + 1 \in S
  <2>1. k \in 0 .. n /\ k + 1 \in 1 .. n /\ k + 1 \in 0 .. n /\ (k + 1) - 1 = k /\ k \in Nat
    BY <1>1
  <2>2. f[k + 1] = f[k] \o s[k + 1]
    BY <2>1 DEF IsJoined
  <2>3. f[k] \in Seq(Byte) /\ s[k + 1] \in Seq(Byte)
    <3>1. f[k] \in Seq(Byte)
      BY <2>1
    <3>2. \A i \in 1 .. Len(s) : s[i] \in Seq(Byte)
      OBVIOUS
    <3> QED  BY <2>1, <3>1, <3>2
  <2>4. Len(f[k + 1]) = Len(f[k]) + Len(s[k + 1])
    BY <2>2, <2>3, ConcatFacts
  <2>5. Len(f[k + 1]) = (k * WordBytes) + WordBytes
    BY <1>3, <2>1, <2>4
  <2>6. (k + 1) * WordBytes = (k * WordBytes) + WordBytes
    <3>1. (k + 1) * WordBytes = WordBytes * (k + 1) /\ WordBytes * (k + 1) = (WordBytes * k) + (WordBytes * 1)
          /\ WordBytes * k = k * WordBytes
      BY <1>1, <2>1, ThreeFactors
    <3>2. WordBytes * 1 = WordBytes
      BY <1>1
    <3> QED  BY <3>1, <3>2
  <2> QED  BY <2>1, <2>5, <2>6
<1> HIDE DEF S
<1>4. \A k \in 0 .. n : k \in S
  BY <1>1, <1>2, <1>3, Reaches
<1> QED  BY <1>4 DEF S

\* The plain codec.
LEMMA PlainExact ==
    ASSUME NEW vals \in Seq(Word)
    PROVE  /\ EncodePlain(vals) \in Seq(Byte)
           /\ Exact(DecodePlain(EncodePlain(vals), Len(vals)), vals)
           /\ \A n \in 0 .. Len(EncodePlain(vals)) - 1 :
                 DecodePlain(SubSeq(EncodePlain(vals), 1, n), Len(vals)) = Failed
<1> DEFINE s == WordPieces(vals)
           e == EncodePlain(vals)
           m == Len(vals)
<1>1. /\ s \in Seq(Seq(Byte)) /\ Len(s) = m /\ e = FlattenSeq(s) /\ m \in Nat
      /\ \A i \in 1 .. m : s[i] = LittleEndian(vals[i], WordBytes) /\ Len(s[i]) = WordBytes
  BY WordPiecesAre
<1> HIDE DEF s, e
<1>2. PICK f \in [0 .. m -> Seq(Byte)] : IsJoined(s, f) /\ e = f[m]
  BY <1>1, FlattenDef
<1>3. \A k \in 0 .. m : Len(f[k]) = k * WordBytes
  BY <1>1, <1>2, JoinedWords
<1>4. e \in Seq(Byte) /\ Len(e) = m * WordBytes /\ Len(e) \in Nat
  <2>1. m \in 0 .. m
    BY <1>1
  <2> QED  BY <1>2, <1>3, <2>1
<1>5. \A k \in 1 .. m : Stands(s[k], e, 0 + Len(f[k - 1]))
  <2>1. Stands(f[Len(s)], e, 0)
    BY <1>1, <1>2, <1>4, WholeStands
  <2> QED  BY <1>1, <1>2, <1>4, <2>1, PiecesStand
<1>6. ASSUME NEW i \in 1 .. m PROVE ReadLE(e, (i - 1) * WordBytes, WordBytes) = vals[i]
  <2> DEFINE pos == (i - 1) * WordBytes
  <2>1. i - 1 \in 0 .. m /\ i - 1 \in Nat
    BY <1>1
  <2>2. pos = Len(f[i - 1]) /\ f[i - 1] \in Seq(Byte)
    BY <1>2, <1>3, <2>1
  <2> HIDE DEF pos
  <2>3. pos \in Nat /\ 0 + pos = pos
    BY <2>2
  <2>4. Stands(LittleEndian(vals[i], WordBytes), e, pos)
    BY <1>1, <1>5, <2>2, <2>3
  <2>5. vals[i] \in Word
    OBVIOUS
  <2>6. ReadLE(e, pos, WordBytes) = vals[i]
    BY <1>4, <2>3, <2>4, <2>5, WordStands
  <2> QED  BY <2>6 DEF pos
<1>7. DecodePlain(e, m) = [ok |-> TRUE, vals |-> vals]
  <2>1. vals = [i \in 1 .. m |-> vals[i]]
    OBVIOUS
  <2>2. [i \in 1 .. m |-> ReadLE(e, (i - 1) * WordBytes, WordBytes)] = vals
    <3> HIDE DEF m
    <3> QED  BY <1>6, <2>1
  <2>3. Len(e) >= m * WordBytes
    BY <1>4
  <2> QED  BY <2>2, <2>3 DEF DecodePlain, Provided
<1>8. ASSUME NEW n \in 0 .. Len(e) - 1 PROVE DecodePlain(SubSeq(e, 1, n), m) = Failed
  <2> DEFINE d == SubSeq(e, 1, n)
             z == m * WordBytes
  <2>1. Len(d) = n
    BY <1>4, PrefixIsCut
  <2> HIDE DEF d
  <2>2. ~ (Len(d) >= z)
    <3> HIDE DEF z
    <3>1. Len(e) = z
      BY <1>4 DEF z
    <3> QED  BY <1>4, <2>1, <3>1
  <2> QED  BY <2>2 DEF DecodePlain, Provided, d
<1> QED  BY <1>4, <1>7, <1>8 DEF e, Exact

(***************************************************************************)
(* Runs.                                                                   *)
(***************************************************************************)

\* A run ends after its beginning, and has one value all along.
LEMMA RunEndFacts ==
    ASSUME NEW X, NEW vals \in Seq(X), NEW i \in 1 .. Len(vals)
    PROVE  /\ RunEnd(vals, i) \in (i + 1) .. (Len(vals) + 1)
           /\ \A l \in i .. (RunEnd(vals, i) - 1) : vals[l] = vals[i]
<1> DEFINE n == Len(vals)
           S == {j \in (i + 1) .. (n + 1) : j <= n => vals[j] # vals[i]}
           m == RunEnd(vals, i)
<1>1. n \in Nat /\ i \in Nat /\ i <= n
  OBVIOUS
<1> HIDE DEF n
<1>2. S \in SUBSET Nat /\ S # {}
  <2>1. n + 1 \in S
    BY <1>1
  <2> QED  BY <1>1, <2>1
<1>3. m = Min(S)
  BY DEF RunEnd, n
<1>4. m \in S /\ \A y \in S : m <= y
  <2> HIDE DEF S, m
  <2> QED  BY <1>2, <1>3, MinOfNats
<1> HIDE DEF m
<1>5. m \in (i + 1) .. (n + 1) /\ m \in Nat
  BY <1>1, <1>4
<1>6. ASSUME NEW l \in i .. (m - 1) PROVE vals[l] = vals[i]
  <2>1. CASE l = i
    BY <2>1
  <2>2. CASE l # i
    <3>1. l \in (i + 1) .. (n + 1) /\ l <= n /\ ~ (m <= l)
      BY <1>1, <1>5, <2>2
    <3>2. l \notin S
      <4> HIDE DEF S
      <4> QED  BY <1>4, <3>1
    <3> QED  BY <3>1, <3>2
  <2> QED  BY <2>1, <2>2
<1> QED  BY <1>5, <1>6 DEF m, n

\* The run that begins at row i, as bytes.
RunAt(kind, vals, i) == Put(kind, vals[i]) \o AppendUvarint(RunEnd(vals, i) - i)

\* A run is bytes, and its length a word.
LEMMA RunAtFacts ==
    ASSUME NEW kind, NEW X, NEW vals \in Seq(X), AllWritable(kind, vals), Len(vals) \in Word,
           NEW i \in 1 .. Len(vals)
    PROVE  /\ RunEnd(vals, i) - i \in Word /\ RunEnd(vals, i) - i # 0
           /\ Writable(kind, vals[i])
           /\ Put(kind, vals[i]) \in Seq(Byte)
           /\ AppendUvarint(RunEnd(vals, i) - i) \in Seq(Byte)
           /\ RunAt(kind, vals, i) \in Seq(Byte)
           /\ Len(RunAt(kind, vals, i)) = Len(Put(kind, vals[i])) + Len(AppendUvarint(RunEnd(vals, i) - i))
           /\ Len(Put(kind, vals[i])) \in Nat /\ Len(AppendUvarint(RunEnd(vals, i) - i)) \in Nat
<1> DEFINE m == RunEnd(vals, i)
           n == Len(vals)
<1>1. m \in (i + 1) .. (n + 1)
  BY RunEndFacts
<1>2. n \in Nat /\ Word = 0 .. (2 * HalfWord - 1) /\ 2 * HalfWord \in Nat
  BY WordSize DEF Word
<1>3. m - i \in Word /\ m - i # 0
  <2> HIDE DEF m, n
  <2>1. n \in Word /\ i \in 1 .. n
    BY DEF n
  <2> QED  BY <1>1, <1>2, <2>1
<1>4. Writable(kind, vals[i])
  BY DEF AllWritable
<1>5. Put(kind, vals[i]) \in Seq(Byte)
  BY <1>4, PutIs
<1>6. AppendUvarint(m - i) \in Seq(Byte)
  <2> HIDE DEF m
  <2> QED  BY <1>3, AppendUvarintIs
<1> DEFINE a == Put(kind, vals[i])
           c == AppendUvarint(m - i)
<1>7. a \o c \in Seq(Byte) /\ Len(a \o c) = Len(a) + Len(c) /\ Len(a) \in Nat /\ Len(c) \in Nat
  <2>1. a \in Seq(Byte) /\ c \in Seq(Byte)
    BY <1>5, <1>6
  <2> HIDE DEF a, c
  <2> QED  BY <2>1, ConcatFacts
<1> QED  BY <1>3, <1>4, <1>5, <1>6, <1>7 DEF RunAt

\* The first rows of a column.
FirstRows(vals, k) == [l \in 1 .. k |-> vals[l]]

\* A run brings the rows read from its beginning to its end.
LEMMA FirstRowsNext ==
    ASSUME NEW X, NEW vals \in Seq(X), NEW i \in 1 .. Len(vals)
    PROVE  LET v == vals[i]
               c == RunEnd(vals, i) - i
           IN  /\ FirstRows(vals, i - 1) \o [k \in 1 .. c |-> v] = FirstRows(vals, RunEnd(vals, i) - 1)
               /\ Len(FirstRows(vals, i - 1)) = i - 1
               /\ i - 1 + c = RunEnd(vals, i) - 1
               /\ RunEnd(vals, i) - 1 <= Len(vals)
<1> DEFINE v == vals[i]
           c == RunEnd(vals, i) - i
           m == RunEnd(vals, i)
           n == Len(vals)
           p == FirstRows(vals, i - 1)
           q == [k \in 1 .. c |-> v]
           r == FirstRows(vals, m - 1)
<1>1. n \in Nat /\ m \in (i + 1) .. (n + 1) /\ \A l \in i .. (m - 1) : vals[l] = vals[i]
  BY RunEndFacts
<1>2. i \in 1 .. n /\ c = m - i /\ v = vals[i]
  OBVIOUS
<1> HIDE DEF m, n, c, v
<1>3. c \in Nat /\ i - 1 \in Nat /\ m - 1 \in Nat /\ (i - 1) + c = m - 1 /\ m - 1 <= n
  BY <1>1, <1>2
<1>4. \A l \in 1 .. n : vals[l] \in X
  BY DEF n
<1>5. v \in X
  BY <1>2, <1>4
<1>6. p \in Seq(X) /\ Len(p) = i - 1 /\ \A l \in 1 .. (i - 1) : p[l] = vals[l]
  <2>1. \A l \in 1 .. (i - 1) : vals[l] \in X
    BY <1>1, <1>2, <1>4
  <2> QED  BY <1>3, <2>1 DEF FirstRows
<1>7. q \in Seq(X) /\ Len(q) = c /\ \A l \in 1 .. c : q[l] = v
  BY <1>3, <1>5
<1>8. r \in Seq(X) /\ Len(r) = m - 1 /\ \A l \in 1 .. (m - 1) : r[l] = vals[l]
  <2>1. \A l \in 1 .. (m - 1) : vals[l] \in X
    BY <1>1, <1>3, <1>4
  <2> QED  BY <1>3, <2>1 DEF FirstRows
<1> HIDE DEF p, q, r
<1>9. /\ p \o q \in Seq(X) /\ Len(p \o q) = (i - 1) + c
      /\ \A l \in 1 .. (i - 1) : (p \o q)[l] = p[l]
      /\ \A l \in 1 .. c : (p \o q)[(i - 1) + l] = q[l]
  BY <1>3, <1>6, <1>7, ConcatFacts
<1>10. ASSUME NEW l \in 1 .. (m - 1) PROVE (p \o q)[l] = r[l]
  <2>1. CASE l <= i - 1
    <3>1. l \in 1 .. (i - 1)
      BY <1>1, <1>2, <1>3, <2>1
    <3> QED  BY <1>6, <1>8, <1>9, <3>1
  <2>2. CASE ~ (l <= i - 1)
    <3>1. l - (i - 1) \in 1 .. c /\ (i - 1) + (l - (i - 1)) = l /\ l \in i .. (m - 1)
      BY <1>1, <1>2, <1>3, <2>2
    <3>2. (p \o q)[l] = v
      BY <1>7, <1>9, <3>1
    <3>3. vals[l] = v
      BY <1>1, <1>2, <3>1
    <3> QED  BY <1>8, <3>2, <3>3
  <2> QED  BY <2>1, <2>2
<1>11. p \o q = r
  <2>1. p \o q \in Seq(X) /\ Len(p \o q) = Len(r)
    BY <1>3, <1>8, <1>9
  <2> QED  BY <1>8, <1>10, <2>1
<1>12. /\ p \o q = r /\ Len(p) = i - 1 /\ i - 1 + c = m - 1 /\ m - 1 <= n
  BY <1>3, <1>6, <1>11
<1> QED  BY <1>12, Zenon DEF p, q, r, m, n, c, v

\* As an int, a sum of words that is less than half the words is what it is.
LEMMA SmallSum ==
    ASSUME NEW a \in Nat, NEW b \in Word, NEW n \in Nat, a + b <= n, n < HalfWord
    PROVE  AsInt64(Wrap(a + b)) = a + b
<1> DEFINE x == a + b
<1>1. b \in Nat /\ HalfWord \in Nat
  BY WordSize
<1>2. x \in Nat /\ x < HalfWord
  BY <1>1
<1> HIDE DEF x
<1>3. x \in 0 .. (2 * HalfWord - 1)
  BY <1>1, <1>2
<1>4. Wrap(x) = x
  BY <1>3, WrapWord DEF Word
<1>5. AsInt64(Wrap(x)) = x
  BY <1>2, <1>4 DEF AsInt64
<1> QED  BY <1>5 DEF x

\* A run that stands in a payload is read back.
LEMMA ReadRunStands ==
    ASSUME NEW kind, NEW X, NEW vals \in Seq(X), AllWritable(kind, vals),
           Len(vals) \in Word, Len(vals) < HalfWord,
           NEW i \in 1 .. Len(vals), Takeable(kind, vals[i]), NEW d \in Seq(Byte), NEW pos \in Nat,
           Stands(RunAt(kind, vals, i), d, pos)
    PROVE  ReadRun(kind, d, [ok |-> TRUE, vals |-> FirstRows(vals, i - 1), pos |-> pos], Len(vals))
           = [ok |-> TRUE, vals |-> FirstRows(vals, RunEnd(vals, i) - 1),
              pos |-> pos + Len(RunAt(kind, vals, i))]
<1> DEFINE v == vals[i]
           c == RunEnd(vals, i) - i
           a == Put(kind, v)
           e == AppendUvarint(c)
           n == Len(vals)
           p == FirstRows(vals, i - 1)
           q == FirstRows(vals, RunEnd(vals, i) - 1)
           r == [ok |-> TRUE, vals |-> p, pos |-> pos]
           t == Take(kind, d, pos)
           o == pos + Len(a)
           u == Uvarint(d, o)
<1>0. Takeable(kind, v)
  OBVIOUS
<1>1. /\ c \in Word /\ c # 0 /\ a \in Seq(Byte) /\ e \in Seq(Byte)
      /\ Len(RunAt(kind, vals, i)) = Len(a) + Len(e) /\ Len(a) \in Nat /\ Len(e) \in Nat
  BY RunAtFacts
<1>2. RunAt(kind, vals, i) = a \o e
  BY DEF RunAt
<1>3. p \o [k \in 1 .. c |-> v] = q /\ Len(p) = i - 1 /\ i - 1 + c = RunEnd(vals, i) - 1
      /\ RunEnd(vals, i) - 1 <= n
  BY FirstRowsNext, Zenon
<1>4. Len(p) + c <= n
  BY <1>3
<1>n. n \in Nat /\ n < HalfWord /\ Len(p) \in Nat
  BY <1>3
<1> HIDE DEF v, c, a, e, p, q
<1>5. Stands(a, d, pos) /\ Stands(e, d, o)
  BY <1>1, <1>2, StandsConcat
<1>6. t = [ok |-> TRUE, val |-> v, pos |-> o]
  BY <1>0, <1>1, <1>5, TakeStands DEF a
<1>7. o \in Nat /\ o + Len(e) = pos + (Len(a) + Len(e))
  BY <1>1
<1> HIDE DEF o
<1>8. u = [ok |-> TRUE, val |-> c, pos |-> o + Len(e)]
  BY <1>1, <1>5, <1>7, UvarintStands DEF e
<1>9. ReadRun(kind, d, r, n)
      = [ok |-> TRUE, vals |-> p \o [k \in 1 .. c |-> v], pos |-> o + Len(e)]
  <2> DEFINE T == Take(kind, d, r.pos)
             U == Uvarint(d, T.pos)
  <2>1. ReadRun(kind, d, r, n) =
            IF T.ok THEN IF U.ok THEN IF U.val # 0 /\ AsInt64(Wrap(Len(r.vals) + U.val)) <= n
                                      THEN [ok |-> TRUE, vals |-> r.vals \o [k \in 1 .. U.val |-> T.val],
                                            pos |-> U.pos]
                                      ELSE Failed
                         ELSE Failed
            ELSE Failed
    BY DEF ReadRun, Then, Provided
  <2>2. r.pos = pos /\ r.vals = p
    OBVIOUS
  <2> HIDE DEF r
  <2>3. T.ok /\ T.val = v /\ T.pos = o
    BY <1>6, <2>2
  <2> HIDE DEF T
  <2>4. U.ok /\ U.val = c /\ U.pos = o + Len(e)
    BY <1>8, <2>3
  <2>5. AsInt64(Wrap(Len(p) + c)) = Len(p) + c
    <3> HIDE DEF n
    <3> QED  BY <1>1, <1>4, <1>n, SmallSum
  <2> HIDE DEF U, n
  <2> QED  BY <1>1, <1>4, <2>1, <2>2, <2>3, <2>4, <2>5
<1> QED  BY <1>1, <1>3, <1>7, <1>9 DEF p, q

\* A run that was cut is not, nor one of a string over the limit.
BrokenRun(kind, vals, i, d, pos) ==
    \/ StandsCut(RunAt(kind, vals, i), d, pos)
    \/ Stands(RunAt(kind, vals, i), d, pos) /\ ~ Takeable(kind, vals[i])

LEMMA ReadRunBroken ==
    ASSUME NEW kind, NEW X, NEW vals \in Seq(X), AllWritable(kind, vals), Len(vals) \in Word,
           NEW i \in 1 .. Len(vals), NEW d \in Seq(Byte), NEW r, r.pos \in Nat, NEW n,
           BrokenRun(kind, vals, i, d, r.pos)
    PROVE  ReadRun(kind, d, r, n) = Failed
<1> DEFINE v == vals[i]
           c == RunEnd(vals, i) - i
           a == Put(kind, v)
           e == AppendUvarint(c)
           t == Take(kind, d, r.pos)
           o == r.pos + Len(a)
           u == Uvarint(d, t.pos)
<1>1. /\ c \in Word /\ Writable(kind, v) /\ a \in Seq(Byte) /\ e \in Seq(Byte) /\ Len(a) \in Nat
  BY RunAtFacts
<1>2. RunAt(kind, vals, i) = a \o e
  BY DEF RunAt
<1>3. ReadRun(kind, d, r, n) =
          IF t.ok THEN IF u.ok THEN IF u.val # 0 /\ AsInt64(Wrap(Len(r.vals) + u.val)) <= n
                                    THEN [ok |-> TRUE, vals |-> r.vals \o [k \in 1 .. u.val |-> t.val],
                                          pos |-> u.pos]
                                    ELSE Failed
                       ELSE Failed
          ELSE Failed
  BY DEF ReadRun, Then, Provided
<1>b. \/ StandsCut(RunAt(kind, vals, i), d, r.pos)
      \/ Stands(RunAt(kind, vals, i), d, r.pos) /\ ~ Takeable(kind, v)
  BY DEF BrokenRun
<1> HIDE DEF v, c, a, e
<1>4. Broken(kind, v, d, r.pos) \/ (Stands(a, d, r.pos) /\ Takeable(kind, v) /\ StandsCut(e, d, o))
  <2>1. CASE StandsCut(RunAt(kind, vals, i), d, r.pos)
    <3>1. StandsCut(a, d, r.pos) \/ (Stands(a, d, r.pos) /\ StandsCut(e, d, o))
      BY <1>1, <1>2, <2>1, CutConcat
    <3> QED  BY <3>1 DEF Broken, a
  <2>2. CASE Stands(RunAt(kind, vals, i), d, r.pos) /\ ~ Takeable(kind, v)
    <3>1. Stands(a, d, r.pos)
      BY <1>1, <1>2, <2>2, StandsConcat
    <3> QED  BY <2>2, <3>1 DEF Broken, a
  <2> QED  BY <1>b, <2>1, <2>2
<1>5. CASE Broken(kind, v, d, r.pos)
  <2>1. t = Failed
    BY <1>1, <1>5, TakeBroken
  <2>2. ~ t.ok
    BY <2>1 DEF Failed
  <2> HIDE DEF t
  <2> QED  BY <1>3, <2>2
<1>6. CASE Stands(a, d, r.pos) /\ Takeable(kind, v) /\ StandsCut(e, d, o)
  <2>1. t = [ok |-> TRUE, val |-> v, pos |-> o]
    BY <1>1, <1>6, TakeStands DEF a
  <2>2. o \in Nat
    BY <1>1
  <2> HIDE DEF o
  <2>3. Uvarint(d, o) = Failed
    BY <1>1, <1>6, <2>2, UvarintCut DEF e
  <2>4. t.ok /\ t.pos = o
    BY <2>1
  <2> HIDE DEF t
  <2>5. ~ u.ok
    BY <2>3, <2>4 DEF Failed
  <2> HIDE DEF u
  <2> QED  BY <1>3, <2>4, <2>5
<1> QED  BY <1>4, <1>5, <1>6

\* The state of the encoder: its bytes, and the row it is at.
RunState == [out : Seq(Byte), at : Nat]

\* t[k] is where the encoder stands after k runs.
IsRuns(kind, vals, t) ==
    /\ t[0] = [out |-> <<>>, at |-> 1]
    /\ \A k \in 1 .. Len(vals) :
          t[k] = IF t[k - 1].at > Len(vals) THEN t[k - 1] ELSE PutRun(kind, vals, t[k - 1])

\* What a run adds to the state of the encoder.
RunPut(kind, vals, s) ==
    /\ PutRun(kind, vals, s).out = s.out \o RunAt(kind, vals, s.at)
    /\ PutRun(kind, vals, s).at = RunEnd(vals, s.at)
    /\ PutRun(kind, vals, s).out \in Seq(Byte)
    /\ PutRun(kind, vals, s) = [out |-> s.out \o RunAt(kind, vals, s.at),
                                at |-> RunEnd(vals, s.at)]

\* A run of the encoder.
LEMMA PutRunIs ==
    ASSUME NEW kind, NEW X, NEW vals \in Seq(X), AllWritable(kind, vals), Len(vals) \in Word,
           NEW s, s.out \in Seq(Byte), s.at \in 1 .. Len(vals)
    PROVE  RunPut(kind, vals, s)
<1> DEFINE i == s.at
           o == s.out
           a == Put(kind, vals[i])
           c == RunEnd(vals, i) - i
           e == AppendUvarint(c)
           z == RunAt(kind, vals, i)
           m == RunEnd(vals, i)
<1>0. o \in Seq(Byte)
  OBVIOUS
<1>1. a \in Seq(Byte) /\ e \in Seq(Byte) /\ RunAt(kind, vals, i) \in Seq(Byte)
  <2>1. i \in 1 .. Len(vals)
    OBVIOUS
  <2> HIDE DEF i
  <2> QED  BY <2>1, RunAtFacts
<1>2. RunAt(kind, vals, i) = a \o e
  BY DEF RunAt
<1>3. PutRun(kind, vals, s) = [out |-> (o \o a) \o e, at |-> m]
  BY DEF PutRun
<1> HIDE DEF a, e, o, z, m, i, c
<1>4. z = a \o e /\ z \in Seq(Byte)
  BY <1>1, <1>2 DEF z
<1>5. (o \o a) \o e = o \o (a \o e)
  BY <1>0, <1>1, BytesTwice, Zenon
<1>6. o \o z \in Seq(Byte)
  BY <1>0, <1>4, ConcatFacts
<1>7. PutRun(kind, vals, s) = [out |-> o \o z, at |-> m]
  BY <1>3, <1>4, <1>5
<1> DEFINE y == o \o z
<1>8. y \in Seq(Byte) /\ PutRun(kind, vals, s) = [out |-> y, at |-> m]
  BY <1>6, <1>7
<1> HIDE DEF y
<1>9. PutRun(kind, vals, s).out = y /\ PutRun(kind, vals, s).at = m
  BY <1>8
<1>10. y = s.out \o RunAt(kind, vals, s.at) /\ m = RunEnd(vals, s.at)
  BY DEF y, o, z, m, i
<1> QED  BY <1>8, <1>9, <1>10 DEF RunPut

\* The loop of the encoder is an iteration.
LEMMA RunsDef ==
    ASSUME NEW kind, NEW X, NEW vals \in Seq(X), AllWritable(kind, vals), Len(vals) \in Word
    PROVE  \E t \in [0 .. Len(vals) -> RunState] :
               IsRuns(kind, vals, t) /\ EncodeRLE(kind, vals) = t[Len(vals)].out
<1> DEFINE n == Len(vals)
           Y == [out : Seq(Byte), at : 1 .. (n + 1)]
           step(s) == IF s.at > n THEN s ELSE PutRun(kind, vals, s)
           g == [p \in (1 .. n) \X Y |-> step(p[2])]
           base == [out |-> <<>>, at |-> 1]
           Eq(h) == [k \in 0 .. n |-> IF k = 0 THEN base ELSE step(h[k - 1])]
           t == CHOOSE h : h = Eq(h)
<1>1. n \in Nat
  OBVIOUS
<1>2. ASSUME NEW s \in Y PROVE step(s) \in Y
  <2>1. CASE s.at > n
    BY <2>1
  <2>2. CASE ~ (s.at > n)
    <3>1. s.at \in 1 .. Len(vals) /\ s.out \in Seq(Byte)
      BY <1>1, <2>2
    <3>2. PutRun(kind, vals, s) = [out |-> s.out \o RunAt(kind, vals, s.at), at |-> RunEnd(vals, s.at)]
          /\ PutRun(kind, vals, s).out \in Seq(Byte)
          /\ PutRun(kind, vals, s).out = s.out \o RunAt(kind, vals, s.at)
      <4> HIDE DEF n, Y, step, g, base, Eq, t
      <4>1. s.out \in Seq(Byte) /\ s.at \in 1 .. Len(vals)
        BY <3>1
      <4>2. RunPut(kind, vals, s)
        BY <4>1, PutRunIs
      <4> QED  BY <4>2 DEF RunPut
    <3>3. RunEnd(vals, s.at) \in (s.at + 1) .. (n + 1)
      BY <3>1, RunEndFacts
    <3>4. RunEnd(vals, s.at) \in 1 .. (n + 1)
      BY <1>1, <3>1, <3>3
    <3> QED  BY <2>2, <3>2, <3>4
  <2> QED  BY <2>1, <2>2
<1>3. base \in Y
  BY <1>1
<1>4. \A k \in 1 .. n, s \in Y : g[<<k, s>>] = step(s) /\ g[<<k, s>>] \in Y
  <2>1. ASSUME NEW k \in 1 .. n, NEW s \in Y PROVE g[<<k, s>>] = step(s)
    <3>1. <<k, s>> \in (1 .. n) \X Y
      OBVIOUS
    <3> HIDE DEF n, step, Y
    <3> QED  BY <3>1
  <2> HIDE DEF step, Y, g
  <2> QED  BY <1>2, <2>1
<1>5. PICK f \in [0 .. n -> Y] : IsIteration(f, n, base, g)
  <2> HIDE DEF g, Y, base, n
  <2> QED  BY <1>1, <1>3, <1>4, Iterates
<1>6. f[0] = base /\ \A k \in 1 .. n : f[k] = step(f[k - 1])
  <2> HIDE DEF g, base, step, Y, n
  <2>1. ASSUME NEW k \in 1 .. n PROVE f[k] = step(f[k - 1])
    <3>1. k - 1 \in 0 .. n
      BY <1>1
    <3>2. f[k - 1] \in Y
      BY <1>5, <3>1
    <3> QED  BY <1>4, <1>5, <3>2 DEF IsIteration
  <2> QED  BY <1>5, <2>1 DEF IsIteration
<1>7. f = Eq(f)
  <2> HIDE DEF g, base, step, Y, n
  <2>1. f = [k \in 0 .. n |-> f[k]]
    BY <1>5
  <2>2. \A k \in 0 .. n : f[k] = IF k = 0 THEN base ELSE step(f[k - 1])
    <3>1. \A k \in 0 .. n : k = 0 \/ k \in 1 .. n
      BY <1>1
    <3>2. \A k \in 1 .. n : k # 0
      BY <1>1
    <3> QED  BY <1>6, <3>1, <3>2
  <2> QED  BY <2>1, <2>2
<1>8. EncodeRLE(kind, vals) = t[n].out
  BY DEF EncodeRLE
<1>9. t = Eq(t)
  <2> HIDE DEF Eq
  <2> QED  BY <1>7
<1> HIDE DEF t, step, base, Y, n
<1>10. t[0] = f[0]
  BY <1>1, <1>7, <1>9
<1>11. ASSUME NEW k \in 0 .. n - 1, t[k] = f[k] PROVE t[k + 1] = f[k + 1]
  <2>1. k + 1 \in 0 .. n /\ k + 1 # 0 /\ (k + 1) - 1 = k
    BY <1>1
  <2>2. t[k + 1] = Eq(t)[k + 1] /\ f[k + 1] = Eq(f)[k + 1]
    <3> HIDE DEF Eq
    <3> QED  BY <1>7, <1>9
  <2> QED  BY <1>11, <2>1, <2>2
<1>12. \A k \in 0 .. n : t[k] = f[k]
  <2> HIDE DEF Eq
  <2> QED  BY <1>1, <1>10, <1>11, SameIteration
<1>13. n \in 0 .. n
  BY <1>1
<1>14. f \in [0 .. Len(vals) -> RunState]
  <2>1. Y \subseteq RunState
    BY <1>1 DEF Y, RunState
  <2>2. \A k \in 0 .. n : f[k] \in RunState
    BY <1>5, <2>1
  <2> QED  BY <1>5, <2>2 DEF n
<1>15. IsRuns(kind, vals, f)
  BY <1>6 DEF IsRuns, n, base, step
<1> QED  BY <1>8, <1>12, <1>13, <1>14, <1>15 DEF n

\* Rows go by with every run, so that none is left after as many as rows.
LEMMA RunsProgress ==
    ASSUME NEW kind, NEW X, NEW vals \in Seq(X), AllWritable(kind, vals), Len(vals) \in Word,
           NEW t \in [0 .. Len(vals) -> RunState], IsRuns(kind, vals, t)
    PROVE  \A k \in 0 .. Len(vals) :
               t[k].at \in 1 .. (Len(vals) + 1) /\ (t[k].at <= Len(vals) => t[k].at > k)
<1> DEFINE n == Len(vals)
           S == {k \in 0 .. n : t[k].at \in 1 .. (n + 1) /\ (t[k].at <= n => t[k].at > k)}
<1>1. n \in Nat
  OBVIOUS
<1>2. 0 \in S
  <2>1. t[0].at = 1
    BY DEF IsRuns
  <2> QED  BY <1>1, <2>1
<1>3. ASSUME NEW k \in 0 .. n - 1, k \in S PROVE k + 1 \in S
  <2> DEFINE i == t[k].at
  <2>1. k + 1 \in 1 .. n /\ (k + 1) - 1 = k /\ k \in 0 .. n /\ k + 1 \in 0 .. n
    BY <1>1
  <2>2. t[k + 1] = IF i > n THEN t[k] ELSE PutRun(kind, vals, t[k])
    BY <2>1 DEF IsRuns
  <2>3. i \in 1 .. (n + 1) /\ (i <= n => i > k) /\ t[k].out \in Seq(Byte)
    <3>1. t[k] \in RunState
      BY <2>1
    <3> QED  BY <1>3, <3>1 DEF RunState
  <2>4. CASE i > n
    <3>1. t[k + 1].at = i
      BY <2>2, <2>4
    <3> HIDE DEF i
    <3>2. ~ (i <= n)
      BY <1>1, <2>3, <2>4
    <3> QED  BY <2>1, <2>3, <3>1, <3>2
  <2>5. CASE ~ (i > n)
    <3>1. i \in 1 .. Len(vals)
      BY <1>1, <2>3, <2>5
    <3>2. PutRun(kind, vals, t[k]).at = RunEnd(vals, i)
      BY <2>3, <3>1, PutRunIs DEF RunPut
    <3>3. RunEnd(vals, i) \in (i + 1) .. (n + 1)
      <4> HIDE DEF i
      <4> QED  BY <3>1, RunEndFacts
    <3>4. t[k + 1].at = RunEnd(vals, i)
      BY <2>2, <2>5, <3>2
    <3> DEFINE m == RunEnd(vals, i)
    <3>5. m \in 1 .. (n + 1) /\ m > k + 1
      <4>1. i > k /\ i \in Nat /\ k \in Nat
        BY <1>1, <2>1, <2>3, <3>1
      <4> HIDE DEF i, m
      <4> QED  BY <1>1, <3>1, <3>3, <4>1 DEF m
    <3> QED  BY <2>1, <3>4, <3>5
  <2> QED  BY <2>4, <2>5
<1> HIDE DEF S
<1>4. \A k \in 0 .. n : k \in S
  BY <1>1, <1>2, <1>3, Reaches
<1> QED  BY <1>4 DEF S

\* h[k] is what the decoder has after k runs.
IsRunReading(kind, d, n, h) ==
    h = [k \in 0 .. n |-> IF k = 0 THEN Start(0)
                          ELSE IF h[k - 1].ok
                               THEN IF Len(h[k - 1].vals) >= n THEN h[k - 1]
                                    ELSE ReadRun(kind, d, h[k - 1], n)
                               ELSE Failed]

\* The loop of the decoder is that function.
LEMMA ReadRunsIs ==
    ASSUME NEW kind, NEW d, NEW n \in Nat, NEW h, IsRunReading(kind, d, n, h)
    PROVE  ReadRuns(kind, d, n) = IF h[n].ok THEN IF Len(h[n].vals) = n THEN h[n] ELSE Failed
                                ELSE Failed
<1> DEFINE Eq(x) == [k \in 0 .. n |-> IF k = 0 THEN Start(0)
                                      ELSE IF x[k - 1].ok
                                           THEN IF Len(x[k - 1].vals) >= n THEN x[k - 1]
                                                ELSE ReadRun(kind, d, x[k - 1], n)
                                           ELSE Failed]
           t == CHOOSE x : x = Eq(x)
<1>1. ReadRuns(kind, d, n) = IF t[n].ok THEN IF Len(t[n].vals) = n THEN t[n] ELSE Failed
                             ELSE Failed
  BY DEF ReadRuns, Then, Provided
<1>2. h = Eq(h)
  BY DEF IsRunReading
<1>3. t = Eq(t)
  <2> HIDE DEF Eq
  <2> QED  BY <1>2
<1> HIDE DEF t
<1>4. t[0] = h[0]
  BY <1>2, <1>3
<1>5. ASSUME NEW k \in 0 .. n - 1, t[k] = h[k] PROVE t[k + 1] = h[k + 1]
  <2>1. k + 1 \in 0 .. n /\ k + 1 # 0 /\ (k + 1) - 1 = k
    OBVIOUS
  <2>2. t[k + 1] = Eq(t)[k + 1] /\ h[k + 1] = Eq(h)[k + 1]
    <3> HIDE DEF Eq
    <3> QED  BY <1>2, <1>3
  <2> QED  BY <1>5, <2>1, <2>2
<1>6. \A k \in 0 .. n : t[k] = h[k]
  <2> HIDE DEF Eq
  <2> QED  BY <1>4, <1>5, SameIteration
<1>7. t[n] = h[n]
  BY <1>6
<1> HIDE DEF Eq
<1> QED  BY <1>1, <1>7

\* The runs as pieces of the payload, empty ones when no row is left.
RunPieces(kind, vals, t) ==
    [k \in 1 .. Len(vals) |-> IF t[k - 1].at > Len(vals) THEN <<>>
                              ELSE RunAt(kind, vals, t[k - 1].at)]

\* The bytes after each run.
Outs(vals, t) == [k \in 0 .. Len(vals) |-> t[k].out]

\* The pieces joined are what the encoder wrote.
LEMMA RunPiecesAre ==
    ASSUME NEW kind, NEW X, NEW vals \in Seq(X), AllWritable(kind, vals), Len(vals) \in Word,
           NEW t \in [0 .. Len(vals) -> RunState], IsRuns(kind, vals, t)
    PROVE  /\ RunPieces(kind, vals, t) \in Seq(Seq(Byte))
           /\ Len(RunPieces(kind, vals, t)) = Len(vals)
           /\ Outs(vals, t) \in [0 .. Len(vals) -> Seq(Byte)]
           /\ IsJoined(RunPieces(kind, vals, t), Outs(vals, t))
<1> DEFINE n == Len(vals)
           s == RunPieces(kind, vals, t)
           f == Outs(vals, t)
<1>1. n \in Nat /\ \A k \in 0 .. n : t[k].out \in Seq(Byte)
  <2>1. \A k \in 0 .. n : t[k] \in RunState
    OBVIOUS
  <2> QED  BY <2>1 DEF RunState
<1>2. ASSUME NEW k \in 1 .. n
      PROVE  s[k] \in Seq(Byte) /\ t[k].out = t[k - 1].out \o s[k]
  <2> DEFINE i == t[k - 1].at
             o == t[k - 1].out
  <2>1. k - 1 \in 0 .. n
    BY <1>1
  <2>2. i \in 1 .. (n + 1) /\ o \in Seq(Byte)
    BY <1>1, <2>1, RunsProgress
  <2>3. t[k] = IF i > n THEN t[k - 1] ELSE PutRun(kind, vals, t[k - 1])
    BY DEF IsRuns
  <2>4. s[k] = IF i > n THEN <<>> ELSE RunAt(kind, vals, i)
    BY DEF RunPieces
  <2>5. CASE i > n
    <3>1. s[k] = <<>> /\ t[k].out = o
      BY <2>3, <2>4, <2>5
    <3>2. o \o <<>> = o /\ <<>> \in Seq(Byte)
      <4> HIDE DEF o
      <4> QED  BY <2>2
    <3> QED  BY <3>1, <3>2
  <2>6. CASE ~ (i > n)
    <3>1. i \in 1 .. Len(vals)
      BY <1>1, <2>2, <2>6
    <3>2. RunPut(kind, vals, t[k - 1])
      BY <2>2, <3>1, PutRunIs
    <3>3. RunAt(kind, vals, i) \in Seq(Byte)
      <4> HIDE DEF i
      <4> QED  BY <3>1, RunAtFacts
    <3>4. PutRun(kind, vals, t[k - 1]).out = o \o RunAt(kind, vals, i)
      BY <3>2 DEF RunPut
    <3> QED  BY <2>3, <2>4, <2>6, <3>3, <3>4
  <2> QED  BY <2>5, <2>6
<1>3. s \in Seq(Seq(Byte)) /\ Len(s) = n
  <2>1. s = [k \in 1 .. n |-> s[k]]
    BY DEF RunPieces
  <2> HIDE DEF s
  <2> QED  BY <1>1, <1>2, <2>1
<1>4. f \in [0 .. n -> Seq(Byte)] /\ \A k \in 0 .. n : f[k] = t[k].out
  BY <1>1 DEF Outs
<1>5. IsJoined(s, f)
  <2>1. f[0] = <<>>
    <3>1. 0 \in 0 .. n /\ t[0].out = <<>>
      BY <1>1 DEF IsRuns
    <3> QED  BY <1>4, <3>1
  <2>2. ASSUME NEW k \in 1 .. n PROVE f[k] = f[k - 1] \o s[k]
    <3>1. k \in 0 .. n /\ k - 1 \in 0 .. n
      BY <1>1
    <3> HIDE DEF s, f
    <3> QED  BY <1>2, <1>4, <3>1
  <2> HIDE DEF s, f
  <2> QED  BY <1>3, <2>1, <2>2 DEF IsJoined
<1> QED  BY <1>3, <1>4, <1>5

\* What the decoder has when the encoder was at t[k].
RunsRead(vals, t, k) ==
    [ok |-> TRUE, vals |-> FirstRows(vals, t[k].at - 1), pos |-> Len(t[k].out)]

\* The decoder follows the encoder by one run.
LEMMA ReadRunFollows ==
    ASSUME NEW kind, NEW X, NEW vals \in Seq(X), AllWritable(kind, vals),
           Len(vals) \in Word, Len(vals) < HalfWord,
           NEW t \in [0 .. Len(vals) -> RunState], IsRuns(kind, vals, t),
           NEW d \in Seq(Byte), NEW k \in 0 .. Len(vals) - 1,
           Stands(RunPieces(kind, vals, t)[k + 1], d, Len(t[k].out)),
           t[k].at <= Len(vals) => Takeable(kind, vals[t[k].at])
    PROVE  RunsRead(vals, t, k + 1) =
               IF Len(RunsRead(vals, t, k).vals) >= Len(vals) THEN RunsRead(vals, t, k)
               ELSE ReadRun(kind, d, RunsRead(vals, t, k), Len(vals))
<1> DEFINE n == Len(vals)
           i == t[k].at
           o == t[k].out
           r == RunsRead(vals, t, k)
<1>1. n \in Nat /\ k \in 0 .. n /\ k + 1 \in 1 .. n /\ k + 1 \in 0 .. n /\ (k + 1) - 1 = k
  OBVIOUS
<1>2. i \in 1 .. (n + 1) /\ o \in Seq(Byte)
  <2>1. t[k] \in RunState
    BY <1>1
  <2> QED  BY <1>1, <2>1, RunsProgress DEF RunState
<1>3. t[k + 1] = IF i > n THEN t[k] ELSE PutRun(kind, vals, t[k])
  BY <1>1 DEF IsRuns
<1>4. RunPieces(kind, vals, t)[k + 1] = IF i > n THEN <<>> ELSE RunAt(kind, vals, i)
  BY <1>1 DEF RunPieces
<1>5. Len(r.vals) = i - 1
  <2>1. Len(FirstRows(vals, i - 1)) = i - 1
    <3> HIDE DEF i, n
    <3> QED  BY <1>1, <1>2 DEF FirstRows
  <2> QED  BY <2>1 DEF RunsRead
<1>6. CASE i > n
  <2>1. i - 1 = n /\ t[k + 1] = t[k]
    BY <1>1, <1>2, <1>3, <1>6
  <2>2. RunsRead(vals, t, k + 1) = r
    BY <2>1 DEF RunsRead
  <2>3. Len(r.vals) = Len(vals)
    BY <1>5, <2>1
  <2> HIDE DEF n
  <2> QED  BY <2>2, <2>3
<1>7. CASE ~ (i > n)
  <2>1. i \in 1 .. Len(vals) /\ i - 1 # n
    BY <1>1, <1>2, <1>7
  <2>t. Takeable(kind, vals[i])
    <3>1. i <= Len(vals)
      BY <2>1
    <3> QED  BY <3>1
  <2>2. RunPut(kind, vals, t[k])
    BY <1>2, <2>1, PutRunIs
  <2>3. RunAt(kind, vals, i) \in Seq(Byte)
    <3> HIDE DEF i
    <3> QED  BY <2>1, RunAtFacts
  <2>4. t[k + 1].out = o \o RunAt(kind, vals, i) /\ t[k + 1].at = RunEnd(vals, i)
    BY <1>3, <1>7, <2>2 DEF RunPut
  <2>5. Len(t[k + 1].out) = Len(o) + Len(RunAt(kind, vals, i)) /\ Len(o) \in Nat
    <3> HIDE DEF o, i
    <3> QED  BY <1>2, <2>3, <2>4, ConcatFacts
  <2>6. Stands(RunAt(kind, vals, i), d, Len(o))
    BY <1>4, <1>7
  <2>7. ReadRun(kind, d, [ok |-> TRUE, vals |-> FirstRows(vals, i - 1), pos |-> Len(o)], Len(vals))
        = [ok |-> TRUE, vals |-> FirstRows(vals, RunEnd(vals, i) - 1),
           pos |-> Len(o) + Len(RunAt(kind, vals, i))]
    <3> DEFINE q == Len(o)
    <3>1. q \in Nat /\ Stands(RunAt(kind, vals, i), d, q)
      BY <2>5, <2>6
    <3> HIDE DEF q, i
    <3>2. ReadRun(kind, d, [ok |-> TRUE, vals |-> FirstRows(vals, i - 1), pos |-> q], Len(vals))
          = [ok |-> TRUE, vals |-> FirstRows(vals, RunEnd(vals, i) - 1),
             pos |-> q + Len(RunAt(kind, vals, i))]
      BY <2>1, <2>t, <3>1, ReadRunStands
    <3> QED  BY <3>2 DEF q
  <2>8. r = [ok |-> TRUE, vals |-> FirstRows(vals, i - 1), pos |-> Len(o)]
    BY DEF RunsRead
  <2>9. RunsRead(vals, t, k + 1) = [ok |-> TRUE, vals |-> FirstRows(vals, RunEnd(vals, i) - 1),
                                    pos |-> Len(o) + Len(RunAt(kind, vals, i))]
    BY <2>4, <2>5 DEF RunsRead
  <2>10. ~ (Len(r.vals) >= n)
    <3> HIDE DEF r, i, n
    <3>1. i \in 1 .. n /\ Len(r.vals) = i - 1
      BY <1>5, <2>1 DEF n
    <3> QED  BY <1>1, <3>1
  <2>11. RunsRead(vals, t, k + 1) = ReadRun(kind, d, r, Len(vals))
    <3> HIDE DEF r, i, o
    <3> QED  BY <2>7, <2>8, <2>9
  <2>12. r = RunsRead(vals, t, k)
    OBVIOUS
  <2> HIDE DEF r
  <2> QED  BY <2>10, <2>11, <2>12
<1> QED  BY <1>6, <1>7

\* Runs that stand in a payload are read back, each and in order.
LEMMA RunsStand ==
    ASSUME NEW kind, NEW X, NEW vals \in Seq(X), AllTakeable(kind, vals),
           Len(vals) \in Word, Len(vals) < HalfWord,
           NEW d \in Seq(Byte), Stands(EncodeRLE(kind, vals), d, 0)
    PROVE  Exact(ReadRuns(kind, d, Len(vals)), vals)
<1> DEFINE n == Len(vals)
<1>0. AllWritable(kind, vals)
  BY AllTakeableIsWritable
<1>1. n \in Nat
  OBVIOUS
<1>2. PICK t \in [0 .. n -> RunState] : IsRuns(kind, vals, t) /\ EncodeRLE(kind, vals) = t[n].out
  BY <1>0, RunsDef
<1> DEFINE s == RunPieces(kind, vals, t)
           f == Outs(vals, t)
           h == [k \in 0 .. n |-> RunsRead(vals, t, k)]
<1>3. s \in Seq(Seq(Byte)) /\ Len(s) = n /\ f \in [0 .. n -> Seq(Byte)] /\ IsJoined(s, f)
      /\ \A k \in 0 .. n : f[k] = t[k].out
  <2>1. s \in Seq(Seq(Byte)) /\ Len(s) = n /\ f \in [0 .. n -> Seq(Byte)] /\ IsJoined(s, f)
    BY <1>0, <1>2, RunPiecesAre
  <2>2. \A k \in 0 .. n : f[k] = t[k].out
    BY DEF Outs
  <2> QED  BY <2>1, <2>2
<1> HIDE DEF s, f
<1>4. \A k \in 1 .. n : Stands(s[k], d, 0 + Len(f[k - 1]))
  <2>1. Stands(f[Len(s)], d, 0)
    <3>1. n \in 0 .. n
      BY <1>1
    <3> QED  BY <1>2, <1>3, <3>1
  <2> QED  BY <1>3, <2>1, PiecesStand
<1>5. ASSUME NEW k \in 0 .. n - 1
      PROVE  RunsRead(vals, t, k + 1) =
                 IF Len(RunsRead(vals, t, k).vals) >= n THEN RunsRead(vals, t, k)
                 ELSE ReadRun(kind, d, RunsRead(vals, t, k), n)
  <2>1. k + 1 \in 1 .. n /\ (k + 1) - 1 = k /\ k \in 0 .. n
    BY <1>1
  <2>2. f[k] \in Seq(Byte) /\ f[k] = t[k].out
    BY <1>3, <2>1
  <2>3. Len(f[k]) \in Nat
    BY <2>2
  <2>4. Stands(s[k + 1], d, Len(t[k].out))
    <3>1. Stands(s[k + 1], d, 0 + Len(f[k]))
      BY <1>4, <2>1
    <3>2. 0 + Len(f[k]) = Len(f[k])
      BY <2>3
    <3> QED  BY <2>2, <3>1, <3>2
  <2>5. t[k].at <= Len(vals) => Takeable(kind, vals[t[k].at])
    <3>1. t[k].at \in 1 .. (Len(vals) + 1)
      BY <1>0, <1>2, <2>1, RunsProgress
    <3>2. t[k].at <= Len(vals) => t[k].at \in 1 .. Len(vals)
      BY <3>1
    <3> QED  BY <3>2 DEF AllTakeable
  <2> QED  BY <1>0, <1>2, <2>4, <2>5, ReadRunFollows DEF s
<1>6. RunsRead(vals, t, 0) = Start(0)
  <2>1. t[0].at = 1 /\ t[0].out = <<>>
    BY <1>2 DEF IsRuns
  <2>2. FirstRows(vals, 1 - 1) = <<>>
    <3>1. 1 - 1 = 0
      OBVIOUS
    <3> QED  BY <3>1, PrefixEnds DEF FirstRows
  <2>3. Len(<<>>) = 0
    OBVIOUS
  <2> QED  BY <2>1, <2>2, <2>3 DEF RunsRead, Start
<1>7. IsRunReading(kind, d, n, h)
  <2>1. ASSUME NEW k \in 0 .. n
        PROVE  h[k] = IF k = 0 THEN Start(0)
                      ELSE IF h[k - 1].ok
                           THEN IF Len(h[k - 1].vals) >= n THEN h[k - 1]
                                ELSE ReadRun(kind, d, h[k - 1], n)
                           ELSE Failed
    <3>1. CASE k = 0
      BY <1>6, <3>1
    <3>2. CASE k # 0
      <4>1. PICK m : m = k - 1 /\ m + 1 = k
        BY <1>1
      <4>2. m \in 0 .. n - 1 /\ m \in 0 .. n /\ m + 1 \in 0 .. n
        BY <1>1, <3>2, <4>1
      <4>3. h[m + 1] = RunsRead(vals, t, m + 1) /\ h[m] = RunsRead(vals, t, m)
        BY <4>2
      <4>4. h[m].ok
        BY <4>3 DEF RunsRead
      <4> HIDE DEF h
      <4>5. h[m + 1] = IF Len(h[m].vals) >= n THEN h[m] ELSE ReadRun(kind, d, h[m], n)
        BY <1>5, <4>2, <4>3
      <4> QED  BY <3>2, <4>1, <4>4, <4>5
    <3> QED  BY <3>1, <3>2
  <2>2. h = [k \in 0 .. n |-> h[k]]
    OBVIOUS
  <2> HIDE DEF h
  <2> QED  BY <2>1, <2>2 DEF IsRunReading
<1>8. FirstRows(vals, t[n].at - 1) = vals
  <2>1. t[n].at \in 1 .. (n + 1) /\ (t[n].at <= n => t[n].at > n)
    <3>1. n \in 0 .. n
      BY <1>1
    <3> QED  BY <1>0, <1>2, <3>1, RunsProgress
  <2> DEFINE i == t[n].at
  <2>2. i - 1 = n
    <3> HIDE DEF i
    <3>1. i \in 1 .. (n + 1) /\ (i <= n => i > n)
      BY <2>1 DEF i
    <3> HIDE DEF n
    <3> QED  BY <1>1, <3>1
  <2> QED  BY <2>2, PrefixEnds DEF FirstRows
<1>9. ReadRuns(kind, d, n) = RunsRead(vals, t, n)
  <2>1. h[n] = RunsRead(vals, t, n)
    BY <1>1
  <2>2. h[n].ok /\ Len(h[n].vals) = n
    <3> HIDE DEF h
    <3> QED  BY <1>8, <2>1 DEF RunsRead
  <2> HIDE DEF h
  <2> QED  BY <1>1, <1>7, <2>1, <2>2, ReadRunsIs
<1> QED  BY <1>8, <1>9 DEF Exact, RunsRead

\* Runs that were cut are not: the first one that is broken fails.
LEMMA RunsCut ==
    ASSUME NEW kind, NEW X, NEW vals \in Seq(X), AllWritable(kind, vals),
           Len(vals) \in Word, Len(vals) < HalfWord,
           NEW d \in Seq(Byte), StandsCut(EncodeRLE(kind, vals), d, 0)
    PROVE  ReadRuns(kind, d, Len(vals)) = Failed
<1> DEFINE n == Len(vals)
<1>1. n \in Nat /\ Len(d) \in Nat /\ 0 <= Len(d)
  OBVIOUS
<1>2. PICK t \in [0 .. n -> RunState] : IsRuns(kind, vals, t) /\ EncodeRLE(kind, vals) = t[n].out
  BY RunsDef
<1> DEFINE s == RunPieces(kind, vals, t)
           f == Outs(vals, t)
<1>3. s \in Seq(Seq(Byte)) /\ Len(s) = n /\ f \in [0 .. n -> Seq(Byte)] /\ IsJoined(s, f)
      /\ \A k \in 0 .. n : f[k] = t[k].out
  <2>1. s \in Seq(Seq(Byte)) /\ Len(s) = n /\ f \in [0 .. n -> Seq(Byte)] /\ IsJoined(s, f)
    BY <1>2, RunPiecesAre
  <2>2. \A k \in 0 .. n : f[k] = t[k].out
    BY DEF Outs
  <2> QED  BY <2>1, <2>2
<1> HIDE DEF s, f
<1>4. PICK l \in 1 .. n : /\ StandsCut(s[l], d, 0 + Len(f[l - 1]))
                          /\ \A k \in 1 .. l - 1 : Stands(s[k], d, 0 + Len(f[k - 1]))
  <2>1. StandsCut(f[Len(s)], d, 0)
    <3>1. n \in 0 .. n
      BY <1>1
    <3> QED  BY <1>2, <1>3, <3>1
  <2>2. 0 \in Nat
    OBVIOUS
  <2> QED  BY <1>1, <1>3, <2>1, <2>2, PiecesCut
<1>5. PICK q : q = l - 1 /\ q + 1 = l /\ q \in 0 .. n - 1 /\ q \in 0 .. n /\ q \in Nat
  BY <1>1
<1>6. \A k \in 0 .. n : f[k] \in Seq(Byte) /\ Len(f[k]) \in Nat /\ 0 + Len(f[k]) = Len(t[k].out)
                        /\ t[k].out \in Seq(Byte)
  <2>1. \A k \in 0 .. n : f[k] \in Seq(Byte) /\ f[k] = t[k].out
    BY <1>3
  <2>2. \A k \in 0 .. n : Len(f[k]) \in Nat
    BY <2>1
  <2>3. \A x \in Nat : 0 + x = x
    OBVIOUS
  <2> QED  BY <2>1, <2>2, <2>3
<1>8. t[q].at \in 1 .. n
  <2>1. t[q].at \in 1 .. (n + 1)
    BY <1>2, <1>5, RunsProgress
  <2>2. SUFFICES ASSUME t[q].at > n PROVE FALSE
    <3> DEFINE i == t[q].at
    <3> HIDE DEF i, n
    <3> QED  BY <1>1, <2>1 DEF i
  <2>3. s[l] = <<>>
    BY <1>5, <2>2 DEF s, RunPieces
  <2>4. Len(d) < Len(t[q].out)
    <3>1. Len(d) < Len(t[q].out) + Len(<<>>)
      BY <1>4, <1>5, <1>6, <2>3 DEF StandsCut
    <3>2. Len(t[q].out) \in Nat /\ Len(<<>>) = 0
      BY <1>5, <1>6
    <3> QED  BY <1>1, <3>1, <3>2
  <2>5. CASE q = 0
    <3>1. t[0].at = 1
      BY <1>2 DEF IsRuns
    <3> QED  BY <1>1, <2>2, <2>5, <3>1
  <2>6. CASE q # 0
    <3>1. q \in 1 .. l - 1 /\ q \in 1 .. n /\ q - 1 \in 0 .. n /\ q \in 1 .. Len(s)
      BY <1>1, <1>3, <1>5, <2>6
    <3>2. Stands(s[q], d, Len(t[q - 1].out))
      BY <1>4, <1>6, <3>1
    <3>3. Len(t[q - 1].out) + Len(s[q]) <= Len(d)
      BY <3>2 DEF Stands
    <3>4. f[q] = f[q - 1] \o s[q] /\ f[q - 1] = t[q - 1].out /\ f[q] = t[q].out
      BY <1>3, <1>5, <3>1 DEF IsJoined
    <3>5. s[q] \in Seq(Byte) /\ f[q - 1] \in Seq(Byte)
      <4>1. \A k \in 1 .. Len(s) : s[k] \in Seq(Byte)
        BY <1>3
      <4> QED  BY <1>6, <3>1, <4>1
    <3>6. Len(f[q]) = Len(f[q - 1]) + Len(s[q]) /\ Len(s[q]) \in Nat /\ Len(f[q - 1]) \in Nat
      BY <3>4, <3>5, ConcatFacts
    <3>7. Len(t[q].out) <= Len(d)
      BY <3>3, <3>4, <3>6
    <3> DEFINE x == Len(t[q].out)
    <3>8. x \in Nat
      BY <1>5, <1>6
    <3> HIDE DEF x
    <3> QED  BY <1>1, <2>4, <3>7, <3>8 DEF x
  <2> QED  BY <2>5, <2>6
<1> DEFINE B(k) == t[k].at \in 1 .. n /\ BrokenRun(kind, vals, t[k].at, d, Len(t[k].out))
<1>a. B(q)
  <2>1. s[l] = RunAt(kind, vals, t[q].at)
    <3>1. ~ (t[q].at > n)
      BY <1>1, <1>8
    <3> QED  BY <1>5, <3>1 DEF s, RunPieces
  <2>2. StandsCut(RunAt(kind, vals, t[q].at), d, Len(t[q].out))
    BY <1>4, <1>5, <1>6, <2>1
  <2> QED  BY <1>8, <2>2 DEF BrokenRun
<1>b. PICK m \in 0 .. n - 1 : m <= q /\ B(m) /\ \A k \in 0 .. n - 1 : k < m => ~ B(k)
  <2> DEFINE D == {k \in 0 .. n - 1 : k <= q /\ B(k)}
             m == Min(D)
  <2> HIDE DEF B
  <2>1. q \in D /\ D \in SUBSET Nat
    BY <1>1, <1>5, <1>a
  <2>2. m \in D /\ \A y \in D : m <= y
    <3> HIDE DEF D
    <3> QED  BY <2>1, MinOfNats
  <2> HIDE DEF m
  <2>3. ASSUME NEW k \in 0 .. n - 1, k < m PROVE ~ B(k)
    <3> SUFFICES ASSUME B(k) PROVE FALSE
      OBVIOUS
    <3>1. k <= q /\ ~ (m <= k)
      BY <1>1, <1>5, <2>2, <2>3
    <3> QED  BY <2>2, <3>1
  <2> QED  BY <2>2, <2>3
<1>c. m \in Nat /\ m \in 0 .. n /\ m + 1 \in 1 .. n
  BY <1>1
<1>7. ASSUME NEW k \in 0 .. n - 1, k < m
      PROVE  RunsRead(vals, t, k + 1) =
                 IF Len(RunsRead(vals, t, k).vals) >= n THEN RunsRead(vals, t, k)
                 ELSE ReadRun(kind, d, RunsRead(vals, t, k), n)
  <2>1. k + 1 \in 1 .. l - 1 /\ (k + 1) - 1 = k /\ k \in 0 .. n /\ k + 1 \in 1 .. n
    BY <1>1, <1>5, <1>7, <1>b
  <2>2. Stands(s[k + 1], d, Len(t[k].out))
    BY <1>4, <1>6, <2>1
  <2>3. ASSUME t[k].at <= Len(vals) PROVE Takeable(kind, vals[t[k].at])
    <3> DEFINE i == t[k].at
    <3>1. i \in 1 .. (Len(vals) + 1)
      BY <1>2, <2>1, RunsProgress
    <3>2. i \in 1 .. n /\ ~ (i > n)
      BY <1>1, <2>3, <3>1
    <3>3. s[k + 1] = RunAt(kind, vals, i)
      BY <2>1, <3>2 DEF s, RunPieces
    <3>4. ~ B(k)
      BY <1>7, <1>b
    <3> QED  BY <2>2, <3>2, <3>3, <3>4 DEF BrokenRun
  <2> QED  BY <1>2, <2>2, <2>3, ReadRunFollows DEF s
<1>9. RunsRead(vals, t, m).ok /\ ~ (Len(RunsRead(vals, t, m).vals) >= n)
      /\ ReadRun(kind, d, RunsRead(vals, t, m), n) = Failed
  <2> DEFINE i == t[m].at
             r == RunsRead(vals, t, m)
  <2>1. r.ok /\ r.vals = FirstRows(vals, i - 1) /\ r.pos = Len(t[m].out)
    BY DEF RunsRead
  <2>2. i \in 1 .. n /\ BrokenRun(kind, vals, i, d, Len(t[m].out))
    BY <1>b
  <2>3. r.pos \in Nat /\ BrokenRun(kind, vals, i, d, r.pos)
    <3> HIDE DEF r, i
    <3> QED  BY <1>6, <1>c, <2>1, <2>2
  <2>4. Len(FirstRows(vals, i - 1)) = i - 1 /\ ~ (i - 1 >= n)
    <3> HIDE DEF i
    <3>1. i \in 1 .. n
      BY <2>2
    <3> QED  BY <1>1, <3>1 DEF FirstRows
  <2>5. ReadRun(kind, d, r, n) = Failed
    <3>1. i \in 1 .. Len(vals)
      BY <2>2
    <3> HIDE DEF r, i
    <3> QED  BY <2>3, <3>1, ReadRunBroken
  <2> HIDE DEF i
  <2>6. ~ (Len(r.vals) >= n)
    BY <2>1, <2>4
  <2> QED  BY <2>1, <2>5, <2>6
<1>10. RunsRead(vals, t, 0) = Start(0)
  <2>1. t[0].at = 1 /\ t[0].out = <<>>
    BY <1>2 DEF IsRuns
  <2>2. FirstRows(vals, 1 - 1) = <<>>
    <3>1. 1 - 1 = 0
      OBVIOUS
    <3> QED  BY <3>1, PrefixEnds DEF FirstRows
  <2>3. Len(<<>>) = 0
    OBVIOUS
  <2> QED  BY <2>1, <2>2, <2>3 DEF RunsRead, Start
<1> DEFINE h == [k \in 0 .. n |-> IF k <= m THEN RunsRead(vals, t, k) ELSE Failed]
<1>11. IsRunReading(kind, d, n, h)
  <2>1. ASSUME NEW k \in 0 .. n
        PROVE  h[k] = IF k = 0 THEN Start(0)
                      ELSE IF h[k - 1].ok
                           THEN IF Len(h[k - 1].vals) >= n THEN h[k - 1]
                                ELSE ReadRun(kind, d, h[k - 1], n)
                           ELSE Failed
    <3>1. CASE k = 0
      BY <1>c, <1>10, <3>1
    <3>2. CASE k # 0
      <4>1. PICK pre : pre = k - 1 /\ pre + 1 = k
        BY <1>1
      <4>2. pre \in 0 .. n - 1 /\ pre \in 0 .. n /\ pre + 1 \in 0 .. n
        BY <1>1, <3>2, <4>1
      <4>3. h[pre + 1] = IF pre + 1 <= m THEN RunsRead(vals, t, pre + 1) ELSE Failed
        BY <4>2
      <4>4. h[pre] = IF pre <= m THEN RunsRead(vals, t, pre) ELSE Failed
        BY <4>2
      <4>5. ~ Failed.ok /\ \A x : RunsRead(vals, t, x).ok
        BY DEF Failed, RunsRead
      <4> HIDE DEF h
      <4>6. CASE pre < m
        <5>1. pre <= m /\ pre + 1 <= m
          BY <1>c, <4>2, <4>6
        <5>2. h[pre].ok
          BY <4>4, <4>5, <5>1
        <5>3. h[pre + 1] = IF Len(h[pre].vals) >= n THEN h[pre] ELSE ReadRun(kind, d, h[pre], n)
          BY <1>7, <4>2, <4>3, <4>4, <4>6, <5>1
        <5> QED  BY <3>2, <4>1, <5>2, <5>3
      <4>7. CASE pre = m
        <5>1. pre <= m /\ ~ (pre + 1 <= m)
          BY <1>c, <4>7
        <5>2. h[pre] = RunsRead(vals, t, m) /\ h[pre + 1] = Failed
          BY <4>3, <4>4, <4>7, <5>1
        <5> QED  BY <1>9, <3>2, <4>1, <5>2
      <4>8. CASE pre > m
        <5>1. ~ (pre <= m) /\ ~ (pre + 1 <= m)
          BY <1>c, <4>2, <4>8
        <5>2. h[pre] = Failed /\ h[pre + 1] = Failed
          BY <4>3, <4>4, <5>1
        <5> QED  BY <3>2, <4>1, <4>5, <5>2
      <4>9. pre < m \/ pre = m \/ pre > m
        BY <1>c, <4>2
      <4> QED  BY <4>6, <4>7, <4>8, <4>9
    <3> QED  BY <3>1, <3>2
  <2>2. h = [k \in 0 .. n |-> h[k]]
    OBVIOUS
  <2> HIDE DEF h
  <2> QED  BY <2>1, <2>2 DEF IsRunReading
<1>12. h[n] = Failed
  <2>1. ~ (n <= m) /\ n \in 0 .. n
    BY <1>1, <1>c
  <2> QED  BY <2>1
<1>13. ~ h[n].ok
  <2> HIDE DEF h
  <2> QED  BY <1>12 DEF Failed
<1> HIDE DEF h
<1> QED  BY <1>1, <1>11, <1>13, ReadRunsIs

\* Runs of values of either kind.
LEMMA RLEExact ==
    ASSUME NEW kind, NEW X, NEW vals \in Seq(X), AllWritable(kind, vals),
           Len(vals) \in Word, Len(vals) < HalfWord
    PROVE  /\ EncodeRLE(kind, vals) \in Seq(Byte)
           /\ AllTakeable(kind, vals) =>
                 Exact(ReadRuns(kind, EncodeRLE(kind, vals), Len(vals)), vals)
           /\ \A n \in 0 .. Len(EncodeRLE(kind, vals)) - 1 :
                 ReadRuns(kind, SubSeq(EncodeRLE(kind, vals), 1, n), Len(vals)) = Failed
<1> DEFINE e == EncodeRLE(kind, vals)
<1>1. e \in Seq(Byte)
  <2>1. PICK t \in [0 .. Len(vals) -> RunState] : e = t[Len(vals)].out
    BY RunsDef
  <2>2. Len(vals) \in 0 .. Len(vals)
    OBVIOUS
  <2>3. t[Len(vals)] \in RunState
    BY <2>2
  <2> QED  BY <2>1, <2>3 DEF RunState
<1>2. AllTakeable(kind, vals) => Exact(ReadRuns(kind, e, Len(vals)), vals)
  BY <1>1, WholeStands, RunsStand
<1>3. ASSUME NEW n \in 0 .. Len(e) - 1 PROVE ReadRuns(kind, SubSeq(e, 1, n), Len(vals)) = Failed
  <2> DEFINE d == SubSeq(e, 1, n)
  <2>1. d \in Seq(Byte) /\ StandsCut(e, d, 0)
    BY <1>1, PrefixIsCut
  <2> HIDE DEF d
  <2>2. ReadRuns(kind, d, Len(vals)) = Failed
    BY <2>1, RunsCut
  <2> QED  BY <2>2 DEF d
<1> QED  BY <1>1, <1>2, <1>3

(***************************************************************************)
(* A table of values and, for each row, its place in the table.            *)
(***************************************************************************)

\* The place of a value in a table, the places of a column, their width.
PlaceOf(dict, v) == CHOOSE i \in DOMAIN dict : dict[i] = v

Places(vals, dict) == [i \in DOMAIN vals |-> PlaceOf(dict, vals[i]) - 1]

PlaceWidth(dict) == MinWidth(Len(dict) - 1)

\* The table has all values.
Covers(dict, vals) == \A i \in 1 .. Len(vals) : \E j \in 1 .. Len(dict) : dict[j] = vals[i]

\* Places are such as an encoder packs, and lead to the values.
LEMMA PlacesFacts ==
    ASSUME NEW X, NEW vals \in Seq(X), NEW Y, NEW dict \in Seq(Y), Covers(dict, vals),
           Len(vals) # 0, Len(dict) \in Word
    PROVE  /\ Packable(Places(vals, dict), PlaceWidth(dict))
           /\ Len(Places(vals, dict)) = Len(vals)
           /\ \A i \in 1 .. Len(vals) : /\ Places(vals, dict)[i] \in Nat
                                        /\ Places(vals, dict)[i] < Len(dict)
                                        /\ dict[Places(vals, dict)[i] + 1] = vals[i]
           /\ PackOrdinals(vals, dict) = Packed(Places(vals, dict), PlaceWidth(dict))
<1> DEFINE g == Places(vals, dict)
           w == PlaceWidth(dict)
           n == Len(dict)
<1>1. DOMAIN vals = 1 .. Len(vals) /\ Len(vals) \in Nat /\ DOMAIN dict = 1 .. n /\ n \in Nat
  OBVIOUS
<1>2. ASSUME NEW i \in 1 .. Len(vals)
      PROVE  PlaceOf(dict, vals[i]) \in 1 .. n /\ dict[PlaceOf(dict, vals[i])] = vals[i]
  <2> DEFINE S == {j \in DOMAIN dict : dict[j] = vals[i]}
  <2>1. \E j \in DOMAIN dict : dict[j] = vals[i]
    BY <1>1 DEF Covers
  <2>2. PlaceOf(dict, vals[i]) \in DOMAIN dict /\ dict[PlaceOf(dict, vals[i])] = vals[i]
    BY <2>1 DEF PlaceOf
  <2> QED  BY <1>1, <2>2
<1>3. g = [i \in 1 .. Len(vals) |-> PlaceOf(dict, vals[i]) - 1]
  BY <1>1 DEF Places
<1>4. ASSUME NEW i \in 1 .. Len(vals) PROVE g[i] \in Nat /\ g[i] < n /\ dict[g[i] + 1] = vals[i]
  <2> DEFINE p == PlaceOf(dict, vals[i])
  <2>1. p \in 1 .. n /\ dict[p] = vals[i] /\ g[i] = p - 1
    BY <1>2, <1>3
  <2> HIDE DEF p, n, g
  <2>2. g[i] \in Nat /\ g[i] < n /\ g[i] + 1 = p
    BY <1>1, <2>1
  <2> QED  BY <2>1, <2>2
<1>5. g \in Seq(Nat) /\ Len(g) = Len(vals)
  <2>1. \A i \in 1 .. Len(vals) : PlaceOf(dict, vals[i]) - 1 \in Nat
    BY <1>1, <1>2
  <2> HIDE DEF g
  <2> QED  BY <1>1, <1>3, <2>1
<1>6. n # 0 /\ n - 1 \in Word
  <2>1. 1 \in 1 .. Len(vals)
    BY <1>1
  <2>2. n # 0
    BY <1>1, <2>1 DEF Covers
  <2>3. Word = 0 .. (2 * HalfWord - 1) /\ 2 * HalfWord - 1 \in Nat
    BY WordSize DEF Word
  <2> HIDE DEF n
  <2> QED  BY <1>1, <2>2, <2>3 DEF n
<1>7. w \in 0 .. WordBits /\ w \in Nat /\ n - 1 < Pow2[w]
  <2>1. WordBits \in Nat
    BY ByteFacts
  <2>2. MinWidth(n - 1) \in 0 .. WordBits /\ n - 1 < Pow2[MinWidth(n - 1)]
    <3> HIDE DEF n
    <3> QED  BY <1>6, MinWidthFacts
  <2> QED  BY <2>1, <2>2 DEF PlaceWidth
<1>8. Pow2[w] \in Nat
  BY <1>7, Pow2Pos
<1> HIDE DEF g, w
<1>9. Packable(g, w)
  <2> DEFINE q == Pow2[w]
  <2>1. q \in Nat /\ n - 1 < q
    BY <1>7, <1>8
  <2> HIDE DEF q, n
  <2>2. \A i \in 1 .. Len(g) : g[i] < q
    BY <1>1, <1>4, <1>5, <2>1
  <2> QED  BY <1>5, <1>7, <2>2 DEF Packable, q
<1>10. PackOrdinals(vals, dict) = Packed(g, w)
  BY DEF PackOrdinals, Packed, g, w, Places, PlaceWidth, PlaceOf
<1> QED  BY <1>4, <1>5, <1>9, <1>10 DEF g, w

\* Looking the places up gives the column.
LEMMA PlacesLookedUp ==
    ASSUME NEW X, NEW vals \in Seq(X), NEW Y, NEW dict \in Seq(Y), Covers(dict, vals),
           Len(vals) # 0, Len(dict) \in Word
    PROVE  LookupOrdinals(dict, [ok |-> TRUE, vals |-> Places(vals, dict)])
               = [ok |-> TRUE, vals |-> vals]
<1> DEFINE g == Places(vals, dict)
<1>1. /\ Len(g) = Len(vals)
      /\ \A i \in 1 .. Len(vals) : g[i] \in Nat /\ g[i] < Len(dict) /\ dict[g[i] + 1] = vals[i]
  BY PlacesFacts
<1>2. DOMAIN g = 1 .. Len(vals)
  BY DEF Places
<1> HIDE DEF g
<1>3. LookupOrdinals(dict, [ok |-> TRUE, vals |-> g])
          = IF \A i \in DOMAIN g : g[i] < Len(dict)
            THEN [ok |-> TRUE, vals |-> [i \in DOMAIN g |-> dict[g[i] + 1]]] ELSE Failed
  BY DEF LookupOrdinals, Then, Provided
<1>4. [i \in DOMAIN g |-> dict[g[i] + 1]] = vals
  <2>1. vals = [i \in 1 .. Len(vals) |-> vals[i]]
    OBVIOUS
  <2> QED  BY <1>1, <1>2, <2>1
<1> QED  BY <1>1, <1>2, <1>3, <1>4 DEF g

\* The table as it is written: how many entries, and the entries.
TableOf(kind, entries) == AppendUvarint(Len(entries)) \o Puts(kind, entries)

\* A table that a reader takes.
IsTable(kind, entries) == AllTakeable(kind, entries) /\ Len(entries) <= MaxDictEntries

\* One that a writer makes.
WritableTable(kind, entries) == AllWritable(kind, entries) /\ Len(entries) \in Word

LEMMA IsTableWritable ==
    ASSUME NEW kind, NEW X, NEW entries \in Seq(X), IsTable(kind, entries)
    PROVE  WritableTable(kind, entries)
<1> DEFINE n == Len(entries)
<1>1. n \in Word
  <2>1. MaxDictEntries \in Word /\ Word = 0 .. (2 * HalfWord - 1) /\ 2 * HalfWord - 1 \in Nat
    BY WordSize, EncodingAssumption DEF Word
  <2>2. n \in Nat /\ n <= MaxDictEntries
    BY DEF IsTable
  <2> HIDE DEF n
  <2> QED  BY <2>1, <2>2
<1>2. AllWritable(kind, entries)
  BY AllTakeableIsWritable DEF IsTable
<1> QED  BY <1>1, <1>2 DEF WritableTable

\* A table is bytes.
LEMMA TableType ==
    ASSUME NEW kind, NEW X, NEW entries \in Seq(X), WritableTable(kind, entries)
    PROVE  /\ AppendUvarint(Len(entries)) \in Seq(Byte) /\ Puts(kind, entries) \in Seq(Byte)
           /\ TableOf(kind, entries) \in Seq(Byte)
           /\ Len(TableOf(kind, entries))
              = Len(AppendUvarint(Len(entries))) + Len(Puts(kind, entries))
           /\ Len(AppendUvarint(Len(entries))) \in Nat /\ Len(Puts(kind, entries)) \in Nat
           /\ Len(entries) \in Word
<1> DEFINE n == Len(entries)
<1>1. n \in Word
  BY DEF WritableTable
<1>2. AppendUvarint(n) \in Seq(Byte)
  BY <1>1, AppendUvarintIs
<1>3. Puts(kind, entries) \in Seq(Byte)
  BY PutsType DEF WritableTable
<1> DEFINE a == AppendUvarint(n)
           p == Puts(kind, entries)
<1>4. TableOf(kind, entries) = a \o p
  BY DEF TableOf
<1> HIDE DEF a, p
<1>5. a \o p \in Seq(Byte) /\ Len(a \o p) = Len(a) + Len(p) /\ Len(a) \in Nat /\ Len(p) \in Nat
  BY <1>2, <1>3, ConcatFacts DEF a, p
<1> QED  BY <1>1, <1>2, <1>3, <1>4, <1>5 DEF a, p

\* A table that stands in a payload is read back.
LEMMA TableStands ==
    ASSUME NEW kind, NEW X, NEW entries \in Seq(X), IsTable(kind, entries),
           NEW d \in Seq(Byte), Stands(TableOf(kind, entries), d, 0)
    PROVE  ReadTable(kind, d)
               = [ok |-> TRUE, vals |-> entries, pos |-> Len(TableOf(kind, entries))]
<1> DEFINE n == Len(entries)
           a == AppendUvarint(n)
           p == Puts(kind, entries)
           o == 0 + Len(a)
<1>1. /\ a \in Seq(Byte) /\ p \in Seq(Byte) /\ n \in Word
      /\ Len(TableOf(kind, entries)) = Len(a) + Len(p)
      /\ Len(a) \in Nat /\ Len(p) \in Nat
  BY IsTableWritable, TableType
<1>2. Stands(a, d, 0) /\ Stands(p, d, 0 + Len(a))
  <2>1. Stands(a \o p, d, 0)
    BY DEF TableOf
  <2> HIDE DEF a, p
  <2> QED  BY <1>1, <2>1, StandsConcat
<1>3. Uvarint(d, 0) = [ok |-> TRUE, val |-> n, pos |-> o]
  <2> HIDE DEF n
  <2> QED  BY <1>1, <1>2, UvarintStands
<1>4. o \in Nat /\ Stands(p, d, o) /\ AllTakeable(kind, entries)
  BY <1>1, <1>2 DEF IsTable
<1>5. ReadValues(kind, d, o, n) = [ok |-> TRUE, vals |-> entries, pos |-> o + Len(p)]
  <2> HIDE DEF o
  <2> QED  BY <1>4, ValuesStand
<1>6. o + Len(p) = Len(TableOf(kind, entries))
  <2> HIDE DEF a, p
  <2> QED  BY <1>1
<1>7. ~ (n > MaxDictEntries)
  <2>1. n <= MaxDictEntries /\ n \in Nat /\ MaxDictEntries \in Int
    <3>1. MaxDictEntries \in Word /\ Word \subseteq Nat
      BY WordSize, EncodingAssumption
    <3> QED  BY <3>1 DEF IsTable
  <2> HIDE DEF n
  <2> QED  BY <2>1
<1>8. ReadTable(kind, d) = LET u == Uvarint(d, 0)
                           IN  IF u.ok THEN IF u.val > MaxDictEntries THEN Failed
                                            ELSE ReadValues(kind, d, u.pos, u.val)
                               ELSE Failed
  BY DEF ReadTable, Then
<1> DEFINE u == Uvarint(d, 0)
           r == ReadValues(kind, d, o, n)
<1>9. u.ok /\ u.val = n /\ u.pos = o
  <2> HIDE DEF n, o
  <2> QED  BY <1>3
<1>10. ReadTable(kind, d) = r
  <2> HIDE DEF u, n, o
  <2> QED  BY <1>7, <1>8, <1>9 DEF u
<1>11. r = [ok |-> TRUE, vals |-> entries, pos |-> o + Len(p)]
  BY <1>5
<1> HIDE DEF r, o, p
<1> QED  BY <1>6, <1>10, <1>11 DEF p

\* A table that was cut is not, nor one with too much in it.
BrokenTable(kind, entries, d) ==
    \/ StandsCut(TableOf(kind, entries), d, 0)
    \/ Stands(TableOf(kind, entries), d, 0) /\ ~ IsTable(kind, entries)

LEMMA TableBroken ==
    ASSUME NEW kind, NEW X, NEW entries \in Seq(X), WritableTable(kind, entries),
           NEW d \in Seq(Byte), BrokenTable(kind, entries, d)
    PROVE  ReadTable(kind, d) = Failed
<1> DEFINE n == Len(entries)
           a == AppendUvarint(n)
           p == Puts(kind, entries)
           o == 0 + Len(a)
<1>1. a \in Seq(Byte) /\ p \in Seq(Byte) /\ n \in Word /\ Len(a) \in Nat
  BY TableType
<1>2. \/ StandsCut(a, d, 0)
      \/ Stands(a, d, 0) /\ StandsCut(p, d, 0 + Len(a))
      \/ Stands(a, d, 0) /\ Stands(p, d, 0 + Len(a)) /\ ~ IsTable(kind, entries)
  <2>1. StandsCut(a \o p, d, 0) \/ (Stands(a \o p, d, 0) /\ ~ IsTable(kind, entries))
    BY DEF TableOf, BrokenTable
  <2> HIDE DEF a, p
  <2>2. CASE StandsCut(a \o p, d, 0)
    BY <1>1, <2>2, CutConcat
  <2>3. CASE Stands(a \o p, d, 0) /\ ~ IsTable(kind, entries)
    BY <1>1, <2>3, StandsConcat
  <2> QED  BY <2>1, <2>2, <2>3
<1>3. ReadTable(kind, d) = LET u == Uvarint(d, 0)
                           IN  IF u.ok THEN IF u.val > MaxDictEntries THEN Failed
                                            ELSE ReadValues(kind, d, u.pos, u.val)
                               ELSE Failed
  BY DEF ReadTable, Then
<1>4. CASE StandsCut(a, d, 0)
  <2>1. Uvarint(d, 0) = Failed
    <3> HIDE DEF n
    <3> QED  BY <1>1, <1>4, UvarintCut
  <2> QED  BY <1>3, <2>1 DEF Failed
<1>5. CASE /\ Stands(a, d, 0)
            /\ \/ StandsCut(p, d, 0 + Len(a))
               \/ Stands(p, d, 0 + Len(a)) /\ ~ IsTable(kind, entries)
  <2>1. Uvarint(d, 0) = [ok |-> TRUE, val |-> n, pos |-> o]
    <3> HIDE DEF n
    <3> QED  BY <1>1, <1>5, UvarintStands
  <2>2. o \in Nat /\ AllWritable(kind, entries) /\ o <= Len(d)
    BY <1>1, <1>5 DEF WritableTable, Stands
  <2>3. n > MaxDictEntries \/ AnyBroken(kind, entries, d, o)
    <3>1. CASE StandsCut(p, d, 0 + Len(a))
      BY <3>1 DEF AnyBroken
    <3>2. CASE Stands(p, d, 0 + Len(a)) /\ ~ IsTable(kind, entries)
      <4>1. n \in Nat /\ MaxDictEntries \in Nat
        <5>1. MaxDictEntries \in Word /\ Word \subseteq Nat
          BY WordSize, EncodingAssumption
        <5> QED  BY <5>1
      <4>2. ~ AllTakeable(kind, entries) \/ n > MaxDictEntries
        <5>1. ~ AllTakeable(kind, entries) \/ ~ (n <= MaxDictEntries)
          BY <3>2 DEF IsTable
        <5> HIDE DEF n
        <5> QED  BY <4>1, <5>1
      <4> HIDE DEF n
      <4> QED  BY <3>2, <4>2 DEF AnyBroken
    <3> QED  BY <1>5, <3>1, <3>2
  <2>4. AnyBroken(kind, entries, d, o) => ReadValues(kind, d, o, n) = Failed
    <3> HIDE DEF o
    <3> QED  BY <2>2, ValuesBroken
  <2> HIDE DEF o, n
  <2> QED  BY <1>3, <2>1, <2>3, <2>4
<1> QED  BY <1>2, <1>4, <1>5

\* The whole payload of a dictionary codec: the table and the packed places.
DictionaryOf(kind, entries, g, w) == TableOf(kind, entries) \o Packed(g, w)

\* A dictionary payload is read in two steps.
LEMMA DictionaryStands ==
    ASSUME NEW kind, NEW X, NEW entries \in Seq(X), IsTable(kind, entries),
           NEW g, NEW w, Packable(g, w)
    PROVE  LET e == DictionaryOf(kind, entries, g, w)
               o == Len(TableOf(kind, entries))
           IN  /\ e \in Seq(Byte)
               /\ ReadTable(kind, e) = [ok |-> TRUE, vals |-> entries, pos |-> o]
               /\ ReadPacked(e, o, Len(g)) = [ok |-> TRUE, vals |-> g]
<1> DEFINE e == DictionaryOf(kind, entries, g, w)
           t == TableOf(kind, entries)
           p == Packed(g, w)
           o == 0 + Len(t)
<1>1. t \in Seq(Byte) /\ p \in Seq(Byte)
  BY IsTableWritable, TableType, PackedFacts
<1>0. e = t \o p
  BY DEF DictionaryOf
<1> HIDE DEF e
<1>2. e \in Seq(Byte) /\ Len(e) = Len(t) + Len(p) /\ Len(t) \in Nat /\ Len(p) \in Nat
  <2> HIDE DEF t, p
  <2> QED  BY <1>0, <1>1, ConcatFacts
<1>3. Stands(t, e, 0) /\ Stands(p, e, 0 + Len(t))
  <2>1. Stands(t \o p, e, 0)
    BY <1>0, <1>2, WholeStands
  <2> HIDE DEF t, p
  <2> QED  BY <1>1, <1>2, <2>1, StandsConcat
<1>4. ReadTable(kind, e) = [ok |-> TRUE, vals |-> entries, pos |-> Len(t)]
  BY <1>2, <1>3, TableStands
<1>5. o \in Nat /\ Len(e) = o + Len(p) /\ Stands(p, e, o) /\ o = Len(t)
  <2> HIDE DEF t, p
  <2> QED  BY <1>2, <1>3
<1>6. ReadPacked(e, o, Len(g)) = [ok |-> TRUE, vals |-> g]
  <2> HIDE DEF o
  <2> QED  BY <1>2, <1>5, ReadPackedStands
<1>7. ReadPacked(e, Len(t), Len(g)) = [ok |-> TRUE, vals |-> g]
  <2> HIDE DEF t, o
  <2> QED  BY <1>5, <1>6
<1> QED  BY <1>2, <1>4, <1>7 DEF e

\* It is bytes.
LEMMA DictionaryType ==
    ASSUME NEW kind, NEW X, NEW entries \in Seq(X), WritableTable(kind, entries),
           NEW g, NEW w, Packable(g, w)
    PROVE  DictionaryOf(kind, entries, g, w) \in Seq(Byte)
<1> DEFINE t == TableOf(kind, entries)
           p == Packed(g, w)
<1>1. t \in Seq(Byte) /\ p \in Seq(Byte)
  BY TableType, PackedFacts
<1>2. DictionaryOf(kind, entries, g, w) = t \o p
  BY DEF DictionaryOf
<1> HIDE DEF t, p
<1> QED  BY <1>1, <1>2, ConcatFacts

\* Cut in the table or behind it, it fails, if not already because of what is
\* in the table.
LEMMA DictionaryCut ==
    ASSUME NEW kind, NEW X, NEW entries \in Seq(X), WritableTable(kind, entries),
           NEW g, NEW w, Packable(g, w),
           NEW n \in 0 .. Len(DictionaryOf(kind, entries, g, w)) - 1
    PROVE  LET d == SubSeq(DictionaryOf(kind, entries, g, w), 1, n)
               o == Len(TableOf(kind, entries))
           IN  \/ ReadTable(kind, d) = Failed
               \/ /\ IsTable(kind, entries)
                  /\ ReadTable(kind, d) = [ok |-> TRUE, vals |-> entries, pos |-> o]
                  /\ ReadPacked(d, o, Len(g)) = Failed
<1> DEFINE e == DictionaryOf(kind, entries, g, w)
           t == TableOf(kind, entries)
           p == Packed(g, w)
           o == 0 + Len(t)
           d == SubSeq(e, 1, n)
<1>1. t \in Seq(Byte) /\ p \in Seq(Byte) /\ Len(t) \in Nat
  BY TableType, PackedFacts
<1>0. e = t \o p /\ n \in 0 .. Len(e) - 1
  BY DEF DictionaryOf
<1> HIDE DEF e
<1>2. e \in Seq(Byte)
  <2> HIDE DEF t, p
  <2> QED  BY <1>0, <1>1, ConcatFacts
<1>3. d \in Seq(Byte) /\ StandsCut(e, d, 0)
  BY <1>0, <1>2, PrefixIsCut
<1> HIDE DEF d, e
<1>4. StandsCut(t, d, 0) \/ (Stands(t, d, 0) /\ StandsCut(p, d, 0 + Len(t)))
  <2>1. StandsCut(t \o p, d, 0)
    BY <1>0, <1>3
  <2> HIDE DEF t, p
  <2> QED  BY <1>1, <1>3, <2>1, CutConcat
<1>5. CASE BrokenTable(kind, entries, d)
  <2>1. ReadTable(kind, d) = Failed
    BY <1>3, <1>5, TableBroken
  <2> QED  BY <2>1 DEF d, e
<1>6. CASE Stands(t, d, 0) /\ StandsCut(p, d, 0 + Len(t)) /\ IsTable(kind, entries)
  <2>1. ReadTable(kind, d) = [ok |-> TRUE, vals |-> entries, pos |-> Len(t)]
    BY <1>3, <1>6, TableStands
  <2>2. o \in Nat /\ StandsCut(p, d, o) /\ o = Len(t)
    <3> HIDE DEF t, p
    <3> QED  BY <1>1, <1>6
  <2>3. ReadPacked(d, o, Len(g)) = Failed
    <3> HIDE DEF o
    <3> QED  BY <1>3, <2>2, ReadPackedCut
  <2>4. ReadPacked(d, Len(t), Len(g)) = Failed
    <3> HIDE DEF t, o
    <3> QED  BY <2>2, <2>3
  <2> QED  BY <1>6, <2>1, <2>4 DEF d, e
<1> QED  BY <1>4, <1>5, <1>6 DEF BrokenTable

(***************************************************************************)
(* The dictionary of integers: a table of differences.                     *)
(***************************************************************************)

\* The entries of a table of integers: the first one and the gaps.
GapsOf(dict) == [i \in DOMAIN dict |-> IF i = 1 THEN dict[1] ELSE dict[i] - dict[i - 1]]

\* A sequence over a set is one over any larger set.
LEMMA SeqWider ==
    ASSUME NEW S, NEW T, S \subseteq T, NEW s \in Seq(S)
    PROVE  s \in Seq(T)
<1>1. \A i \in 1 .. Len(s) : s[i] \in T
  OBVIOUS
<1>2. s = [i \in 1 .. Len(s) |-> s[i]] /\ Len(s) \in Nat
  OBVIOUS
<1> QED  BY <1>1, <1>2

\* The values of a sequence are finitely many.
LEMMA ValuesFinite ==
    ASSUME NEW X, NEW vals \in Seq(X)
    PROVE  /\ IsFiniteSet(ToSet(vals)) /\ ToSet(vals) \subseteq X
           /\ \A i \in 1 .. Len(vals) : vals[i] \in ToSet(vals)
<1> DEFINE D == 1 .. Len(vals)
           S == {vals[i] : i \in D}
           f == [i \in D |-> vals[i]]
<1>1. DOMAIN vals = D /\ Len(vals) \in Nat
  OBVIOUS
<1>2. ToSet(vals) = S
  BY <1>1 DEF ToSet
<1>3. IsFiniteSet(D)
  <2>1. IsFiniteSet(1 .. Len(vals))
    BY <1>1, FS_Interval
  <2> QED  BY <2>1
<1>4. S \subseteq X /\ \A i \in D : vals[i] \in S
  OBVIOUS
<1>5. f \in Surjection(D, S)
  <2>1. f \in [D -> S]
    OBVIOUS
  <2>2. \A x \in S : \E i \in D : f[i] = x
    OBVIOUS
  <2> HIDE DEF f, D, S
  <2> QED  BY <2>1, <2>2 DEF Surjection
<1>6. IsFiniteSet(S)
  <2> HIDE DEF f, D, S
  <2> QED  BY <1>3, <1>5, FS_Surjection
<1> QED  BY <1>2, <1>4, <1>6

\* And no more than it is long.
LEMMA ValuesFew ==
    ASSUME NEW X, NEW vals \in Seq(X)
    PROVE  /\ Cardinality(ToSet(vals)) \in Nat /\ Cardinality(ToSet(vals)) <= Len(vals)
           /\ Len(vals) \in Word => Cardinality(ToSet(vals)) \in Word
<1> DEFINE D == 1 .. Len(vals)
           S == ToSet(vals)
           f == [i \in D |-> vals[i]]
<1>1. DOMAIN vals = D /\ Len(vals) \in Nat
  OBVIOUS
<1>2. S = {vals[i] : i \in D}
  BY <1>1 DEF ToSet
<1>3. IsFiniteSet(D) /\ Cardinality(D) = Len(vals)
  <2>1. Len(vals) - 1 + 1 = Len(vals) /\ (~ (1 <= Len(vals)) => Len(vals) = 0)
    BY <1>1
  <2>2. /\ IsFiniteSet(1 .. Len(vals))
        /\ Cardinality(1 .. Len(vals)) = IF 1 > Len(vals) THEN 0 ELSE Len(vals) - 1 + 1
    BY <1>1, FS_Interval
  <2> QED  BY <1>1, <2>1, <2>2
<1> HIDE DEF S
<1>4. f \in Surjection(D, S)
  <2>1. f \in [D -> S]
    BY <1>2
  <2>2. \A x \in S : \E i \in D : f[i] = x
    BY <1>2
  <2> HIDE DEF f, D
  <2> QED  BY <2>1, <2>2 DEF Surjection
<1>5. Cardinality(S) <= Cardinality(D) /\ IsFiniteSet(S)
  <2> HIDE DEF f, D
  <2> QED  BY <1>3, <1>4, FS_Surjection
<1>6. Cardinality(S) \in Nat
  BY <1>5, FS_CardinalityType
<1> DEFINE x == Cardinality(S)
           n == Len(vals)
<1>7. x \in Nat /\ n \in Nat /\ x <= n
  BY <1>1, <1>3, <1>5, <1>6
<1> HIDE DEF x, n
<1>8. n \in Word => x \in Word
  <2>1. Word = 0 .. (2 * HalfWord - 1) /\ 2 * HalfWord - 1 \in Nat
    BY WordSize DEF Word
  <2> QED  BY <1>7, <2>1
<1> QED  BY <1>7, <1>8 DEF x, n, S

\* The table of a column of words: sorted, complete, and undone from its gaps.
LEMMA SortedInts ==
    ASSUME NEW vals \in Seq(Word), Len(vals) # 0, Len(vals) \in Word
    PROVE  LET dict == IntTable(vals) IN
           /\ dict \in Seq(Word) /\ Len(dict) = Cardinality(ToSet(vals))
           /\ Covers(dict, vals)
           /\ GapsOf(dict) \in Seq(Word) /\ Len(GapsOf(dict)) = Len(dict)
           /\ WritableTable("int", GapsOf(dict))
           /\ Cardinality(ToSet(vals)) <= MaxDictEntries <=> IsTable("int", GapsOf(dict))
           /\ Undo(GapsOf(dict)[1], GapsOf(dict), Len(dict)) = dict
<1> DEFINE S == ToSet(vals)
           dict == IntTable(vals)
           n == Len(dict)
           gaps == GapsOf(dict)
<1>1. DOMAIN vals = 1 .. Len(vals) /\ Len(vals) \in Nat
  OBVIOUS
<1>2. IsFiniteSet(S) /\ S \subseteq Word /\ S \subseteq Nat /\ \A i \in 1 .. Len(vals) : vals[i] \in S
  <2>1. IsFiniteSet(S) /\ S \subseteq Word /\ \A i \in 1 .. Len(vals) : vals[i] \in S
    BY ValuesFinite
  <2> HIDE DEF S
  <2> QED  BY <2>1, WordSize
<1> HIDE DEF S, dict
<1>3. /\ dict \in Seq(S) /\ n = Cardinality(S) /\ n \in Nat
      /\ \A x \in S : \E j \in 1 .. n : dict[j] = x
  <2>1. /\ dict \in Seq(S) /\ Len(dict) = Cardinality(S) /\ Cardinality(S) \in Nat
        /\ \A x \in S : /\ Cardinality({y \in S : y < x}) + 1 \in 1 .. Cardinality(S)
                        /\ dict[Cardinality({y \in S : y < x}) + 1] = x
    BY <1>2, NumbersInOrder DEF S, IntTable, dict
  <2> QED  BY <2>1
<1>4. ASSUME NEW k \in 1 .. n - 1 PROVE dict[k] < dict[k + 1]
  <2>1. k \in 1 .. Cardinality(S) - 1
    BY <1>3
  <2>2. InOrder(S, <)[k] < InOrder(S, <)[k + 1]
    BY <1>2, <2>1, NumbersAscend
  <2> QED  BY <2>2 DEF S, IntTable, dict
<1>5. dict \in Seq(Word) /\ \A i \in 1 .. n : dict[i] \in Word /\ dict[i] \in Nat
  <2>1. \A i \in 1 .. n : dict[i] \in S
    BY <1>3
  <2>2. dict \in Seq(Word)
    BY <1>2, <1>3, SeqWider
  <2> QED  BY <1>2, <2>1, <2>2
<1>6. Covers(dict, vals)
  BY <1>2, <1>3 DEF Covers
<1>7. ASSUME NEW i \in 2 .. n
      PROVE  /\ gaps[i] = dict[i] - dict[i - 1] /\ gaps[i] \in Word
             /\ Wrap(dict[i - 1] + gaps[i]) = dict[i]
  <2>1. /\ i - 1 \in 1 .. n - 1 /\ (i - 1) + 1 = i /\ i \in 1 .. n /\ i - 1 \in 1 .. n /\ i # 1
        /\ DOMAIN dict = 1 .. n
    BY <1>3, <1>5
  <2> DEFINE x == dict[i - 1]
             y == dict[i]
  <2>2. x < y /\ x \in Nat /\ y \in Nat /\ y \in Word
    BY <1>4, <1>5, <2>1
  <2>3. gaps[i] = y - x
    BY <2>1 DEF GapsOf
  <2>4. Word = 0 .. (2 * HalfWord - 1) /\ 2 * HalfWord - 1 \in Nat
    BY WordSize DEF Word
  <2> HIDE DEF x, y, gaps
  <2>5. y - x \in Word /\ x + (y - x) = y
    BY <2>2, <2>4
  <2>6. Wrap(y) = y
    BY <2>2, WrapWord
  <2> QED  BY <2>3, <2>5, <2>6 DEF x, y
<1>8. n # 0 /\ 1 \in 1 .. n
  <2>1. vals[1] \in S
    BY <1>1, <1>2
  <2>2. PICK j \in 1 .. n : dict[j] = vals[1]
    BY <1>3, <2>1
  <2> QED  BY <1>3, <2>2
<1>9. gaps[1] = dict[1] /\ dict[1] \in Word
  <2>1. 1 \in DOMAIN dict
    BY <1>5, <1>8
  <2> QED  BY <1>5, <1>8, <2>1 DEF GapsOf
<1>10. gaps \in Seq(Word) /\ Len(gaps) = n
  <2>1. DOMAIN dict = 1 .. n
    BY <1>5
  <2>2. \A i \in 1 .. n : i = 1 \/ i \in 2 .. n
    BY <1>3
  <2>3. \A i \in 1 .. n : gaps[i] \in Word
    BY <1>7, <1>9, <2>2
  <2>4. gaps = [i \in 1 .. n |-> gaps[i]]
    BY <2>1 DEF GapsOf
  <2>5. n \in Nat
    BY <1>3
  <2> HIDE DEF gaps, n
  <2> QED  BY <2>3, <2>4, <2>5
<1>11. /\ WritableTable("int", gaps)
       /\ Cardinality(S) <= MaxDictEntries <=> IsTable("int", gaps)
  <2>1. n \in Word
    BY <1>3, ValuesFew DEF S
  <2>2. AllTakeable("int", gaps) /\ AllWritable("int", gaps)
    <3> HIDE DEF gaps
    <3> QED  BY <1>10, WordsTakeable
  <2> HIDE DEF gaps
  <2> QED  BY <1>3, <1>10, <2>1, <2>2 DEF IsTable, WritableTable
<1>12. Undo(gaps[1], gaps, n) = dict
  <2> HIDE DEF gaps
  <2> QED  BY <1>5, <1>7, <1>9, UndoIs
<1> QED  BY <1>3, <1>5, <1>6, <1>10, <1>11, <1>12 DEF S, dict

\* The steps of the decoder.
LEMMA DictIntSteps ==
    ASSUME NEW d, NEW n, NEW gaps, NEW o, NEW dict,
           ReadTable("int", d) = [ok |-> TRUE, vals |-> gaps, pos |-> o],
           Undo(gaps[1], gaps, Len(gaps)) = dict
    PROVE  DecodeDictInt(d, n) = LookupOrdinals(dict, ReadPacked(d, o, n))
<1> DEFINE t == ReadTable("int", d)
<1>1. DecodeDictInt(d, n) =
          IF t.ok THEN LookupOrdinals(Undo(t.vals[1], t.vals, Len(t.vals)), ReadPacked(d, t.pos, n))
          ELSE Failed
  BY DEF DecodeDictInt, Then
<1>2. t.ok /\ t.vals = gaps /\ t.pos = o
  OBVIOUS
<1> HIDE DEF t
<1> QED  BY <1>1, <1>2

\* What could not be read cannot be looked up.
LEMMA LookupFails ==
    ASSUME NEW dict
    PROVE  LookupOrdinals(dict, Failed) = Failed
  BY DEF LookupOrdinals, Then, Failed

\* The dictionary codec of integers.
LEMMA DictIntExact ==
    ASSUME NEW vals \in Seq(Word), Len(vals) # 0, Len(vals) \in Word
    PROVE  /\ EncodeDictInt(vals) \in Seq(Byte)
           /\ Cardinality(ToSet(vals)) <= MaxDictEntries =>
                 Exact(DecodeDictInt(EncodeDictInt(vals), Len(vals)), vals)
           /\ \A n \in 0 .. Len(EncodeDictInt(vals)) - 1 :
                 DecodeDictInt(SubSeq(EncodeDictInt(vals), 1, n), Len(vals)) = Failed
<1> DEFINE dict == IntTable(vals)
           gaps == GapsOf(dict)
           g == Places(vals, dict)
           w == PlaceWidth(dict)
           t == TableOf("int", gaps)
           e == EncodeDictInt(vals)
<1>1. /\ dict \in Seq(Word) /\ Covers(dict, vals)
      /\ gaps \in Seq(Word) /\ Len(gaps) = Len(dict) /\ WritableTable("int", gaps)
      /\ Cardinality(ToSet(vals)) <= MaxDictEntries <=> IsTable("int", gaps)
      /\ Undo(gaps[1], gaps, Len(dict)) = dict
  BY SortedInts
<1> HIDE DEF dict
<1>2. Len(dict) \in Word
  <2> HIDE DEF gaps
  <2> QED  BY <1>1, TableType
<1>3. /\ Packable(g, w) /\ Len(g) = Len(vals)
      /\ PackOrdinals(vals, dict) = Packed(g, w)
  BY <1>1, <1>2, PlacesFacts
<1>4. e = DictionaryOf("int", gaps, g, w)
  <2>1. e = (AppendUvarint(Len(dict)) \o EncodeVarint(gaps)) \o PackOrdinals(vals, dict)
    BY DEF EncodeDictInt, dict, GapsOf
  <2>2. EncodeVarint(gaps) = Puts("int", gaps)
    <3> HIDE DEF gaps
    <3> QED  BY <1>1, WordsTakeable
  <2> HIDE DEF gaps, g, w, e
  <2>3. t = AppendUvarint(Len(dict)) \o EncodeVarint(gaps)
    BY <1>1, <2>2 DEF TableOf
  <2> QED  BY <1>3, <2>1, <2>3 DEF DictionaryOf
<1>5. LookupOrdinals(dict, [ok |-> TRUE, vals |-> g]) = [ok |-> TRUE, vals |-> vals]
  BY <1>1, <1>2, PlacesLookedUp
<1> HIDE DEF gaps, g, w, e
<1>6. e \in Seq(Byte)
  BY <1>1, <1>3, <1>4, DictionaryType
<1>7. ASSUME IsTable("int", gaps) PROVE DecodeDictInt(e, Len(vals)) = [ok |-> TRUE, vals |-> vals]
  <2>1. /\ ReadTable("int", e) = [ok |-> TRUE, vals |-> gaps, pos |-> Len(t)]
        /\ ReadPacked(e, Len(t), Len(g)) = [ok |-> TRUE, vals |-> g]
    BY <1>1, <1>3, <1>4, <1>7, DictionaryStands
  <2>2. DecodeDictInt(e, Len(vals)) = LookupOrdinals(dict, ReadPacked(e, Len(t), Len(vals)))
    <3> HIDE DEF t
    <3> QED  BY <1>1, <2>1, DictIntSteps
  <2> QED  BY <1>3, <1>5, <2>1, <2>2
<1>8. ASSUME NEW n \in 0 .. Len(e) - 1
      PROVE  DecodeDictInt(SubSeq(e, 1, n), Len(vals)) = Failed
  <2> DEFINE d == SubSeq(e, 1, n)
  <2>1. \/ ReadTable("int", d) = Failed
        \/ /\ ReadTable("int", d) = [ok |-> TRUE, vals |-> gaps, pos |-> Len(t)]
           /\ ReadPacked(d, Len(t), Len(g)) = Failed
    BY <1>1, <1>3, <1>4, DictionaryCut
  <2> HIDE DEF d, t
  <2>2. CASE ReadTable("int", d) = Failed
    <3>1. DecodeDictInt(d, Len(vals)) = Failed
      BY <2>2 DEF DecodeDictInt, Then, Failed
    <3> QED  BY <3>1 DEF d
  <2>3. CASE /\ ReadTable("int", d) = [ok |-> TRUE, vals |-> gaps, pos |-> Len(t)]
             /\ ReadPacked(d, Len(t), Len(g)) = Failed
    <3>1. DecodeDictInt(d, Len(vals)) = LookupOrdinals(dict, ReadPacked(d, Len(t), Len(vals)))
      BY <1>1, <2>3, DictIntSteps
    <3>2. DecodeDictInt(d, Len(vals)) = Failed
      BY <1>3, <2>3, <3>1, LookupFails
    <3> QED  BY <3>2 DEF d
  <2> QED  BY <2>1, <2>2, <2>3
<1> QED  BY <1>1, <1>6, <1>7, <1>8 DEF e, Exact

(***************************************************************************)
(* The dictionary of strings: a table in bytewise order.                   *)
(***************************************************************************)
\* A string as the numbers that decide its place: its bytes, and nothing after
\* them, which is before any byte.
At(s, k) == IF k <= Len(s) THEN s[k] + 1 ELSE 0

\* s is less than t at place k and equal before it.
LessAt(s, t, k) ==
    /\ k \in Nat \ {0} /\ At(s, k) < At(t, k)
    /\ \A j \in 1 .. (k - 1) : At(s, j) = At(t, j)

\* These numbers tell the bytes and the end.
LEMMA AtFacts ==
    ASSUME NEW s \in Seq(Byte), NEW k \in Nat \ {0}
    PROVE  /\ At(s, k) \in Nat
           /\ k <= Len(s) => /\ k \in DOMAIN s /\ s[k] \in Nat
                             /\ At(s, k) = s[k] + 1 /\ At(s, k) > 0
           /\ k > Len(s) => At(s, k) = 0
           /\ k \in DOMAIN s <=> k <= Len(s)
<1>1. Byte \subseteq Nat
  BY ByteFacts DEF Byte
<1>2. k <= Len(s) => k \in 1 .. Len(s) /\ k \in DOMAIN s /\ s[k] \in Byte
  OBVIOUS
<1>3. DOMAIN s = 1 .. Len(s) /\ Len(s) \in Nat
  OBVIOUS
<1> DEFINE x == s[k]
<1>4. k <= Len(s) => x \in Nat /\ At(s, k) = x + 1
  BY <1>1, <1>2 DEF At
<1>5. k > Len(s) => At(s, k) = 0
  BY <1>3 DEF At
<1> HIDE DEF x
<1>6. /\ At(s, k) \in Nat
      /\ k <= Len(s) => x \in Nat /\ At(s, k) = x + 1 /\ At(s, k) > 0
  BY <1>3, <1>4, <1>5
<1> QED  BY <1>2, <1>3, <1>5, <1>6 DEF x

\* The bytewise order in these numbers.
LEMMA LessAtIsLess ==
    ASSUME NEW s \in Seq(Byte), NEW t \in Seq(Byte), NEW k, LessAt(s, t, k)
    PROVE  StringLess(s, t)
<1>1. k \in Nat \ {0} /\ At(s, k) < At(t, k) /\ \A j \in 1 .. (k - 1) : At(s, j) = At(t, j)
  BY DEF LessAt
<1>2. Len(s) \in Nat /\ Len(t) \in Nat
  OBVIOUS
<1>3. k <= Len(t)
  <2>1. At(s, k) \in Nat /\ (k > Len(t) => At(t, k) = 0)
    BY <1>1, AtFacts
  <2> QED  BY <1>1, <1>2, <2>1
<1>4. ASSUME NEW j \in 1 .. (k - 1), j <= Len(s) PROVE s[j] = t[j]
  <2>1. j \in Nat \ {0} /\ j <= Len(t)
    BY <1>1, <1>2, <1>3
  <2>2. At(s, j) = s[j] + 1 /\ At(t, j) = t[j] + 1 /\ s[j] \in Nat /\ t[j] \in Nat
    BY <1>4, <2>1, AtFacts
  <2> DEFINE x == s[j]
             y == t[j]
  <2>3. x + 1 = y + 1 /\ x \in Nat /\ y \in Nat
    BY <1>1, <2>2
  <2> HIDE DEF x, y
  <2>4. x = y
    BY <2>3
  <2> QED  BY <2>4 DEF x, y
<1>5. CASE k <= Len(s)
  <2>1. /\ k \in DOMAIN s /\ k \in DOMAIN t
        /\ At(s, k) = s[k] + 1 /\ At(t, k) = t[k] + 1 /\ s[k] \in Nat /\ t[k] \in Nat
    BY <1>1, <1>3, <1>5, AtFacts
  <2> DEFINE x == s[k]
             y == t[k]
  <2>2. x + 1 < y + 1 /\ x \in Nat /\ y \in Nat
    BY <1>1, <2>1
  <2> HIDE DEF x, y
  <2>3. x < y
    BY <2>2
  <2>4. \A j \in 1 .. (k - 1) : s[j] = t[j]
    <3>1. \A j \in 1 .. (k - 1) : j <= Len(s)
      BY <1>1, <1>2, <1>5
    <3> QED  BY <1>4, <3>1
  <2>5. s[k] < t[k]
    BY <2>3 DEF x, y
  <2>6. k \in DOMAIN s \cap DOMAIN t
    BY <2>1
  <2> QED  BY <2>4, <2>5, <2>6, Zenon DEF StringLess
<1>6. CASE k > Len(s)
  <2>1. Len(s) < Len(t) /\ Len(s) <= Len(t)
    BY <1>1, <1>2, <1>3, <1>6
  <2>2. \A j \in 1 .. Len(s) : s[j] = t[j]
    <3>1. \A j \in 1 .. Len(s) : j \in 1 .. (k - 1) /\ j <= Len(s)
      BY <1>1, <1>2, <1>6
    <3> QED  BY <1>4, <3>1
  <2> DEFINE n == Len(s)
             u == SubSeq(s, 1, n)
             v == SubSeq(t, 1, n)
  <2>3. u \in Seq(Byte) /\ Len(u) = n /\ \A j \in 1 .. n : u[j] = s[j]
    OBVIOUS
  <2>4. v \in Seq(Byte) /\ Len(v) = n /\ \A j \in 1 .. n : v[j] = t[j]
    BY <2>1
  <2> HIDE DEF u, v
  <2>5. u = v
    BY <2>2, <2>3, <2>4
  <2>6. s # t
    BY <1>2, <2>1
  <2> QED  BY <2>1, <2>5, <2>6 DEF StringLess, IsStrictPrefix, IsPrefix, u, v
<1> QED  BY <1>1, <1>2, <1>5, <1>6

\* And back.
LEMMA LessIsLessAt ==
    ASSUME NEW s \in Seq(Byte), NEW t \in Seq(Byte), StringLess(s, t)
    PROVE  \E k \in Nat : LessAt(s, t, k)
<1>1. Len(s) \in Nat /\ Len(t) \in Nat /\ DOMAIN s = 1 .. Len(s) /\ DOMAIN t = 1 .. Len(t)
  OBVIOUS
<1>2. CASE IsStrictPrefix(s, t)
  <2> DEFINE n == Len(s)
             u == SubSeq(s, 1, n)
             v == SubSeq(t, 1, n)
             k == n + 1
  <2>1. n <= Len(t) /\ u = v /\ s # t
    BY <1>2 DEF IsStrictPrefix, IsPrefix
  <2>2. \A j \in 1 .. n : u[j] = s[j]
    OBVIOUS
  <2>3. \A j \in 1 .. n : v[j] = t[j]
    BY <2>1
  <2> HIDE DEF u, v
  <2>4. \A j \in 1 .. n : s[j] = t[j]
    BY <2>1, <2>2, <2>3
  <2>5. n # Len(t)
    BY <2>1, <2>4
  <2>6. k \in Nat \ {0} /\ k > Len(s) /\ k <= Len(t) /\ k - 1 = n
    <3> DEFINE m == Len(t)
    <3>1. n \in Nat /\ m \in Nat /\ n <= m /\ n # m /\ n = Len(s)
      BY <1>1, <2>1, <2>5
    <3> HIDE DEF n, m
    <3>2. k \in Nat \ {0} /\ k > n /\ k <= m /\ k - 1 = n
      BY <3>1
    <3> QED  BY <3>1, <3>2 DEF m
  <2>7. At(s, k) < At(t, k)
    <3>1. At(s, k) = 0 /\ At(t, k) > 0 /\ At(t, k) \in Nat
      <4> HIDE DEF k
      <4> QED  BY <2>6, AtFacts
    <3> HIDE DEF k
    <3> QED  BY <3>1
  <2>8. \A j \in 1 .. (k - 1) : At(s, j) = At(t, j)
    <3>1. \A j \in 1 .. n : j <= Len(s) /\ j <= Len(t)
      BY <1>1, <2>1
    <3>2. \A j \in 1 .. n : At(s, j) = At(t, j)
      BY <2>4, <3>1 DEF At
    <3> QED  BY <2>6, <3>2
  <2> HIDE DEF k
  <2>9. LessAt(s, t, k)
    BY <2>6, <2>7, <2>8 DEF LessAt
  <2> QED  BY <2>6, <2>9
<1>3. CASE \E k \in DOMAIN s \cap DOMAIN t :
               s[k] < t[k] /\ \A j \in 1 .. (k - 1) : s[j] = t[j]
  <2>1. PICK k \in DOMAIN s \cap DOMAIN t :
               s[k] < t[k] /\ \A j \in 1 .. (k - 1) : s[j] = t[j]
    BY <1>3
  <2>2. k \in Nat \ {0} /\ k <= Len(s) /\ k <= Len(t)
    BY <1>1
  <2>3. At(s, k) = s[k] + 1 /\ At(t, k) = t[k] + 1 /\ s[k] \in Nat /\ t[k] \in Nat
    BY <2>2, AtFacts
  <2>4. At(s, k) < At(t, k)
    <3> DEFINE x == s[k]
               y == t[k]
    <3>1. x < y /\ x \in Nat /\ y \in Nat /\ At(s, k) = x + 1 /\ At(t, k) = y + 1
      BY <2>1, <2>3
    <3> HIDE DEF x, y
    <3> QED  BY <3>1
  <2>5. \A j \in 1 .. (k - 1) : At(s, j) = At(t, j)
    <3>1. \A j \in 1 .. (k - 1) : j <= Len(s) /\ j <= Len(t)
      BY <1>1, <2>2
    <3> QED  BY <2>1, <3>1 DEF At
  <2> QED  BY <2>2, <2>4, <2>5 DEF LessAt
<1> QED  BY <1>2, <1>3, Zenon DEF StringLess

\* The order is transitive.
LEMMA LessAtTransitive ==
    ASSUME NEW s \in Seq(Byte), NEW t \in Seq(Byte), NEW u \in Seq(Byte),
           NEW k, LessAt(s, t, k), NEW l, LessAt(t, u, l)
    PROVE  \E m \in Nat : LessAt(s, u, m)
<1>1. /\ k \in Nat \ {0} /\ At(s, k) < At(t, k) /\ \A j \in 1 .. (k - 1) : At(s, j) = At(t, j)
      /\ l \in Nat \ {0} /\ At(t, l) < At(u, l) /\ \A j \in 1 .. (l - 1) : At(t, j) = At(u, j)
  BY DEF LessAt
<1>2. /\ At(s, k) \in Nat /\ At(t, k) \in Nat /\ At(u, k) \in Nat
      /\ At(s, l) \in Nat /\ At(t, l) \in Nat /\ At(u, l) \in Nat
  BY <1>1, AtFacts
<1>3. CASE k < l
  <2>1. k \in 1 .. (l - 1) /\ \A j \in 1 .. (k - 1) : j \in 1 .. (l - 1)
    BY <1>1, <1>3
  <2>2. At(t, k) = At(u, k) /\ \A j \in 1 .. (k - 1) : At(s, j) = At(u, j)
    BY <1>1, <2>1
  <2>3. LessAt(s, u, k)
    BY <1>1, <2>2 DEF LessAt
  <2> QED  BY <1>1, <2>3
<1>4. CASE k = l
  <2>1. At(s, k) < At(u, k) /\ \A j \in 1 .. (k - 1) : At(s, j) = At(u, j)
    BY <1>1, <1>2, <1>4
  <2>2. LessAt(s, u, k)
    BY <1>1, <2>1 DEF LessAt
  <2> QED  BY <1>1, <2>2
<1>5. CASE l < k
  <2>1. l \in 1 .. (k - 1) /\ \A j \in 1 .. (l - 1) : j \in 1 .. (k - 1)
    BY <1>1, <1>5
  <2>2. At(s, l) = At(t, l) /\ \A j \in 1 .. (l - 1) : At(s, j) = At(u, j)
    BY <1>1, <2>1
  <2>3. LessAt(s, u, l)
    BY <1>1, <2>2 DEF LessAt
  <2> QED  BY <1>1, <2>3
<1> QED  BY <1>1, <1>3, <1>4, <1>5

\* Of two different strings one is less.
LEMMA LessAtConnected ==
    ASSUME NEW s \in Seq(Byte), NEW t \in Seq(Byte), s # t
    PROVE  \E k \in Nat : LessAt(s, t, k) \/ LessAt(t, s, k)
<1> DEFINE D == {k \in Nat \ {0} : At(s, k) # At(t, k)}
           k == Min(D)
<1>1. Len(s) \in Nat /\ Len(t) \in Nat
  OBVIOUS
<1>2. D # {}
  <2> SUFFICES ASSUME D = {} PROVE FALSE
    OBVIOUS
  <2>1. \A j \in Nat \ {0} : At(s, j) = At(t, j)
    OBVIOUS
  <2>2. ASSUME NEW a \in Seq(Byte), NEW z \in Seq(Byte), At(a, Len(z) + 1) = At(z, Len(z) + 1)
        PROVE  Len(a) <= Len(z)
    <3> DEFINE j == Len(z) + 1
    <3>1. j \in Nat \ {0} /\ j > Len(z) /\ Len(a) \in Nat /\ Len(z) \in Nat
      OBVIOUS
    <3>2. At(z, j) = 0 /\ (j <= Len(a) => At(a, j) > 0)
      <4> HIDE DEF j
      <4> QED  BY <3>1, AtFacts
    <3>3. At(a, j) = 0
      BY <2>2, <3>2
    <3>4. ~ (j <= Len(a))
      <4> HIDE DEF j
      <4> QED  BY <3>2, <3>3
    <3> QED  BY <3>1, <3>4
  <2>3. Len(s) + 1 \in Nat \ {0} /\ Len(t) + 1 \in Nat \ {0}
    BY <1>1
  <2>4. Len(s) <= Len(t) /\ Len(t) <= Len(s)
    BY <2>1, <2>2, <2>3
  <2>5. Len(s) = Len(t)
    BY <1>1, <2>4
  <2>6. ASSUME NEW j \in 1 .. Len(s) PROVE s[j] = t[j]
    <3>1. j \in Nat \ {0} /\ j <= Len(s) /\ j <= Len(t)
      BY <1>1, <2>5
    <3>2. At(s, j) = s[j] + 1 /\ At(t, j) = t[j] + 1 /\ s[j] \in Nat /\ t[j] \in Nat
      BY <3>1, AtFacts
    <3> DEFINE x == s[j]
               y == t[j]
    <3>3. x + 1 = y + 1 /\ x \in Nat /\ y \in Nat
      BY <2>1, <3>1, <3>2
    <3> HIDE DEF x, y
    <3>4. x = y
      BY <3>3
    <3> QED  BY <3>4 DEF x, y
  <2>7. s = t
    BY <2>5, <2>6
  <2> QED  BY <2>7
<1>3. k \in D /\ \A j \in D : k <= j
  <2>1. D \in SUBSET Nat
    OBVIOUS
  <2> HIDE DEF D
  <2> QED  BY <1>2, <2>1, MinOfNats
<1>4. k \in Nat \ {0} /\ At(s, k) # At(t, k)
  BY <1>3
<1> HIDE DEF k
<1>5. \A j \in 1 .. (k - 1) : At(s, j) = At(t, j)
  <2> SUFFICES ASSUME NEW j \in 1 .. (k - 1), At(s, j) # At(t, j) PROVE FALSE
    OBVIOUS
  <2>1. j \in Nat \ {0} /\ ~ (k <= j)
    BY <1>4
  <2> QED  BY <1>3, <2>1
<1>6. At(s, k) \in Nat /\ At(t, k) \in Nat
  BY <1>4, AtFacts
<1>7. At(s, k) < At(t, k) \/ At(t, k) < At(s, k)
  BY <1>4, <1>6
<1> QED  BY <1>4, <1>5, <1>7 DEF LessAt

\* The bytewise order is a strict total order.
LEMMA StringOrder ==
    ASSUME NEW S, S \subseteq Seq(Byte), IsFiniteSet(S), NEW R,
           \A x, y \in S : <<x, y>> \in R <=> StringLess(x, y)
    PROVE  StrictOrder(S, R)
<1>1. ASSUME NEW x \in S PROVE ~ StringLess(x, x)
  <2> SUFFICES ASSUME StringLess(x, x) PROVE FALSE
    OBVIOUS
  <2>1. x \in Seq(Byte)
    OBVIOUS
  <2>2. PICK k \in Nat : LessAt(x, x, k)
    BY <2>1, LessIsLessAt
  <2>3. At(x, k) \in Nat /\ At(x, k) < At(x, k)
    BY <2>1, <2>2, AtFacts DEF LessAt
  <2> QED  BY <2>3
<1>2. ASSUME NEW x \in S, NEW y \in S, NEW z \in S, StringLess(x, y), StringLess(y, z)
      PROVE  StringLess(x, z)
  <2>1. x \in Seq(Byte) /\ y \in Seq(Byte) /\ z \in Seq(Byte)
    OBVIOUS
  <2>2. PICK k \in Nat : LessAt(x, y, k)
    BY <1>2, <2>1, LessIsLessAt
  <2>3. PICK l \in Nat : LessAt(y, z, l)
    BY <1>2, <2>1, LessIsLessAt
  <2>4. PICK m \in Nat : LessAt(x, z, m)
    BY <2>1, <2>2, <2>3, LessAtTransitive
  <2> QED  BY <2>1, <2>4, LessAtIsLess
<1>3. ASSUME NEW x \in S, NEW y \in S, x # y PROVE StringLess(x, y) \/ StringLess(y, x)
  <2>1. x \in Seq(Byte) /\ y \in Seq(Byte)
    OBVIOUS
  <2>2. PICK k \in Nat : LessAt(x, y, k) \/ LessAt(y, x, k)
    BY <1>3, <2>1, LessAtConnected
  <2> QED  BY <2>1, <2>2, LessAtIsLess
<1> QED  BY <1>1, <1>2, <1>3 DEF StrictOrder

\* So finitely many strings can be put in it.
LEMMA StringsListed ==
    ASSUME NEW S, S \subseteq Seq(Byte), IsFiniteSet(S)
    PROVE  \E R : StrictOrder(S, R) /\ Listed(S, R, InOrder(S, StringLess))
<1> DEFINE R == {p \in S \X S : StringLess(p[1], p[2])}
           kth(k) == CHOOSE x \in S : Cardinality({y \in S : StringLess(y, x)}) = k - 1
           pick(k) == CHOOSE x \in S : Rank(S, R, x) = k - 1
<1>1. \A x, y \in S : <<x, y>> \in R <=> StringLess(x, y)
  OBVIOUS
<1> HIDE DEF R
<1>2. StrictOrder(S, R)
  BY <1>1, StringOrder
<1>3. \A x \in S : Rank(S, R, x) = Cardinality({y \in S : StringLess(y, x)})
  <2> SUFFICES ASSUME NEW x \in S
               PROVE  {y \in S : <<y, x>> \in R} = {y \in S : StringLess(y, x)}
    BY DEF Rank
  <2> QED  BY <1>1
<1>4. \A k : kth(k) = pick(k)
  BY <1>3
<1>5. InOrder(S, StringLess) = [k \in 1 .. Cardinality(S) |-> kth(k)]
  BY DEF InOrder
<1> HIDE DEF kth, pick
<1>6. [k \in 1 .. Cardinality(S) |-> kth(k)] = [k \in 1 .. Cardinality(S) |-> pick(k)]
  BY <1>4
<1>7. \A f : f = [k \in 1 .. Cardinality(S) |-> pick(k)] => Listed(S, R, f)
  BY DEF Listed, pick
<1>8. Listed(S, R, InOrder(S, StringLess))
  BY <1>5, <1>6, <1>7, Zenon
<1> QED  BY <1>2, <1>8, Zenon

\* The table of a column of strings: sorted and complete.
LEMMA SortedStrings ==
    ASSUME NEW vals \in Seq(AnyStrings), Len(vals) # 0, Len(vals) \in Word
    PROVE  LET dict == StringTable(vals) IN
           /\ dict \in Seq(AnyStrings) /\ Len(dict) = Cardinality(ToSet(vals))
           /\ Covers(dict, vals)
           /\ WritableTable("bytes", dict)
           /\ vals \in Seq(ShortStrings) /\ Cardinality(ToSet(vals)) <= MaxDictEntries
              => IsTable("bytes", dict)
           /\ EncodeRaw(dict) = Puts("bytes", dict)
<1> DEFINE S == ToSet(vals)
           dict == StringTable(vals)
<1>1. /\ IsFiniteSet(S) /\ S \subseteq AnyStrings /\ \A i \in 1 .. Len(vals) : vals[i] \in S
      /\ vals \in Seq(ShortStrings) => S \subseteq ShortStrings
  BY ValuesFinite
<1>2. S \subseteq Seq(Byte)
  <2> HIDE DEF S
  <2> QED  BY <1>1 DEF AnyStrings
<1>3. PICK R : StrictOrder(S, R) /\ Listed(S, R, dict)
  <2>1. \E R : StrictOrder(S, R) /\ Listed(S, R, InOrder(S, StringLess))
    <3> HIDE DEF S
    <3> QED  BY <1>1, <1>2, StringsListed
  <2>2. dict = InOrder(S, StringLess)
    BY DEF StringTable
  <2> HIDE DEF S, dict
  <2> QED  BY <2>1, <2>2, Zenon
<1> HIDE DEF S, dict
<1>4. /\ dict \in Seq(S) /\ Len(dict) = Cardinality(S) /\ Cardinality(S) \in Nat
      /\ \A x \in S : /\ Rank(S, R, x) + 1 \in 1 .. Cardinality(S)
                      /\ dict[Rank(S, R, x) + 1] = x
  BY <1>3, ChosenByRank
<1>5. dict \in Seq(AnyStrings)
  BY <1>1, <1>4, SeqWider
<1>6. Covers(dict, vals)
  BY <1>1, <1>4 DEF Covers
<1>7. AllWritable("bytes", dict) /\ EncodeRaw(dict) = Puts("bytes", dict)
  BY <1>5, StringsWritable
<1>8. WritableTable("bytes", dict)
  <2>1. Len(dict) \in Word
    BY <1>4, ValuesFew DEF S
  <2> QED  BY <1>7, <2>1 DEF WritableTable
<1>9. ASSUME vals \in Seq(ShortStrings), Cardinality(S) <= MaxDictEntries
      PROVE  IsTable("bytes", dict)
  <2>1. dict \in Seq(ShortStrings)
    BY <1>1, <1>4, <1>9, SeqWider
  <2>2. AllTakeable("bytes", dict)
    BY <1>5, <2>1, StringsWritable
  <2> QED  BY <1>4, <1>9, <2>2 DEF IsTable
<1> QED  BY <1>4, <1>5, <1>6, <1>7, <1>8, <1>9 DEF S, dict

\* The steps of the decoder.
LEMMA DictBytesSteps ==
    ASSUME NEW d, NEW n, NEW dict, NEW o,
           ReadTable("bytes", d) = [ok |-> TRUE, vals |-> dict, pos |-> o],
           ~ (Len(FlattenSeq(dict)) > MaxStringTable)
    PROVE  DecodeDictBytes(d, n) = LookupOrdinals(dict, ReadPacked(d, o, n))
<1> DEFINE t == ReadTable("bytes", d)
<1>1. DecodeDictBytes(d, n) =
          IF t.ok THEN IF Len(FlattenSeq(t.vals)) > MaxStringTable THEN Failed
                       ELSE LookupOrdinals(t.vals, ReadPacked(d, t.pos, n))
          ELSE Failed
  BY DEF DecodeDictBytes, Then
<1>2. t.ok /\ t.vals = dict /\ t.pos = o
  OBVIOUS
<1> HIDE DEF t
<1> QED  BY <1>1, <1>2

\* Or it refuses the table.
LEMMA TableRefused ==
    ASSUME NEW d, NEW n, NEW dict, NEW o,
           ReadTable("bytes", d) = [ok |-> TRUE, vals |-> dict, pos |-> o],
           Len(FlattenSeq(dict)) > MaxStringTable
    PROVE  DecodeDictBytes(d, n) = Failed
<1> DEFINE t == ReadTable("bytes", d)
<1>1. DecodeDictBytes(d, n) =
          IF t.ok THEN IF Len(FlattenSeq(t.vals)) > MaxStringTable THEN Failed
                       ELSE LookupOrdinals(t.vals, ReadPacked(d, t.pos, n))
          ELSE Failed
  BY DEF DecodeDictBytes, Then
<1>2. t.ok /\ t.vals = dict
  OBVIOUS
<1> HIDE DEF t
<1> QED  BY <1>1, <1>2

\* A column of strings of which a reader takes the table.
TableIsTaken(vals) ==
    /\ Cardinality(ToSet(vals)) <= MaxDictEntries
    /\ ~ (Len(FlattenSeq(StringTable(vals))) > MaxStringTable)

\* The dictionary codec of strings.
LEMMA DictBytesExact ==
    ASSUME NEW vals \in Seq(AnyStrings), Len(vals) # 0, Len(vals) \in Word
    PROVE  /\ EncodeDictBytes(vals) \in Seq(Byte)
           /\ vals \in Seq(ShortStrings) /\ TableIsTaken(vals) =>
                 Exact(DecodeDictBytes(EncodeDictBytes(vals), Len(vals)), vals)
           /\ \A n \in 0 .. Len(EncodeDictBytes(vals)) - 1 :
                 DecodeDictBytes(SubSeq(EncodeDictBytes(vals), 1, n), Len(vals)) = Failed
<1> DEFINE dict == StringTable(vals)
           g == Places(vals, dict)
           w == PlaceWidth(dict)
           t == TableOf("bytes", dict)
           e == EncodeDictBytes(vals)
<1>1. /\ dict \in Seq(AnyStrings) /\ Covers(dict, vals)
      /\ WritableTable("bytes", dict) /\ EncodeRaw(dict) = Puts("bytes", dict)
      /\ vals \in Seq(ShortStrings) /\ TableIsTaken(vals) =>
            IsTable("bytes", dict) /\ ~ (Len(FlattenSeq(dict)) > MaxStringTable)
  BY SortedStrings DEF TableIsTaken
<1>0. e = (AppendUvarint(Len(dict)) \o EncodeRaw(dict)) \o PackOrdinals(vals, dict)
  BY DEF EncodeDictBytes
<1> HIDE DEF dict, e
<1>2. Len(dict) \in Word
  BY <1>1, TableType
<1>3. /\ Packable(g, w) /\ Len(g) = Len(vals)
      /\ PackOrdinals(vals, dict) = Packed(g, w)
  BY <1>1, <1>2, PlacesFacts
<1>4. e = DictionaryOf("bytes", dict, g, w)
  <2>1. t = AppendUvarint(Len(dict)) \o EncodeRaw(dict)
    BY <1>1 DEF TableOf
  <2> HIDE DEF g, w
  <2> QED  BY <1>0, <1>3, <2>1 DEF DictionaryOf
<1>5. LookupOrdinals(dict, [ok |-> TRUE, vals |-> g]) = [ok |-> TRUE, vals |-> vals]
  BY <1>1, <1>2, PlacesLookedUp
<1> HIDE DEF g, w
<1>6. e \in Seq(Byte)
  BY <1>1, <1>3, <1>4, DictionaryType
<1>7. ASSUME vals \in Seq(ShortStrings), TableIsTaken(vals)
      PROVE  DecodeDictBytes(e, Len(vals)) = [ok |-> TRUE, vals |-> vals]
  <2>1. IsTable("bytes", dict) /\ ~ (Len(FlattenSeq(dict)) > MaxStringTable)
    BY <1>1, <1>7
  <2>2. /\ ReadTable("bytes", e) = [ok |-> TRUE, vals |-> dict, pos |-> Len(t)]
        /\ ReadPacked(e, Len(t), Len(g)) = [ok |-> TRUE, vals |-> g]
    BY <1>1, <1>3, <1>4, <2>1, DictionaryStands
  <2>3. DecodeDictBytes(e, Len(vals)) = LookupOrdinals(dict, ReadPacked(e, Len(t), Len(vals)))
    <3> HIDE DEF t
    <3> QED  BY <2>1, <2>2, DictBytesSteps
  <2> QED  BY <1>3, <1>5, <2>2, <2>3
<1>8. ASSUME NEW n \in 0 .. Len(e) - 1
      PROVE  DecodeDictBytes(SubSeq(e, 1, n), Len(vals)) = Failed
  <2> DEFINE d == SubSeq(e, 1, n)
  <2>1. \/ ReadTable("bytes", d) = Failed
        \/ /\ ReadTable("bytes", d) = [ok |-> TRUE, vals |-> dict, pos |-> Len(t)]
           /\ ReadPacked(d, Len(t), Len(g)) = Failed
    BY <1>1, <1>3, <1>4, DictionaryCut
  <2> HIDE DEF d, t
  <2>2. CASE ReadTable("bytes", d) = Failed
    <3>1. DecodeDictBytes(d, Len(vals)) = Failed
      BY <2>2 DEF DecodeDictBytes, Then, Failed
    <3> QED  BY <3>1 DEF d
  <2>3. CASE /\ ReadTable("bytes", d) = [ok |-> TRUE, vals |-> dict, pos |-> Len(t)]
             /\ ReadPacked(d, Len(t), Len(g)) = Failed
    <3>1. CASE ~ (Len(FlattenSeq(dict)) > MaxStringTable)
      <4>1. DecodeDictBytes(d, Len(vals)) = LookupOrdinals(dict, ReadPacked(d, Len(t), Len(vals)))
        BY <2>3, <3>1, DictBytesSteps
      <4>2. DecodeDictBytes(d, Len(vals)) = Failed
        BY <1>3, <2>3, <4>1, LookupFails
      <4> QED  BY <4>2 DEF d
    <3>2. CASE Len(FlattenSeq(dict)) > MaxStringTable
      <4>1. DecodeDictBytes(d, Len(vals)) = Failed
        BY <2>3, <3>2, TableRefused
      <4> QED  BY <4>1 DEF d
    <3> QED  BY <3>1, <3>2
  <2> QED  BY <2>1, <2>2, <2>3
<1> QED  BY <1>6, <1>7, <1>8 DEF e, Exact

(***************************************************************************)
(* Whatever the codec.                                                     *)
(***************************************************************************)
\* Whichever integer codec encodes a column of words, its payload decodes to
\* the very words, unless a dictionary has more entries than the reader takes;
\* and nothing shorter than the payload decodes at all (ints.go).
THEOREM IntCodecsExact ==
    ASSUME NEW id \in IntCodecs, NEW vals \in Seq(Word), Len(vals) # 0, Len(vals) \in Word,
           Len(vals) < HalfWord
    PROVE  LET e == EncodeInts(id, vals) IN
           /\ e \in Seq(Byte)
           /\ (id = "dict" => Cardinality(ToSet(vals)) <= MaxDictEntries) =>
                 Exact(DecodeInts(id, e, Len(vals)), vals)
           /\ \A n \in 0 .. Len(e) - 1 : DecodeInts(id, SubSeq(e, 1, n), Len(vals)) = Failed
<1>1. CASE id = "plain"
  BY <1>1, PlainExact DEF EncodeInts, DecodeInts
<1>2. CASE id = "varint"
  BY <1>2, VarintExact DEF EncodeInts, DecodeInts
<1>3. CASE id = "rle"
  <2>1. AllTakeable("int", vals) /\ AllWritable("int", vals)
    BY WordsTakeable
  <2> QED  BY <1>3, <2>1, RLEExact DEF EncodeInts, DecodeInts, EncodeRLEInt, DecodeRLEInt
<1>4. CASE id = "bitpack"
  BY <1>4, BitpackExact DEF EncodeInts, DecodeInts
<1>5. CASE id = "delta"
  BY <1>5, DeltaExact DEF EncodeInts, DecodeInts
<1>6. CASE id = "dod"
  BY <1>6, DoDExact DEF EncodeInts, DecodeInts
<1>7. CASE id = "dict"
  BY <1>7, DictIntExact DEF EncodeInts, DecodeInts
<1> QED  BY <1>1, <1>2, <1>3, <1>4, <1>5, <1>6, <1>7 DEF IntCodecs

\* The same of columns of strings: they come back unless one is longer than a
\* reader takes, or the strings of a dictionary are too many or too many bytes
\* (bytes.go).
THEOREM BytesCodecsExact ==
    ASSUME NEW id \in BytesCodecs, NEW vals \in Seq(AnyStrings),
           Len(vals) # 0, Len(vals) \in Word, Len(vals) < HalfWord
    PROVE  LET e == EncodeBytes(id, vals) IN
           /\ e \in Seq(Byte)
           /\ vals \in Seq(ShortStrings) /\ (id = "dict" => TableIsTaken(vals)) =>
                 Exact(DecodeBytes(id, e, Len(vals)), vals)
           /\ \A n \in 0 .. Len(e) - 1 : DecodeBytes(id, SubSeq(e, 1, n), Len(vals)) = Failed
<1>1. CASE id = "raw"
  BY <1>1, RawExact DEF EncodeBytes, DecodeBytes
<1>2. CASE id = "rle"
  <2>1. /\ AllWritable("bytes", vals)
        /\ vals \in Seq(ShortStrings) => AllTakeable("bytes", vals)
    BY StringsWritable
  <2> QED  BY <1>2, <2>1, RLEExact DEF EncodeBytes, DecodeBytes, EncodeRLEBytes, DecodeRLEBytes
<1>3. CASE id = "dict"
  BY <1>3, DictBytesExact DEF EncodeBytes, DecodeBytes
<1> QED  BY <1>1, <1>2, <1>3 DEF BytesCodecs

(***************************************************************************)
(* The choice among the candidates.                                        *)
(***************************************************************************)
LEMMA ShortestIs ==
    ASSUME NEW cands, Len(cands) \in Nat, Len(cands) # 0,
           \A k \in 1 .. Len(cands) : Len(cands[k].data) \in Nat
    PROVE  \E j \in 1 .. Len(cands) :
              /\ Shortest(cands) = cands[j]
              /\ \A k \in 1 .. Len(cands) : Len(cands[j].data) <= Len(cands[k].data)
<1> DEFINE n == Len(cands)
           size(k) == Len(cands[k].data)
           g == [p \in (1 .. n) \X (1 .. n) |-> IF size(p[1]) < size(p[2]) THEN p[1] ELSE p[2]]
           Eq(x) == [k \in 1 .. n |-> IF k = 1 THEN cands[1] ELSE Consider(x[k - 1], cands[k])]
           t == CHOOSE x : x = Eq(x)
<1>1. n \in Nat /\ 1 \in 1 .. n /\ n \in 1 .. n /\ n \in 0 .. n
  OBVIOUS
<1>2. \A k \in 1 .. n : size(k) \in Nat
  OBVIOUS
<1>3. \A k \in 1 .. n, i \in 1 .. n :
          g[<<k, i>>] = (IF size(k) < size(i) THEN k ELSE i) /\ g[<<k, i>>] \in 1 .. n
  <2> HIDE DEF n, size
  <2> QED  OBVIOUS
<1> HIDE DEF g
<1>4. PICK f \in [0 .. n -> 1 .. n] : IsIteration(f, n, 1, g)
  <2> HIDE DEF n
  <2> QED  BY <1>1, <1>3, Iterates
<1>5. /\ f[0] = 1
      /\ \A k \in 1 .. n : /\ f[k - 1] \in 1 .. n /\ f[k] \in 1 .. n
                           /\ f[k] = IF size(k) < size(f[k - 1]) THEN k ELSE f[k - 1]
  <2>1. \A k \in 1 .. n : k - 1 \in 0 .. n /\ k \in 0 .. n
    BY <1>1
  <2>2. f[0] = 1 /\ \A k \in 1 .. n : f[k] = g[<<k, f[k - 1]>>]
    BY <1>4 DEF IsIteration
  <2> HIDE DEF n, size
  <2> QED  BY <1>3, <1>4, <2>1, <2>2
<1> HIDE DEF size
<1> DEFINE h == [k \in 1 .. n |-> cands[f[k]]]
<1>6. h = Eq(h)
  <2>1. ASSUME NEW k \in 1 .. n
        PROVE  cands[f[k]] = IF k = 1 THEN cands[1] ELSE Consider(h[k - 1], cands[k])
    <3>1. CASE k = 1
      <4>1. f[1] = IF size(1) < size(1) THEN 1 ELSE 1
        <5>1. 1 - 1 = 0
          OBVIOUS
        <5> QED  BY <1>1, <1>5, <5>1
      <4> QED  BY <3>1, <4>1
    <3>2. CASE k # 1
      <4>1. k - 1 \in 1 .. n
        BY <1>1, <3>2
      <4>2. h[k - 1] = cands[f[k - 1]]
        BY <4>1
      <4>3. f[k] = IF size(k) < size(f[k - 1]) THEN k ELSE f[k - 1]
        BY <1>5
      <4> HIDE DEF h
      <4> QED  BY <3>2, <4>2, <4>3 DEF Consider, size
    <3> QED  BY <3>1, <3>2
  <2>2. Eq(h) = [k \in 1 .. n |-> cands[f[k]]]
    <3> HIDE DEF h, n
    <3> QED  BY <2>1
  <2> QED  BY <2>2
<1>7. t = Eq(t)
  <2> HIDE DEF Eq, h
  <2> QED  BY <1>6
<1>8. Shortest(cands) = t[n]
  BY DEF Shortest
<1> HIDE DEF t
<1>9. \A k \in 1 .. n : t[k] = IF k = 1 THEN cands[1] ELSE Consider(t[k - 1], cands[k])
  <2>1. \A k \in 1 .. n : t[k] = Eq(t)[k]
    <3> HIDE DEF Eq, n
    <3> QED  BY <1>7
  <2> QED  BY <2>1
<1>10. \A k \in 1 .. n : h[k] = IF k = 1 THEN cands[1] ELSE Consider(h[k - 1], cands[k])
  <2>1. \A k \in 1 .. n : h[k] = Eq(h)[k]
    <3> HIDE DEF Eq, n, h
    <3> QED  BY <1>6
  <2> HIDE DEF h
  <2> QED  BY <2>1
<1>11. \A k \in 1 .. n : h[k] = cands[f[k]]
  OBVIOUS
<1> HIDE DEF h
<1>12. t[n] = h[n]
  <2> DEFINE S == {k \in 0 .. n : k # 0 => t[k] = h[k]}
  <2>1. 0 \in S
    BY <1>1
  <2>2. ASSUME NEW k \in 0 .. n - 1, k \in S PROVE k + 1 \in S
    <3>1. k + 1 \in 1 .. n /\ (k + 1) - 1 = k /\ k + 1 \in 0 .. n /\ (k # 0 => k + 1 # 1)
      BY <1>1
    <3>2. t[k + 1] = h[k + 1]
      <4>1. k # 0 => t[k] = h[k]
        BY <2>2
      <4>2. t[k + 1] = IF k + 1 = 1 THEN cands[1] ELSE Consider(t[k], cands[k + 1])
        BY <1>9, <3>1
      <4>3. h[k + 1] = IF k + 1 = 1 THEN cands[1] ELSE Consider(h[k], cands[k + 1])
        BY <1>10, <3>1
      <4> QED  BY <3>1, <4>1, <4>2, <4>3
    <3> QED  BY <3>1, <3>2
  <2>3. \A k \in 0 .. n : k \in S
    <3> HIDE DEF S, n
    <3> QED  BY <1>1, <2>1, <2>2, Reaches
  <2>4. n # 0
    OBVIOUS
  <2> QED  BY <1>1, <2>3, <2>4
<1> DEFINE M == {k \in 0 .. n : \A i \in 1 .. k : size(f[k]) <= size(i)}
<1>13. \A k \in 0 .. n : k \in M
  <2>1. 0 \in M
    BY <1>1
  <2>2. ASSUME NEW k \in 0 .. n - 1, k \in M PROVE k + 1 \in M
    <3>1. k + 1 \in 1 .. n /\ (k + 1) - 1 = k /\ k + 1 \in 0 .. n
      BY <1>1
    <3>2. /\ f[k] \in 1 .. n /\ f[k + 1] \in 1 .. n
          /\ f[k + 1] = IF size(k + 1) < size(f[k]) THEN k + 1 ELSE f[k]
      <4>1. \A l \in 1 .. n : l - 1 = k => /\ f[k] \in 1 .. n /\ f[l] \in 1 .. n
                                          /\ f[l] = IF size(l) < size(f[k]) THEN l ELSE f[k]
        BY <1>5
      <4> QED  BY <3>1, <4>1
    <3>3. ASSUME NEW i \in 1 .. k + 1 PROVE size(f[k + 1]) <= size(i)
      <4>1. i = k + 1 \/ i \in 1 .. k
        BY <3>1
      <4>2. i \in 1 .. n
        BY <1>1, <3>1
      <4>3. i \in 1 .. k => size(f[k]) <= size(i)
        BY <2>2
      <4> DEFINE x == size(f[k])
                 y == size(k + 1)
                 z == size(i)
      <4>4. x \in Nat /\ y \in Nat /\ z \in Nat /\ (x <= z \/ z = y)
        BY <1>2, <3>1, <3>2, <4>1, <4>2, <4>3
      <4>5. size(f[k + 1]) = IF y < x THEN y ELSE x
        BY <3>2
      <4> HIDE DEF x, y
      <4> DEFINE u == size(f[k + 1])
      <4>6. u = IF y < x THEN y ELSE x
        BY <4>5
      <4> HIDE DEF z, u
      <4>7. u <= z
        BY <4>4, <4>6
      <4> QED  BY <4>7 DEF u, z
    <3> QED  BY <3>1, <3>3
  <2> HIDE DEF M, n
  <2> QED  BY <1>1, <2>1, <2>2, Reaches
<1>14. f[n] \in 1 .. n /\ Shortest(cands) = cands[f[n]]
  BY <1>1, <1>4, <1>8, <1>11, <1>12
<1>15. \A k \in 1 .. n : size(f[n]) <= size(k)
  BY <1>1, <1>13
<1> QED  BY <1>14, <1>15 DEF size

(***************************************************************************)
(* Packed values as a stream of bits.                                      *)
(***************************************************************************)

\* Bit t of a number.
BitIn(v, t) == (v \div Pow2[t]) % 2

\* Bit t of n values of w bits; zeros behind them.
BitOfColumn(vals, n, w, t) ==
    IF t < n * w THEN (vals[t \div w + 1] \div Pow2[t % w]) % 2 ELSE 0

\* Byte k of the stream of these bits.
ByteOfColumn(vals, n, w, k) ==
    Total([j \in 1 .. ByteBits |-> BitOfColumn(vals, n, w, (k - 1) * ByteBits + j - 1) * Pow2[j - 1]],
          ByteBits)

\* A bit below w is not disturbed by leaving out the bits from w on.
LEMMA BitOfLow ==
    ASSUME NEW x \in Nat, NEW w \in Nat, NEW r \in Nat, r < w
    PROVE  BitIn(x % Pow2[w], r) = BitIn(x, r)
<1> DEFINE l == (w - r) - 1
           c == Pow2[r]
           g == Pow2[l]
           m == Pow2[w]
           y == x \div c
           h == 2 * g
<1>1. l \in Nat /\ l + 1 = w - r /\ r + (l + 1) = w /\ l + 1 \in Nat
  OBVIOUS
<1>2. c \in Nat \ {0} /\ g \in Nat \ {0} /\ m = c * h /\ h \in Nat \ {0}
  <2>1. c \in Nat \ {0} /\ g \in Nat \ {0}
    <3> HIDE DEF l
    <3> QED  BY <1>1, Pow2Pos
  <2>2. Pow2[l + 1] = h
    <3> HIDE DEF l
    <3> QED  BY <1>1, Pow2Next
  <2>3. Pow2[r + (l + 1)] = c * Pow2[l + 1]
    <3> DEFINE k == l + 1
    <3>1. k \in Nat
      BY <1>1
    <3> HIDE DEF k
    <3> QED  BY <3>1, Pow2Sum
  <2>4. h \in Nat \ {0}
    <3> HIDE DEF g
    <3> QED  BY <2>1
  <2> QED  BY <1>1, <2>1, <2>2, <2>3, <2>4
<1> HIDE DEF l, c, g, m
<1>3. (x % (c * h)) \div c = (x \div c) % h
  <2>1. \A n \in Nat, d, e \in Nat \ {0} : (n % (d * e)) \div d = (n \div d) % e
    BY DivsTwice
  <2>2. c \in Nat \ {0} /\ h \in Nat \ {0}
    BY <1>2
  <2> HIDE DEF h
  <2> QED  BY <2>1, <2>2
<1>4. y \in Nat
  BY <1>2, DivMod
<1> HIDE DEF y
<1>5. (y % (2 * g)) % 2 = y % 2
  <2> DEFINE e == 2
  <2>1. e \in Nat \ {0}
    OBVIOUS
  <2> HIDE DEF e
  <2>2. \A n \in Nat, c1, c2 \in Nat \ {0} : (n % (c1 * c2)) % c1 = n % c1
    BY DivsTwice
  <2>3. g \in Nat \ {0}
    BY <1>2
  <2>4. (y % (e * g)) % e = y % e
    BY <1>4, <2>1, <2>2, <2>3
  <2> QED  BY <2>4 DEF e
<1>6. ((x % m) \div c) % 2 = (x \div c) % 2
  <2>1. (x % m) \div c = y % h
    BY <1>2, <1>3 DEF y
  <2> QED  BY <1>5, <2>1 DEF y
<1> QED  BY <1>6 DEF BitIn, m, c

\* The bits of what is above bit s.
LEMMA BitAbove ==
    ASSUME NEW v \in Nat, NEW s \in Nat, NEW r \in Nat
    PROVE  BitIn(v \div Pow2[s], r) = BitIn(v, s + r)
<1> DEFINE p == Pow2[s]
           c == Pow2[r]
<1>1. p \in Nat \ {0} /\ c \in Nat \ {0}
  BY Pow2Pos
<1>2. Pow2[s + r] = p * c
  BY Pow2Sum
<1> HIDE DEF p, c
<1>3. (v \div p) \div c = v \div (p * c)
  BY <1>1, DivsTwice
<1> QED  BY <1>2, <1>3 DEF BitIn, p, c

\* Bit t of the packed number is bit t of the stream.
LEMMA BitIsBit ==
    ASSUME NEW vals \in Seq(Nat), NEW w \in Nat \ {0}, NEW v, Codes(Masked(vals, w), w, v),
           NEW t \in Nat
    PROVE  BitOfColumn(vals, Len(vals), w, t) = BitIn(v, t)
<1> DEFINE n == Len(vals)
           i == t \div w
           r == t % w
           s == w * i
           x == v \div Pow2[s]
<1>1. n \in Nat /\ \A k \in 1 .. n : vals[k] \in Nat
  OBVIOUS
<1>2. i \in Nat /\ r \in Nat /\ r < w /\ t = s + r /\ s \in Nat
  <2>1. t \div w \in Nat /\ t % w \in 0 .. (w - 1) /\ t = (w * (t \div w)) + (t % w)
    BY DivMod
  <2>2. s \in Nat
    <3> HIDE DEF i
    <3> QED  BY <2>1, TimesNat DEF i
  <2> HIDE DEF s
  <2> QED  BY <2>1, <2>2 DEF s
<1>3. v \in Nat /\ v < Weight(w, n) /\ Len(Masked(vals, w)) = n
      /\ \A j \in 1 .. n : Masked(vals, w)[j] = Digit(v, w, j) /\ Masked(vals, w)[j] = vals[j] % Pow2[w]
  <2>1. Len(Masked(vals, w)) = n /\ \A j \in 1 .. n : Masked(vals, w)[j] = vals[j] % Pow2[w]
    BY <1>1 DEF Masked
  <2> HIDE DEF n
  <2> QED  BY <2>1 DEF Codes
<1>4. n * w = w * n /\ w * n \in Nat
  <2> HIDE DEF n
  <2> QED  BY <1>1, TimesNat, ThreeFactors
<1> HIDE DEF i, r, n
<1>5. CASE i < n
  <2>1. t < n * w
    <3>1. i + 1 <= n /\ i + 1 \in Nat
      BY <1>1, <1>2, <1>5
    <3>2. w * (i + 1) = s + w
      <4>1. w * (i + 1) = (w * i) + (w * 1) /\ w * 1 = w
        BY <1>2, ThreeFactors
      <4> QED  BY <4>1
    <3>3. w * (i + 1) <= w * n
      <4> PICK d \in Nat : n = (i + 1) + d
        <5>1. n - (i + 1) \in Nat /\ n = (i + 1) + (n - (i + 1))
          BY <1>1, <3>1
        <5> QED  BY <5>1
      <4>1. w * ((i + 1) + d) = (w * (i + 1)) + (w * d) /\ w * d \in Nat /\ w * (i + 1) \in Nat
        BY <3>1, TimesNat, ThreeFactors
      <4> DEFINE y == w * (i + 1)
                 z == w * d
      <4> HIDE DEF y, z
      <4>2. y <= y + z
        BY <4>1 DEF y, z
      <4> QED  BY <4>1, <4>2 DEF y, z
    <3> DEFINE N == n * w
    <3>4. s + w <= N /\ N \in Nat
      BY <1>4, <3>2, <3>3
    <3> HIDE DEF N, s
    <3>5. t < N
      BY <1>2, <3>4
    <3> QED  BY <3>5 DEF N
  <2>2. i + 1 \in 1 .. n /\ i + 1 \in Nat \ {0} /\ (i + 1) - 1 = i
    BY <1>1, <1>2, <1>5
  <2>3. vals[i + 1] \in Nat /\ vals[i + 1] % Pow2[w] = Digit(v, w, i + 1)
    BY <1>1, <1>3, <2>2
  <2>4. Digit(v, w, i + 1) = x % Pow2[w]
    BY <2>2 DEF Digit
  <2>5. x \in Nat
    <3>1. Pow2[s] \in Nat \ {0}
      <4> HIDE DEF s
      <4> QED  BY <1>2, Pow2Pos
    <3> HIDE DEF s
    <3> QED  BY <1>3, <3>1, DivMod
  <2>6. BitIn(vals[i + 1], r) = BitIn(vals[i + 1] % Pow2[w], r)
    BY <1>2, <2>3, BitOfLow
  <2>7. BitIn(x % Pow2[w], r) = BitIn(x, r)
    <3> HIDE DEF x
    <3> QED  BY <1>2, <2>5, BitOfLow
  <2>8. BitIn(x, r) = BitIn(v, s + r)
    <3> HIDE DEF s
    <3> QED  BY <1>2, <1>3, BitAbove
  <2>9. BitOfColumn(vals, n, w, t) = BitIn(vals[i + 1], r)
    <3> HIDE DEF s, x
    <3> QED  BY <2>1 DEF BitOfColumn, BitIn, i, r
  <2> HIDE DEF x, s
  <2>10. BitOfColumn(vals, n, w, t) = BitIn(v, t)
    BY <1>2, <2>3, <2>4, <2>6, <2>7, <2>8, <2>9
  <2> QED  BY <2>10 DEF n
<1>6. CASE ~ (i < n)
  <2> PICK d \in Nat : i = n + d
    <3>1. i - n \in Nat /\ i = n + (i - n)
      BY <1>1, <1>2, <1>6
    <3> QED  BY <3>1
  <2>1. s = (w * n) + (w * d) /\ w * d \in Nat
    BY <1>1, TimesNat, ThreeFactors
  <2> DEFINE y == w * n
             z == w * d
  <2>2. s = y + z /\ y \in Nat /\ z \in Nat /\ n * w = y
    BY <1>4, <2>1
  <2>3. Weight(w, n) = Pow2[y]
    BY DEF Weight
  <2> HIDE DEF y, z, s
  <2>4. y <= t /\ ~ (t < y)
    BY <1>2, <2>2
  <2>5. BitOfColumn(vals, n, w, t) = 0
    BY <2>2, <2>4 DEF BitOfColumn
  <2>6. Pow2[y] <= Pow2[t] /\ Pow2[y] \in Nat /\ Pow2[t] \in Nat
    BY <2>2, <2>4, Pow2Grows, Pow2Pos
  <2> DEFINE P == Pow2[t]
             Q == Pow2[y]
  <2>7. v < Q /\ Q <= P /\ P \in Nat /\ Q \in Nat
    BY <1>3, <2>3, <2>6
  <2> HIDE DEF P, Q
  <2>8. v < P
    BY <1>3, <2>7
  <2>9. v \div P = 0
    BY <1>3, <2>7, <2>8, ModOfSmaller
  <2>10. BitIn(v, t) = 0
    BY <2>9 DEF BitIn, P
  <2> QED  BY <2>5, <2>10 DEF n
<1> QED  BY <1>5, <1>6

\* So a byte of the stream of bits is a byte of the number.
LEMMA ByteIsDigit ==
    ASSUME NEW vals \in Seq(Nat), NEW w \in Nat \ {0}, NEW v, Codes(Masked(vals, w), w, v),
           NEW k \in Nat \ {0}
    PROVE  ByteOfColumn(vals, Len(vals), w, k) = Digit(v, ByteBits, k)
<1> DEFINE n == Len(vals)
           B == ByteBits
           s == (k - 1) * B
           x == v \div Pow2[s]
           f == [j \in 1 .. B |-> BitOfColumn(vals, n, w, (s + j) - 1) * Pow2[j - 1]]
<1>1. B \in Nat \ {0} /\ k - 1 \in Nat /\ v \in Nat
  BY WordBitsFacts DEF Codes
<1>2. s \in Nat /\ s = B * (k - 1) /\ 1 * B = B
  BY <1>1, TimesNat, ThreeFactors
<1>3. x \in Nat
  <2>1. Pow2[s] \in Nat \ {0}
    <3> HIDE DEF s
    <3> QED  BY <1>2, Pow2Pos
  <2> HIDE DEF s
  <2> QED  BY <1>1, <2>1, DivMod
<1>4. Pow2[1] = 2
  <2>1. PICK z \in Nat : z = 0 /\ z + 1 = 1
    OBVIOUS
  <2>2. Pow2[z + 1] = 2 * Pow2[z] /\ Pow2[0] = 1
    BY Pow2Next
  <2> QED  BY <2>1, <2>2
<1>5. ASSUME NEW j \in 1 .. B
      PROVE  BitOfColumn(vals, n, w, (s + j) - 1) * Pow2[j - 1] = Digit(x, 1, j) * Pow2[1 * (j - 1)]
  <2> DEFINE l == j - 1
  <2>1. l \in Nat /\ 1 * l = l
    OBVIOUS
  <2>2. (s + j) - 1 = s + l /\ s + l \in Nat
    <3> HIDE DEF s
    <3> QED  BY <1>1, <1>2, <2>1
  <2> HIDE DEF l, n
  <2>3. BitOfColumn(vals, n, w, s + l) = BitIn(v, s + l)
    <3> DEFINE t == s + l
    <3>1. t \in Nat
      BY <2>2
    <3>2. BitOfColumn(vals, n, w, t) = BitIn(v, t)
      <4> HIDE DEF t
      <4> QED  BY <3>1, BitIsBit DEF n
    <3> QED  BY <3>2
  <2>4. BitIn(x, l) = BitIn(v, s + l)
    <3>1. v \in Nat /\ s \in Nat /\ l \in Nat
      BY <1>1, <1>2, <2>1
    <3>2. BitIn(v \div Pow2[s], l) = BitIn(v, s + l)
      <4> HIDE DEF s, x
      <4> QED  BY <3>1, BitAbove
    <3> QED  BY <3>2 DEF x
  <2>5. Digit(x, 1, j) = BitIn(x, l)
    <3> HIDE DEF x
    <3> QED  BY <1>4, <2>1 DEF Digit, BitIn, l
  <2> HIDE DEF s, x
  <2> QED  BY <2>1, <2>2, <2>3, <2>4, <2>5 DEF l
<1>6. f = Digits(x, 1, B)
  <2> HIDE DEF x, n, s
  <2> QED  BY <1>5 DEF Digits
<1>7. Total(f, B) = x % Pow2[1 * B]
  <2> HIDE DEF x, f
  <2> QED  BY <1>1, <1>3, <1>6, DigitsAre
<1>8. ByteOfColumn(vals, n, w, k) = Total(f, B)
  <2>1. \A j \in 1 .. B : (k - 1) * ByteBits + j - 1 = (s + j) - 1
    <3> DEFINE z == (k - 1) * ByteBits
    <3>1. z \in Nat
      BY <1>2
    <3> HIDE DEF z
    <3>2. \A j \in 1 .. B : z + j - 1 = (z + j) - 1
      BY <3>1
    <3> QED  BY <3>2 DEF z
  <2> HIDE DEF n, s
  <2>2. f = [j \in 1 .. ByteBits |-> BitOfColumn(vals, n, w, (k - 1) * ByteBits + j - 1) * Pow2[j - 1]]
    BY <2>1
  <2> HIDE DEF f
  <2> QED  BY <2>2 DEF ByteOfColumn
<1>9. Digit(v, B, k) = x % Pow2[B]
  BY <1>2 DEF Digit
<1> HIDE DEF x, f
<1>10. ByteOfColumn(vals, n, w, k) = Digit(v, B, k)
  BY <1>2, <1>7, <1>8, <1>9
<1> QED  BY <1>10

\* The packer writes a stream of bits, the bits of each value in their order
\* and the values in theirs, whatever words they cross (bitpack.go:5-13).
THEOREM PackedBits ==
    ASSUME NEW vals \in Seq(Nat), NEW w \in 1 .. WordBits
    PROVE  AppendPacked(vals, w)
           = [k \in 1 .. PackedBytes(Len(vals), w) |-> ByteOfColumn(vals, Len(vals), w, k)]
<1> DEFINE n == Len(vals)
           e == AppendPacked(vals, w)
           m == PackedBytes(n, w)
<1>1. w \in Nat \ {0} /\ w \in 0 .. WordBits
  BY WordBitsFacts
<1>2. PICK v : Codes(Masked(vals, w), w, v) /\ Codes(e, ByteBits, v)
  BY <1>1, PackedIs
<1>3. e \in Seq(Byte) /\ Len(e) = m
  BY <1>1, PackedIs
<1>4. \A k \in 1 .. m : k \in Nat \ {0}
  OBVIOUS
<1> HIDE DEF e, m
<1>5. ASSUME NEW k \in 1 .. m PROVE e[k] = ByteOfColumn(vals, n, w, k)
  <2>1. e[k] = Digit(v, ByteBits, k)
    BY <1>2, <1>3 DEF Codes
  <2>2. ByteOfColumn(vals, n, w, k) = Digit(v, ByteBits, k)
    BY <1>1, <1>2, <1>4, ByteIsDigit
  <2> QED  BY <2>1, <2>2
<1>6. e = [k \in 1 .. m |-> e[k]]
  BY <1>3
<1>7. e = [k \in 1 .. m |-> ByteOfColumn(vals, n, w, k)]
  <2> HIDE DEF n
  <2> QED  BY <1>5, <1>6
<1> QED  BY <1>7 DEF e, m

=============================================================================
