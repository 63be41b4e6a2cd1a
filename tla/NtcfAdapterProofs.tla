-------------------------- MODULE NtcfAdapterProofs --------------------------
(***************************************************************************)
(* What the adapters make of a line, for every word size, every set of     *)
(* lines and every text in them: the record fits the schema, each column   *)
(* has what the line gives under its names and nothing else, counters and  *)
(* times keep their value, and an access log gives back the fields it was  *)
(* written from.                                                           *)
(*                                                                         *)
(* A line is decoded in one step, so the invariants follow from what the   *)
(* operators of NtcfAdapter return.  Two of those are hard.  splitCLF is a *)
(* recursive function that jumps ahead, whose tokens are shown to be those *)
(* of a function that goes back from the end of the line (SplitIs) and so  *)
(* to be split off one by one (SplitStep).  Float rounds to a gap that     *)
(* grows with the number; what the proofs need is that it is idempotent    *)
(* (FloatTwice), exact up to FloatExact (FloatExactly) and monotone        *)
(* (FloatGrows).                                                           *)
(***************************************************************************)
EXTENDS NtcfAdapter, SequenceTheorems, FiniteSetTheorems, WellFoundedInduction,
        NaturalsInduction, TLAPS

(***************************************************************************)
(* Least elements, induction along 0 .. n, and powers of two: the lemmas   *)
(* of NtcfCodecProofs, which is about words of another kind.               *)
(***************************************************************************)

\* A set of naturals that is not empty has a least element.
LEMMA MinOfNats ==
    ASSUME NEW S \in SUBSET Nat, S # {}
    PROVE  Min(S) \in S /\ \A y \in S : Min(S) <= y
<1> DEFINE R == {ss \in Nat \X Nat : ss[1] < ss[2]}
<1>1. IsWellFoundedOn(R, Nat)
  BY NatLessThanWellFounded DEF OpToRel
<1>2. \E x \in S : \A y \in S : ~ (<<y, x>> \in R)
  <2> HIDE DEF R
  <2> QED  BY <1>1, WFMin
<1>3. PICK x \in S : \A y \in S : ~ (<<y, x>> \in R)
  BY <1>2
<1>4. \A y \in S : x <= y
  <2> SUFFICES ASSUME NEW y \in S PROVE x <= y
    OBVIOUS
  <2>1. x \in Nat /\ y \in Nat /\ <<y, x>> \notin R
    BY <1>3
  <2>2. ~ (y < x)
    BY <2>1
  <2> QED  BY <2>1, <2>2
<1> QED  BY <1>4 DEF Min

\* A set that has 0 and, with each number below n, the next one.
LEMMA Reaches ==
    ASSUME NEW n \in Nat, NEW S, 0 \in S, \A k \in 0 .. n - 1 : k \in S => k + 1 \in S
    PROVE  \A k \in 0 .. n : k \in S
<1> SUFFICES ASSUME NEW w \in 0 .. n, w \notin S PROVE FALSE
  OBVIOUS
<1> DEFINE Bad == {k \in 0 .. n : k \notin S}
<1>1. Bad \in SUBSET Nat /\ w \in Bad
  OBVIOUS
<1>2. Min(Bad) \in Bad /\ \A y \in Bad : Min(Bad) <= y
  <2> HIDE DEF Bad
  <2> QED  BY <1>1, MinOfNats
<1> DEFINE m == Min(Bad)
<1>3. m \in 0 .. n /\ m \notin S /\ m # 0
  BY <1>2
<1>4. m - 1 \in 0 .. n - 1 /\ m - 1 \in 0 .. n
  BY <1>3
<1>5. m - 1 \in S
  <2> SUFFICES ASSUME m - 1 \notin S PROVE FALSE
    OBVIOUS
  <2>1. m <= m - 1
    BY <1>2, <1>4
  <2> HIDE DEF m
  <2> QED  BY <1>3, <2>1
<1>6. (m - 1) + 1 \in S
  BY <1>4, <1>5
<1> HIDE DEF m
<1> QED  BY <1>3, <1>6

\* f goes from base to f[n] by steps of g.
IsIteration(f, n, base, g) ==
    f[0] = base /\ \A k \in 1 .. n : f[k] = g[<<k, f[k - 1]>>]

\* A function is determined by its first value and by how each follows from
\* the one before.
LEMMA Iterates ==
    ASSUME NEW n \in Nat, NEW X, NEW base \in X, NEW g,
           \A k \in 1 .. n, x \in X : g[<<k, x>>] \in X
    PROVE  \E f \in [0 .. n -> X] : IsIteration(f, n, base, g)
<1> DEFINE S == {m \in 0 .. n : \E f \in [0 .. m -> X] : IsIteration(f, m, base, g)}
<1>1. 0 \in S
  <2> DEFINE f == [k \in 0 .. 0 |-> base]
  <2>1. f \in [0 .. 0 -> X] /\ f[0] = base
    OBVIOUS
  <2> HIDE DEF f
  <2>2. IsIteration(f, 0, base, g)
    BY <2>1 DEF IsIteration
  <2> QED  BY <2>1, <2>2
<1>2. ASSUME NEW m \in 0 .. n - 1, m \in S PROVE m + 1 \in S
  <2>1. PICK f \in [0 .. m -> X] : IsIteration(f, m, base, g)
    BY <1>2
  <2> DEFINE h == [k \in 0 .. m + 1 |-> IF k <= m THEN f[k] ELSE g[<<m + 1, f[m]>>]]
  <2>2. m \in Nat /\ m + 1 \in 1 .. n /\ m \in 0 .. m
    OBVIOUS
  <2>3. f[m] \in X
    BY <2>1, <2>2
  <2>4. g[<<m + 1, f[m]>>] \in X
    BY <2>2, <2>3
  <2>5. h \in [0 .. m + 1 -> X]
    BY <2>1, <2>4
  <2>6. h[m + 1] = g[<<m + 1, f[m]>>] /\ \A k \in 0 .. m : h[k] = f[k]
    BY <2>2
  <2> HIDE DEF h
  <2>7. IsIteration(h, m + 1, base, g)
    <3>1. h[0] = base
      BY <2>1, <2>2, <2>6 DEF IsIteration
    <3>2. ASSUME NEW k \in 1 .. m + 1 PROVE h[k] = g[<<k, h[k - 1]>>]
      <4>1. CASE k = m + 1
        BY <2>2, <2>6, <4>1
      <4>2. CASE k \in 1 .. m
        <5>1. k \in 0 .. m /\ k - 1 \in 0 .. m
          BY <4>2
        <5>2. f[k] = g[<<k, f[k - 1]>>]
          BY <2>1, <4>2 DEF IsIteration
        <5> QED  BY <2>6, <5>1, <5>2
      <4> QED  BY <2>2, <4>1, <4>2
    <3> QED  BY <3>1, <3>2 DEF IsIteration
  <2>8. m + 1 \in 0 .. n
    OBVIOUS
  <2> QED  BY <2>5, <2>7, <2>8
<1> HIDE DEF S
<1>3. \A k \in 0 .. n : k \in S
  BY <1>1, <1>2, Reaches
<1> QED  BY <1>3 DEF S

(***************************************************************************)
(* Powers of two.                                                          *)
(***************************************************************************)

\* The equation that defines Pow2 has a solution.
LEMMA Pow2Def == Pow2 = [n \in Nat |-> IF n = 0 THEN 1 ELSE 2 * Pow2[n - 1]]
<1> DEFINE Eq(h) == [n \in Nat |-> IF n = 0 THEN 1 ELSE 2 * h[n - 1]]
           g == [p \in Nat \X Nat |-> 2 * p[2]]
           F(n) == CHOOSE f \in [0 .. n -> Nat] : IsIteration(f, n, 1, g)
           h == [n \in Nat |-> F(n)[n]]
<1>1. \A k \in Nat, x \in Nat : g[<<k, x>>] = 2 * x
  OBVIOUS
<1>2. \A n \in Nat : F(n) \in [0 .. n -> Nat] /\ IsIteration(F(n), n, 1, g)
  <2> SUFFICES ASSUME NEW n \in Nat
               PROVE  \E f \in [0 .. n -> Nat] : IsIteration(f, n, 1, g)
    OBVIOUS
  <2>1. 1 \in Nat /\ \A k \in 1 .. n, x \in Nat : g[<<k, x>>] \in Nat
    BY <1>1
  <2> HIDE DEF g
  <2> QED  BY <2>1, Iterates
<1> HIDE DEF F, g
<1>3. ASSUME NEW n \in Nat PROVE F(n + 1)[n] = F(n)[n]
  <2> DEFINE S == {k \in 0 .. n : F(n + 1)[k] = F(n)[k]}
  <2>1. 0 \in S
    <3>1. n + 1 \in Nat /\ 0 \in 0 .. n
      OBVIOUS
    <3> QED  BY <1>2, <3>1 DEF IsIteration
  <2>2. ASSUME NEW k \in 0 .. n - 1, k \in S PROVE k + 1 \in S
    <3>1. k + 1 \in 1 .. n /\ k + 1 \in 1 .. (n + 1) /\ (k + 1) - 1 = k /\ k + 1 \in 0 .. n
      OBVIOUS
    <3>2. F(n)[k + 1] = g[<<k + 1, F(n)[k]>>]
      BY <1>2, <3>1 DEF IsIteration
    <3>3. F(n + 1)[k + 1] = g[<<k + 1, F(n + 1)[k]>>]
      <4>1. n + 1 \in Nat
        OBVIOUS
      <4> QED  BY <1>2, <3>1, <4>1 DEF IsIteration
    <3> QED  BY <2>2, <3>1, <3>2, <3>3
  <2>3. \A k \in 0 .. n : k \in S
    <3> HIDE DEF S
    <3> QED  BY <2>1, <2>2, Reaches
  <2>4. n \in 0 .. n
    OBVIOUS
  <2> QED  BY <2>3, <2>4
<1>4. h = Eq(h)
  <2> SUFFICES ASSUME NEW n \in Nat PROVE h[n] = IF n = 0 THEN 1 ELSE 2 * h[n - 1]
    BY Zenon
  <2>1. CASE n = 0
    BY <1>2, <2>1 DEF IsIteration
  <2>2. CASE n # 0
    <3>1. n - 1 \in Nat /\ (n - 1) + 1 = n /\ n \in 1 .. n
      BY <2>2
    <3>2. F(n)[n] = g[<<n, F(n)[n - 1]>>]
      BY <1>2, <3>1 DEF IsIteration
    <3>3. F(n)[n - 1] = h[n - 1] /\ F(n - 1)[n - 1] \in Nat
      <4>1. F(n)[n - 1] = F(n - 1)[n - 1]
        BY <1>3, <3>1
      <4>2. n - 1 \in 0 .. (n - 1)
        BY <3>1
      <4> QED  BY <1>2, <3>1, <4>1, <4>2
    <3>4. g[<<n, F(n)[n - 1]>>] = 2 * h[n - 1]
      <4>1. h[n - 1] = F(n - 1)[n - 1]
        BY <3>1
      <4> HIDE DEF h
      <4> QED  BY <1>1, <3>3, <4>1
    <3> QED  BY <2>2, <3>2, <3>4
  <2> QED  BY <2>1, <2>2
<1>5. Pow2 = CHOOSE f : f = Eq(f)
  BY DEF Pow2
<1> HIDE DEF Eq, h
<1>6. Pow2 = Eq(Pow2)
  BY <1>4, <1>5
<1> QED  BY <1>6 DEF Eq

\* Each power is twice the one before.
LEMMA Pow2Next ==
    /\ Pow2[0] = 1
    /\ \A n \in Nat : Pow2[n + 1] = 2 * Pow2[n]
<1>1. \A n \in Nat : Pow2[n] = IF n = 0 THEN 1 ELSE 2 * Pow2[n - 1]
  BY Pow2Def, Zenon
<1>2. ASSUME NEW n \in Nat PROVE Pow2[n + 1] = 2 * Pow2[n]
  <2>1. n + 1 \in Nat /\ n + 1 # 0 /\ (n + 1) - 1 = n
    OBVIOUS
  <2> QED  BY <1>1, <2>1
<1> QED  BY <1>1, <1>2

\* Powers are positive, and 2^(m + n) = 2^m * 2^n.
LEMMA Pow2Pos == \A n \in Nat : Pow2[n] \in Nat \ {0}
<1> SUFFICES ASSUME NEW n \in Nat PROVE Pow2[n] \in Nat \ {0}
  OBVIOUS
<1> DEFINE S == {k \in 0 .. n : Pow2[k] \in Nat \ {0}}
<1>1. 0 \in S
  BY Pow2Next
<1>2. ASSUME NEW k \in 0 .. n - 1, k \in S PROVE k + 1 \in S
  <2>1. Pow2[k + 1] = 2 * Pow2[k] /\ Pow2[k] \in Nat \ {0}
    BY <1>2, Pow2Next
  <2> QED  BY <2>1
<1>3. \A k \in 0 .. n : k \in S
  <2> HIDE DEF S
  <2> QED  BY <1>1, <1>2, Reaches
<1> QED  BY <1>3

\* Exponents add.
LEMMA Pow2Sum == \A m, n \in Nat : Pow2[m + n] = Pow2[m] * Pow2[n]
<1> SUFFICES ASSUME NEW m \in Nat, NEW n \in Nat PROVE Pow2[m + n] = Pow2[m] * Pow2[n]
  OBVIOUS
<1> DEFINE S == {k \in 0 .. n : Pow2[m + k] = Pow2[m] * Pow2[k]}
<1>1. 0 \in S
  <2>1. Pow2[m] \in Nat
    BY Pow2Pos
  <2> QED  BY <2>1, Pow2Next
<1>2. ASSUME NEW k \in 0 .. n - 1, k \in S PROVE k + 1 \in S
  <2>1. Pow2[m + k] = Pow2[m] * Pow2[k] /\ Pow2[k] \in Nat /\ Pow2[m] \in Nat
    BY <1>2, Pow2Pos
  <2>2. Pow2[k + 1] = 2 * Pow2[k] /\ Pow2[(m + k) + 1] = 2 * Pow2[m + k]
    BY Pow2Next
  <2>3. m + (k + 1) = (m + k) + 1 /\ k + 1 \in 0 .. n
    OBVIOUS
  <2>4. Pow2[m] * (2 * Pow2[k]) = 2 * (Pow2[m] * Pow2[k])
    BY <2>1
  <2> QED  BY <2>1, <2>2, <2>3, <2>4
<1>3. \A k \in 0 .. n : k \in S
  <2> HIDE DEF S
  <2> QED  BY <1>1, <1>2, Reaches
<1> QED  BY <1>3

\* They grow with the exponent.
LEMMA Pow2Grows ==
    /\ \A m, n \in Nat : m <= n => Pow2[m] <= Pow2[n]
    /\ \A m, n \in Nat : m < n => Pow2[m] < Pow2[n]
<1> SUFFICES ASSUME NEW m \in Nat, NEW n \in Nat, m < n PROVE Pow2[m] < Pow2[n]
  <2>1. \A n \in Nat : Pow2[n] \in Nat
    BY Pow2Pos
  <2> QED  BY <2>1
<1> DEFINE d == n - m - 1
<1>1. d \in Nat /\ n = m + (d + 1)
  OBVIOUS
<1> HIDE DEF d
<1>2. Pow2[n] = Pow2[m] * Pow2[d + 1] /\ Pow2[d + 1] = 2 * Pow2[d]
  <2>1. d + 1 \in Nat
    BY <1>1
  <2>2. Pow2[m + (d + 1)] = Pow2[m] * Pow2[d + 1]
    BY <2>1, Pow2Sum
  <2> QED  BY <1>1, <2>2, Pow2Next
<1>3. Pow2[m] \in Nat \ {0} /\ Pow2[d] \in Nat \ {0}
  BY <1>1, Pow2Pos
<1>4. Pow2[m] * (2 * Pow2[d]) = (Pow2[m] * Pow2[d]) + (Pow2[m] * Pow2[d])
  BY <1>3
<1>5. Pow2[m] * Pow2[d] >= Pow2[m]
  BY <1>3
<1> QED  BY <1>2, <1>3, <1>4, <1>5

(***************************************************************************)
(* Numbers that go through a float64.                                      *)
(***************************************************************************)

\* Products, as the proofs need them.
LEMMA Products ==
    ASSUME NEW a \in Int, NEW b \in Int, NEW c \in Int
    PROVE  a * b \in Int /\ a * (b * c) = (a * b) * c /\ a * b = b * a
  OBVIOUS

\* Quotient and remainder.
LEMMA DivModParts ==
    ASSUME NEW a \in Int, NEW d \in Nat \ {0}
    PROVE  a \div d \in Int /\ a % d \in 0 .. (d - 1) /\ a = (d * (a \div d)) + (a % d)
  OBVIOUS

\* Only one quotient and remainder make a number.
LEMMA DivModOnly ==
    ASSUME NEW d \in Nat \ {0}, NEW q \in Int, NEW r \in 0 .. (d - 1)
    PROVE  ((d * q) + r) \div d = q /\ ((d * q) + r) % d = r
  OBVIOUS

\* How far a number is from 0.
Size(h) == IF h < 0 THEN -h ELSE h

\* A size that some gap up to m doublings is for.
Below(h, m) == Size(h) < FloatExact * Pow2[m]

\* The domains of the constants.
LEMMA Constants ==
    /\ Width \in Nat \ {0} /\ FloatExact \in Nat \ {0} /\ FloatExact % 2 = 0
    /\ \A n \in Nat : Pow2[n] \in Nat \ {0}
<1>1. \A n \in Nat : n % 4 = 0 => n % 2 = 0
  OBVIOUS
<1> QED  BY <1>1, AdapterAssumption, Pow2Pos

\* A gap is the first that is big enough.
LEMMA GapIs ==
    ASSUME NEW h \in Int, NEW m \in 0 .. (Width + 1), Below(h, m)
    PROVE  \E j \in 0 .. m :
              /\ Gap(h) = Pow2[j] /\ Below(h, j)
              /\ \A i \in 0 .. (Width + 1) : Below(h, i) => Pow2[j] <= Pow2[i]
<1> DEFINE I == {i \in 0 .. (Width + 1) : Size(h) < FloatExact * Pow2[i]}
           S == {Pow2[j] : j \in I}
<1>1. Gap(h) = Min(S)
  BY DEF Gap, Size
<1>2. m \in I /\ Width + 1 \in Nat /\ \A i \in I : i \in Nat
  BY Constants DEF Below
<1>3. S \in SUBSET Nat /\ S # {}
  BY <1>2, Constants
<1>4. Min(S) \in S /\ \A y \in S : Min(S) <= y
  <2> HIDE DEF S
  <2> QED  BY <1>3, MinOfNats
<1>5. PICK j \in I : Min(S) = Pow2[j]
  BY <1>4
<1>6. \A i \in I : Pow2[j] <= Pow2[i]
  BY <1>4, <1>5
<1>7. j <= m
  <2>1. j \in Nat /\ m \in Nat /\ Pow2[j] <= Pow2[m] /\ Pow2[j] \in Nat /\ Pow2[m] \in Nat
    BY <1>2, <1>6, Constants
  <2> HIDE DEF I
  <2>2. ~ (m < j)
    BY <2>1, Pow2Grows
  <2> QED  BY <2>1, <2>2
<1>8. j \in 0 .. m
  BY <1>2, <1>7
<1> QED  BY <1>1, <1>5, <1>6, <1>8 DEF Below

\* What rounding to a multiple of g gives.
Rounded(h, g) ==
    IF 2 * (h % g) < g \/ (2 * (h % g) = g /\ (h \div g) % 2 = 0) THEN (h \div g) * g
    ELSE ((h \div g) + 1) * g

\* Rounding gives a multiple of g, off by half of g at most; a multiple stays.
LEMMA RoundedIs ==
    ASSUME NEW h \in Int, NEW g \in Nat \ {0}
    PROVE  /\ \E k \in Int : Rounded(h, g) = k * g
           /\ Rounded(h, g) \in Int
           /\ 2 * (Rounded(h, g) - h) <= g /\ 2 * (h - Rounded(h, g)) <= g
           /\ h >= 0 => Rounded(h, g) >= 0
           /\ \A k \in Int : h = k * g => Rounded(h, g) = h
<1> DEFINE q == h \div g
           r == h % g
<1>1. q \in Int /\ r \in 0 .. (g - 1) /\ h = (g * q) + r
  BY DivModParts
<1>2. Rounded(h, g) = IF 2 * r < g \/ (2 * r = g /\ q % 2 = 0) THEN q * g ELSE (q + 1) * g
  BY DEF Rounded
<1>3. \A k \in Int : h = k * g => r = 0
  <2> SUFFICES ASSUME NEW k \in Int, h = k * g PROVE h % g = 0
    OBVIOUS
  <2>1. 0 \in 0 .. (g - 1) /\ k * g = (g * k) + 0
    OBVIOUS
  <2>2. ((g * k) + 0) % g = 0
    BY <2>1, DivModOnly
  <2> QED  BY <2>1, <2>2
<1> HIDE DEF q, r
<1> DEFINE p == g * q
           f == Rounded(h, g)
<1>4. p \in Int /\ h = p + r /\ q * g = p /\ (q + 1) * g = p + g
  BY <1>1
<1>5. \E k \in Int : f = k * g
  <2>1. f = q * g \/ f = (q + 1) * g
    BY <1>2
  <2>2. q \in Int /\ q + 1 \in Int
    BY <1>1
  <2> HIDE DEF f
  <2> QED  BY <2>1, <2>2
<1>6. h >= 0 => p >= 0
  <2>1. h >= 0 => q >= 0
    BY <1>1 DEF q
  <2> QED  BY <1>1, <2>1
<1>7. /\ f \in Int /\ 2 * (f - h) <= g /\ 2 * (h - f) <= g
      /\ h >= 0 => f >= 0
      /\ r = 0 => f = h
  <2> HIDE DEF p
  <2>1. f = IF 2 * r < g \/ (2 * r = g /\ q % 2 = 0) THEN p ELSE p + g
    BY <1>2, <1>4
  <2>2. CASE 2 * r < g \/ (2 * r = g /\ q % 2 = 0)
    <3>1. f = p /\ 2 * r <= g
      BY <1>1, <2>1, <2>2
    <3> QED  BY <1>1, <1>4, <1>6, <3>1
  <2>3. CASE ~ (2 * r < g \/ (2 * r = g /\ q % 2 = 0))
    <3>1. f = p + g /\ 2 * r >= g
      BY <1>1, <2>1, <2>3
    <3> QED  BY <1>1, <1>4, <1>6, <3>1
  <2> QED  BY <2>2, <2>3
<1> HIDE DEF p, f
<1>8. \A k \in Int : h = k * g => f = h
  BY <1>3, <1>7
<1> QED  BY <1>5, <1>7, <1>8 DEF f

\* A multiple of a power of two is one of each smaller power.
LEMMA MultipleOf ==
    ASSUME NEW j \in Nat, NEW i \in 0 .. j, NEW k \in Int
    PROVE  \E l \in Int : k * Pow2[j] = l * Pow2[i]
<1>1. i \in Nat /\ j - i \in Nat /\ j = i + (j - i)
  OBVIOUS
<1>2. Pow2[j] = Pow2[i] * Pow2[j - i]
  BY <1>1, Pow2Sum
<1>3. Pow2[i] \in Int /\ Pow2[j - i] \in Int
  BY <1>1, Constants
<1> DEFINE a == Pow2[i]
           b == Pow2[j - i]
<1> HIDE DEF a, b
<1>4. k * (a * b) = (k * b) * a /\ k * b \in Int
  <2>1. a \in Int /\ b \in Int
    BY <1>3 DEF a, b
  <2>2. k * (b * a) = (k * b) * a /\ a * b = b * a /\ k * b \in Int
    BY <2>1, Products
  <2> QED  BY <2>2
<1> QED  BY <1>2, <1>4 DEF a, b

\* Float rounds to a multiple of the gap.
LEMMA FloatIsRounded == \A h : Float(h) = Rounded(h, Gap(h))
  BY DEF Float, Rounded

\* What Float does to a number of a line: it stays an integer, is off by half
\* the gap at most, and is a multiple of it; and which numbers have no gap.
LEMMA FloatIs ==
    ASSUME NEW h \in Int, NEW m \in 0 .. (Width + 1), Below(h, m)
    PROVE  /\ Gap(h) \in Nat \ {0} /\ Float(h) \in Int
           /\ 2 * (Float(h) - h) <= Gap(h) /\ 2 * (h - Float(h)) <= Gap(h)
           /\ h >= 0 => Float(h) >= 0
           /\ \E j \in 0 .. m : /\ Gap(h) = Pow2[j] /\ Below(h, j)
                                /\ \E k \in Int : Float(h) = k * Pow2[j]
           /\ \A j \in 0 .. m : \A k \in Int : Gap(h) = Pow2[j] /\ h = k * Pow2[j] => Float(h) = h
<1>1. PICK j \in 0 .. m : Gap(h) = Pow2[j] /\ Below(h, j)
  BY GapIs
<1>2. Gap(h) \in Nat \ {0}
  BY <1>1, Constants
<1> DEFINE g == Gap(h)
           f == Rounded(h, g)
<1>3. f = Float(h)
  BY FloatIsRounded
<1>4. /\ \E k \in Int : f = k * g
      /\ f \in Int
      /\ 2 * (f - h) <= g /\ 2 * (h - f) <= g
      /\ h >= 0 => f >= 0
      /\ \A k \in Int : h = k * g => f = h
  <2> HIDE DEF g
  <2> QED  BY <1>2, RoundedIs DEF g
<1> HIDE DEF f
<1>5. \E k \in Int : f = k * Pow2[j]
  BY <1>1, <1>4
<1>6. \A i \in 0 .. m : \A k \in Int : g = Pow2[i] /\ h = k * Pow2[i] => f = h
  BY <1>4
<1> QED  BY <1>1, <1>2, <1>3, <1>4, <1>5, <1>6

\* A size that fits a gap, doubled.
LEMMA Farther ==
    ASSUME NEW k \in Int, NEW g \in Nat \ {0}, NEW h \in Int, NEW F \in Nat,
           Size(h) < F * g, 2 * (k * g - h) <= g, 2 * (h - k * g) <= g
    PROVE  Size(k) <= F
<1> DEFINE s == Size(k)
<1>1. s \in Nat /\ (k = s \/ k = -s)
  BY DEF Size
<1>2. Size(h) \in Nat /\ Size(h) >= h /\ Size(h) >= -h
  BY DEF Size
<1>3. Size(k * g) = s * g
  <2>1. k < 0 => k * g < 0 /\ -(k * g) = (-k) * g
    OBVIOUS
  <2>2. k >= 0 => k * g >= 0
    OBVIOUS
  <2> QED  BY <2>1, <2>2 DEF Size
<1>4. s * g \in Nat /\ F * g \in Nat /\ k * g \in Int
  BY <1>1
<1>5. 2 * (s * g) <= 2 * Size(h) + g
  <2>1. s * g = k * g \/ s * g = -(k * g)
    BY <1>3, <1>4 DEF Size
  <2> HIDE DEF s
  <2> QED  BY <1>2, <1>4, <2>1
<1> HIDE DEF s
<1>6. SUFFICES ASSUME s >= F + 1 PROVE FALSE
  BY <1>1 DEF s
<1>7. s * g >= (F + 1) * g
  BY <1>1, <1>6
<1>8. (F + 1) * g = F * g + g
  OBVIOUS
<1> QED  BY <1>2, <1>4, <1>5, <1>7, <1>8

\* A float64 is itself as a float64.
LEMMA FloatTwice ==
    ASSUME NEW h \in Int, NEW m \in 0 .. Width, Below(h, m)
    PROVE  Below(Float(h), m + 1) /\ Float(Float(h)) = Float(h)
<1> DEFINE f == Float(h)
<1>1. m \in 0 .. (Width + 1) /\ m + 1 \in 0 .. (Width + 1) /\ m \in Nat
  BY Constants
<1>2. /\ Gap(h) \in Nat \ {0} /\ f \in Int
      /\ 2 * (f - h) <= Gap(h) /\ 2 * (h - f) <= Gap(h)
  BY <1>1, FloatIs
<1>3. PICK j \in 0 .. m, k \in Int : Gap(h) = Pow2[j] /\ Below(h, j) /\ f = k * Pow2[j]
  BY <1>1, FloatIs
<1> DEFINE g == Pow2[j]
<1>4. g \in Nat \ {0} /\ j \in Nat /\ j + 1 \in 0 .. (m + 1) /\ j \in 0 .. (m + 1)
  BY <1>1, Constants
<1> HIDE DEF f
<1>5. Size(k) <= FloatExact
  <2>1. Size(h) < FloatExact * g /\ 2 * (k * g - h) <= g /\ 2 * (h - k * g) <= g
    BY <1>2, <1>3 DEF Below
  <2> HIDE DEF g
  <2> QED  BY <1>4, <2>1, Farther, Constants
<1>6. \E i \in 0 .. (m + 1), l \in Int : Below(f, i) /\ f = l * Pow2[i]
  <2>1. Size(f) = Size(k) * g
    <3>1. k < 0 => k * g < 0 /\ -(k * g) = (-k) * g
      BY <1>4
    <3>2. k >= 0 => k * g >= 0
      BY <1>4
    <3> HIDE DEF g
    <3>3. f = k * g
      BY <1>3 DEF g
    <3> QED  BY <1>4, <3>1, <3>2, <3>3 DEF Size
  <2>2. CASE Size(k) < FloatExact
    <3>1. Size(k) * g < FloatExact * g
      <4>1. Size(k) \in Int /\ FloatExact \in Int
        BY Constants DEF Size
      <4> HIDE DEF g
      <4> QED  BY <1>4, <2>2, <4>1
    <3> QED  BY <1>3, <1>4, <2>1, <3>1 DEF Below
  <2>3. CASE Size(k) = FloatExact
    <3>2. Pow2[j + 1] = 2 * g
      BY <1>4, Pow2Next
    <3>3. FloatExact * g < FloatExact * (2 * g)
      <4> HIDE DEF g
      <4>1. FloatExact * g > 0 /\ FloatExact * (2 * g) = 2 * (FloatExact * g)
        BY <1>4, Constants
      <4> QED  BY <4>1, <1>4, Constants
    <3>4. Below(f, j + 1)
      BY <2>1, <2>3, <3>2, <3>3 DEF Below
    <3>5. k % 2 = 0
      BY <2>3, Constants DEF Size
    <3> DEFINE l == k \div 2
    <3>6. l \in Int /\ k = 2 * l
      BY <3>5
    <3> HIDE DEF l
    <3>7. f = l * (2 * g)
      <4>1. f = (2 * l) * g
        BY <1>3, <3>6
      <4> HIDE DEF g
      <4> QED  BY <1>4, <3>6, <4>1
    <3> QED  BY <1>4, <3>2, <3>4, <3>6, <3>7
  <2>4. Size(k) \in Int /\ FloatExact \in Int
    BY Constants DEF Size
  <2> QED  BY <1>5, <2>2, <2>3, <2>4
<1>7. PICK i \in 0 .. (m + 1), l \in Int : Below(f, i) /\ f = l * Pow2[i]
  BY <1>6
<1>8. i \in 0 .. (Width + 1) /\ i \in Nat
  <2>1. i <= m + 1 /\ m <= Width /\ i \in Nat /\ m \in Nat /\ Width \in Nat
    BY <1>1, Constants
  <2> HIDE DEF f
  <2> QED  BY <2>1
<1>9. PICK n \in 0 .. i : Gap(f) = Pow2[n]
  BY <1>2, <1>7, <1>8, GapIs
<1>10. \E x \in Int : l * Pow2[i] = x * Pow2[n]
  BY <1>7, <1>8, <1>9, MultipleOf
<1>11. PICK x \in Int : f = x * Pow2[n]
  BY <1>7, <1>10
<1>12. Float(f) = f
  BY <1>2, <1>7, <1>8, <1>9, <1>11, FloatIs
<1>13. Below(f, m + 1)
  <2>1. i <= m + 1 /\ m + 1 \in Nat
    BY <1>1
  <2>2. Pow2[i] <= Pow2[m + 1]
    BY <1>8, <2>1, Pow2Grows
  <2>3. FloatExact * Pow2[i] <= FloatExact * Pow2[m + 1]
    <3>1. Pow2[i] \in Int /\ Pow2[m + 1] \in Int
      BY <1>8, <2>1, Constants
    <3> QED  BY <2>2, <3>1, Constants
  <2>4. Size(f) \in Int /\ FloatExact * Pow2[i] \in Int /\ FloatExact * Pow2[m + 1] \in Int
    BY <1>2, <1>8, <2>1, Constants, Products DEF Size
  <2> QED  BY <1>7, <2>3, <2>4 DEF Below
<1> QED  BY <1>12, <1>13 DEF f

\* An even number up to twice FloatExact is a float64.
LEMMA FloatExactly ==
    ASSUME NEW n \in Nat, n <= FloatExact
    PROVE  Float(2 * n) = 2 * n
<1> DEFINE h == 2 * n
<1>1. Pow2[0] = 1 /\ Pow2[1] = 2 /\ Pow2[2] = 4
  <2>1. Pow2[0 + 1] = 2 * Pow2[0] /\ Pow2[1 + 1] = 2 * Pow2[1] /\ 0 + 1 = 1 /\ 1 + 1 = 2
    BY Pow2Next
  <2> QED  BY <2>1, Pow2Next
<1>2. h \in Int /\ Size(h) = h /\ 2 \in 0 .. (Width + 1) /\ 1 \in 0 .. (Width + 1)
  BY Constants DEF Size
<1>3. CASE n < FloatExact
  <2>1. Below(h, 1)
    BY <1>1, <1>2, <1>3, Constants DEF Below
  <2>2. PICK j \in 0 .. 1 : Gap(h) = Pow2[j]
    BY <1>2, <2>1, GapIs
  <2>3. \E k \in Int : h = k * Pow2[j]
    <3>1. j = 0 \/ j = 1
      OBVIOUS
    <3>2. h = h * Pow2[0] /\ h = n * Pow2[1]
      BY <1>1
    <3> HIDE DEF h
    <3> QED  BY <1>2, <3>1, <3>2
  <2> HIDE DEF h
  <2> QED  BY <1>2, <2>1, <2>2, <2>3, FloatIs DEF h
<1>4. CASE n = FloatExact
  <2>1. Below(h, 2)
    BY <1>1, <1>2, <1>4, Constants DEF Below
  <2>2. PICK j \in 0 .. 2 : Gap(h) = Pow2[j]
    BY <1>2, <2>1, GapIs
  <2>3. PICK k \in Int : h = k * Pow2[2]
    <3>1. n \div 2 \in Int /\ n = 2 * (n \div 2)
      BY <1>4, Constants
    <3>2. h = (n \div 2) * 4
      BY <3>1
    <3> QED  BY <1>1, <3>1, <3>2
  <2>4. \E l \in Int : h = l * Pow2[j]
    <3> HIDE DEF h
    <3>1. 2 \in Nat
      OBVIOUS
    <3>2. \E l \in Int : k * Pow2[2] = l * Pow2[j]
      BY <3>1, MultipleOf
    <3> QED  BY <2>3, <3>2
  <2> HIDE DEF h
  <2> QED  BY <1>2, <2>1, <2>2, <2>4, FloatIs DEF h
<1> QED  BY <1>3, <1>4, Constants

(***************************************************************************)
(* Texts and the values read from them.                                    *)
(***************************************************************************)
\* The fields of a text.
LEMMA TextFields ==
    ASSUME NEW k, NEW s, NEW n
    PROVE  Text(k, s, n).k = k /\ Text(k, s, n).n = n
  BY DEF Text

\* A decimal text has the number it was made from.
LEMMA DecimalFields == \A n : Decimal(n).k = "dec" /\ Decimal(n).n = n
  BY TextFields DEF Decimal

\* A number of a line has a gap.
LEMMA SizesBelow == \A n \in Sizes : n \in Int /\ Below(n, Width)
<1>1. FloatExact * Pow2[Width] \in Int
  BY Constants, Products
<1> QED  BY <1>1 DEF Sizes, Below, Size

\* There is a greatest number of zeros.
LEMMA ZerosBound ==
    \E c \in Nat : \A n : Zeros(n) \in 0 .. c
<1> DEFINE D == {10, 100, 1000}
           c == Cardinality(D)
<1>1. IsFiniteSet(D)
  <2>1. PICK n \in Nat : n = 1000
    OBVIOUS
  <2>2. IsFiniteSet(0 .. n)
    BY FS_Interval
  <2>3. D \subseteq 0 .. n
    BY <2>1
  <2> HIDE DEF D
  <2> QED  BY <2>2, <2>3, FS_Subset
<1> HIDE DEF D
<1>2. c \in Nat
  BY <1>1, FS_CardinalityType
<1>3. ASSUME NEW n PROVE Zeros(n) \in 0 .. c
  <2> DEFINE S == {d \in D : n % d = 0}
  <2>1. S \subseteq D
    OBVIOUS
  <2>2. Zeros(n) = Cardinality(S)
    BY DEF Zeros, D
  <2> HIDE DEF S
  <2>3. IsFiniteSet(S) /\ Cardinality(S) <= c
    BY <1>1, <2>1, FS_Subset
  <2>4. Cardinality(S) \in Nat
    BY <2>3, FS_CardinalityType
  <2> QED  BY <1>2, <2>2, <2>3, <2>4
<1> QED  BY <1>2, <1>3

\* One of some numbers ends in as many zeros as any of them.
LEMMA SomeRoundest ==
    ASSUME NEW S, S # {}
    PROVE  \E n \in S : \A m \in S : Zeros(m) <= Zeros(n)
<1>1. PICK c \in Nat : \A n : Zeros(n) \in 0 .. c
  BY ZerosBound
<1> DEFINE T == {c - Zeros(n) : n \in S}
<1>2. T \in SUBSET Nat /\ T # {}
  <2>1. \A n \in S : c - Zeros(n) \in Nat
    BY <1>1
  <2> QED  BY <2>1
<1>3. Min(T) \in T /\ \A y \in T : Min(T) <= y
  <2> HIDE DEF T
  <2> QED  BY <1>2, MinOfNats
<1>4. PICK n \in S : Min(T) = c - Zeros(n)
  BY <1>3
<1>5. ASSUME NEW m \in S PROVE Zeros(m) <= Zeros(n)
  <2>1. c - Zeros(n) <= c - Zeros(m)
    BY <1>3, <1>4
  <2>2. Zeros(m) \in Int /\ Zeros(n) \in Int
    BY <1>1
  <2> QED  BY <2>1, <2>2
<1> QED  BY <1>5

\* What a JSON number is written as is an integer number of halves, and is read
\* as the same float64.
LEMMA NumberWritten ==
    ASSUME NEW h \in Sizes
    PROVE  LET t == FormatFloat(Float(h))
           IN  t.k = "dec" /\ t.n \in Int /\ Float(t.n) = Float(h) /\ Float(h) \in Int
<1> DEFINE f == Float(h)
<1>1. f \in Int /\ Below(f, Width + 1) /\ Float(f) = f
  <2>1. Width \in 0 .. Width /\ Width \in 0 .. (Width + 1)
    BY Constants
  <2> QED  BY <2>1, SizesBelow, FloatIs, FloatTwice
<1>2. Gap(f) \in Nat \ {0}
  <2>1. Width + 1 \in 0 .. (Width + 1)
    BY Constants
  <2> HIDE DEF f
  <2> QED  BY <1>1, <2>1, FloatIs
<1> HIDE DEF f
<1> DEFINE same == {n \in (f \div 2) - Gap(f) .. (f \div 2) + Gap(f) : Float(2 * n) = f}
           roundest == {n \in same : \A m \in same : Zeros(m) <= Zeros(n)}
<1>3. FormatFloat(f) = IF f % 2 = 1 THEN Decimal(f)
                       ELSE IF f \div 2 \in roundest THEN Decimal(f)
                       ELSE Decimal(2 * (CHOOSE n \in roundest : TRUE))
  BY DEF FormatFloat
<1>4. CASE f % 2 = 1 \/ f \div 2 \in roundest
  <2>1. FormatFloat(f) = Decimal(f)
    BY <1>3, <1>4
  <2>2. FormatFloat(f).k = "dec" /\ FormatFloat(f).n = f
    BY <2>1, DecimalFields
  <2> QED  BY <1>1, <2>2 DEF f
<1>5. CASE ~ (f % 2 = 1 \/ f \div 2 \in roundest)
  <2>1. 2 * (f \div 2) = f /\ f \div 2 \in Int
    BY <1>1, <1>5
  <2>2. f \div 2 \in same
    BY <1>1, <1>2, <2>1
  <2>3. \A n \in same : n \in Int
    BY <1>1, <1>2
  <2> HIDE DEF same
  <2>4. \E n \in same : \A m \in same : Zeros(m) <= Zeros(n)
    BY <2>2, SomeRoundest
  <2> DEFINE x == CHOOSE n \in roundest : TRUE
  <2>5. x \in roundest
    BY <2>4
  <2>6. x \in Int /\ Float(2 * x) = f
    BY <2>3, <2>5 DEF same
  <2>7. FormatFloat(f) = Decimal(2 * x)
    BY <1>3, <1>5
  <2> HIDE DEF x
  <2>8. FormatFloat(f).k = "dec" /\ FormatFloat(f).n = 2 * x
    BY <2>7, DecimalFields
  <2>9. 2 * x \in Int
    BY <2>6
  <2> QED  BY <1>1, <2>6, <2>8, <2>9 DEF f
<1> QED  BY <1>4, <1>5

\* A text whose number can be read.
Readable(t) == t.n \in Int /\ Float(t.n) \in Int

\* A JSON object whose texts are those of a line.
Object(m) == \A k \in DOMAIN m : m[k].t \in Texts

\* Every text of a line has a number that a float64 can be made of.
LEMMA TextsReadable == \A t \in Texts : t.n \in Sizes /\ Readable(t)
<1>1. ASSUME NEW n \in Sizes PROVE n \in Int /\ Float(n) \in Int
  <2>1. Width \in 0 .. (Width + 1)
    BY Constants
  <2> QED  BY <2>1, SizesBelow, FloatIs
<1>2. \A t \in Texts : t.n \in Sizes
  BY DEF Texts
<1> QED  BY <1>1, <1>2 DEF Readable

\* The key that was found is one of those looked for.
LEMMA FirstKeyIs ==
    ASSUME NEW keys, DOMAIN keys \subseteq Nat, NEW S, FirstKey(keys, S) # Nothing
    PROVE  FirstKey(keys, S) \in S /\ \E i \in DOMAIN keys : FirstKey(keys, S) = keys[i]
<1> DEFINE has == {i \in DOMAIN keys : keys[i] \in S}
<1>1. FirstKey(keys, S) = IF has = {} THEN Nothing ELSE keys[Min(has)]
  BY DEF FirstKey
<1>2. has # {}
  BY <1>1
<1>3. has \in SUBSET Nat
  OBVIOUS
<1>4. Min(has) \in has
  <2> HIDE DEF has
  <2> QED  BY <1>2, <1>3, MinOfNats
<1> QED  BY <1>1, <1>2, <1>4

\* So has the text that stands for no value.
LEMMA NothingToRead == Readable(NoText)
<1>1. NoText.n = 0
  BY TextFields DEF NoText, Word
<1>2. Float(0) \in Int
  <2>1. PICK n \in Nat : n = 0
    OBVIOUS
  <2>2. n <= FloatExact
    BY <2>1, Constants
  <2>3. Float(2 * n) = 2 * n
    BY <2>2, FloatExactly
  <2>4. 2 * n = 0
    BY <2>1
  <2> QED  BY <2>3, <2>4
<1> QED  BY <1>1, <1>2 DEF Readable

\* asString gives a text with a number.
LEMMA StringIs ==
    ASSUME NEW m, Object(m), NEW keys, DOMAIN keys \subseteq Nat
    PROVE  Readable(asString(m, keys))
<1> DEFINE S == {k \in DOMAIN m : m[k].kind \in Textual}
           key == StringKey(m, keys)
<1>1. key = FirstKey(keys, S)
  BY DEF StringKey
<1>2. CASE ~ HasString(m, keys)
  BY <1>2, NothingToRead DEF asString
<1>3. CASE HasString(m, keys)
  <2>1. key # Nothing
    BY <1>3 DEF HasString
  <2> HIDE DEF key
  <2>2. key \in S
    <3> HIDE DEF S
    <3> QED  BY <1>1, <2>1, FirstKeyIs
  <2>3. key \in DOMAIN m /\ m[key].t \in Texts
    BY <2>2 DEF Object
  <2>4. asString(m, keys) = TextOf(m[key])
    BY <1>3 DEF asString, key
  <2> DEFINE v == m[key]
  <2>5. v.t.n \in Sizes /\ Readable(v.t)
    BY <2>3, TextsReadable
  <2> HIDE DEF v
  <2>6. Readable(FormatFloat(Float(v.t.n)))
    BY <2>5, NumberWritten DEF Readable
  <2>7. Readable(TextOf(v))
    BY <2>5, <2>6 DEF TextOf
  <2> QED  BY <2>4, <2>7 DEF v
<1> QED  BY <1>2, <1>3

(***************************************************************************)
(* What the values of a record are.                                        *)
(***************************************************************************)
Words == 0 .. Pow2[Width] - 1

\* A value of each sort of column.
IsNumber(v) == ~ v.null /\ v.int \in Words /\ v.bytes = <<>>
IsBytes(v) == ~ v.null /\ v.int = 0
IsAddress(v) == IsBytes(v) /\ v.bytes[1].k = "ip16"
IsNull(v) == v = NullVal

\* The null value is null.
LEMMA NullFields == NullVal.null /\ NullVal.int = 0
  BY DEF NullVal

\* A word is a value of an integer column.
LEMMA IntFields == \A n \in Words : IsNumber(IntVal(n))
  BY DEF IntVal, IsNumber

\* Bytes are a value of a bytes column.
LEMMA BytesFields == \A s : IsBytes(BytesVal(s)) /\ BytesVal(s).bytes = s /\ ~ IsNull(BytesVal(s))
  BY DEF BytesVal, IsBytes, IsNull, NullVal

\* Words, and half their number.
LEMMA WordsOf ==
    /\ \A n \in Int : ToWord(n) \in Words
    /\ Pow2[Width] \in Nat \ {0} /\ Pow2[Width] = 2 * Pow2[Width - 1] /\ Pow2[Width - 1] \in Nat \ {0}
    /\ 0 \in Words
<1>1. Width - 1 \in Nat /\ (Width - 1) + 1 = Width /\ Width \in Nat
  BY Constants
<1>2. Pow2[Width] = 2 * Pow2[Width - 1]
  BY <1>1, Pow2Next
<1>3. Pow2[Width] \in Nat \ {0} /\ Pow2[Width - 1] \in Nat \ {0}
  BY <1>1, Constants
<1>4. ASSUME NEW n \in Int PROVE n % Pow2[Width] \in 0 .. Pow2[Width] - 1
  BY <1>3, DivModParts
<1> QED  BY <1>2, <1>3, <1>4 DEF Words, ToWord

\* A time becomes a word, whatever text it is read from.
LEMMA TimeIs ==
    ASSUME NEW t, Readable(t)
    PROVE  parseTimeNanos(t) \in Words
<1>1. ASSUME NEW n \in Int PROVE epochToNanos(n) \in Words
  <2>1. Kilo \in Int /\ n * Kilo \in Int /\ (n * Kilo) * Kilo \in Int
        /\ ((n * Kilo) * Kilo) * Kilo \in Int
    BY AdapterAssumption, Products
  <2> DEFINE x == IF n < MaxSeconds THEN n * Kilo * Kilo * Kilo
                  ELSE IF n < MaxSeconds * Kilo THEN n * Kilo * Kilo
                  ELSE IF n < MaxSeconds * Kilo * Kilo THEN n * Kilo
                  ELSE n
  <2>2. x \in Int
    BY <2>1
  <2>3. epochToNanos(n) = ToWord(x)
    BY DEF epochToNanos
  <2> HIDE DEF x
  <2> QED  BY <2>2, <2>3, WordsOf
<1>2. ASSUME NEW f \in Int PROVE FloatToInt(f) \in Int
  <2>1. Truncated(f) \in Int
    BY DEF Truncated
  <2>2. MaxInt \in Int
    BY WordsOf DEF MaxInt
  <2>3. -MaxInt - 1 \in Int
    BY <2>2
  <2> QED  BY <2>1, <2>2, <2>3 DEF FloatToInt
<1>3. t.n \in Int /\ t.n \div 2 \in Int /\ Float(t.n) \in Int
  BY DEF Readable
<1> QED  BY <1>1, <1>2, <1>3, WordsOf DEF parseTimeNanos

\* A float64 that is not negative becomes a word.
LEMMA UintOfFloat ==
    ASSUME NEW f \in Int, f >= 0
    PROVE  /\ FloatToUint(f) \in Words
           /\ f < 2 * Pow2[Width] => FloatToUint(f) = f \div 2
<1>1. Truncated(f) = f \div 2 /\ f \div 2 \in Nat
  BY DEF Truncated
<1>2. f < 2 * Pow2[Width] => f \div 2 < Pow2[Width]
  BY WordsOf
<1> QED  BY <1>1, <1>2, WordsOf DEF FloatToUint, Words

\* Half of a number below 2p.
LEMMA HalfIs ==
    ASSUME NEW n \in Int, NEW p \in Nat, 0 <= n, n < 2 * p
    PROVE  n \div 2 \in 0 .. p - 1
  OBVIOUS

\* An unsigned number is one of a line, in the domain of its column.
LEMMA UintIs ==
    ASSUME NEW m, Object(m), NEW keys, DOMAIN keys \subseteq Nat
    PROVE  IsNull(uintValue(m, keys)) \/ IsNumber(uintValue(m, keys))
<1>1. CASE ~ HasUint(m, keys)
  BY <1>1 DEF uintValue, IsNull
<1>2. CASE HasUint(m, keys)
  <2> DEFINE S == {k \in DOMAIN m : m[k].kind = "number" \/ (m[k].kind = "string" /\ IsUint(m[k].t))}
             key == UintKey(m, keys)
             v == m[key]
  <2>1. key = FirstKey(keys, S) /\ key # Nothing
    BY <1>2 DEF UintKey, HasUint
  <2> HIDE DEF key
  <2>2. key \in S
    <3> HIDE DEF S
    <3> QED  BY <2>1, FirstKeyIs
  <2>3. v.t \in Texts /\ (v.kind = "number" \/ (v.kind = "string" /\ IsUint(v.t)))
    BY <2>2 DEF Object
  <2>4. v.kind = "number" => Float(v.t.n) >= 0
    BY <1>2 DEF HasUint, key
  <2>5. asUint(m, keys) = IF v.kind = "number" THEN FloatToUint(Float(v.t.n)) ELSE v.t.n \div 2
    BY DEF asUint, key
  <2> HIDE DEF v
  <2>6. v.t.n \in Int /\ Float(v.t.n) \in Int
    BY <2>3, TextsReadable DEF Readable
  <2>7. asUint(m, keys) \in Words
    <3>1. CASE v.kind = "number"
      <4>1. asUint(m, keys) = FloatToUint(Float(v.t.n)) /\ Float(v.t.n) >= 0
        BY <2>4, <2>5, <3>1
      <4> QED  BY <2>6, <4>1, UintOfFloat
    <3>2. CASE v.kind # "number"
      <4>1. 0 <= v.t.n /\ v.t.n < 2 * Pow2[Width]
        BY <2>3, <3>2 DEF IsUint
      <4>2. v.t.n \div 2 \in Words
        <5> DEFINE n == v.t.n
        <5>1. n \in Int /\ 0 <= n /\ n < 2 * Pow2[Width] /\ Pow2[Width] \in Nat
          BY <2>6, <4>1, WordsOf
        <5> HIDE DEF n
        <5>2. n \div 2 \in 0 .. Pow2[Width] - 1
          BY <5>1, HalfIs
        <5> QED  BY <5>2 DEF n, Words
      <4> QED  BY <2>5, <3>2, <4>2
    <3> QED  BY <3>1, <3>2
  <2>8. uintValue(m, keys) = IntVal(asUint(m, keys))
    BY <1>2 DEF uintValue
  <2>9. IsNumber(uintValue(m, keys))
    BY <2>7, <2>8, IntFields
  <2> QED  BY <2>9
<1> QED  BY <1>1, <1>2

\* An address, a string and a country is null or a value of its column.
LEMMA TextIs ==
    ASSUME NEW m, Object(m), NEW keys, DOMAIN keys \subseteq Nat
    PROVE  /\ \A v \in {ipValue(m, keys), strValue(m, keys), countryValue(m, keys)} :
                 IsNull(v) \/ IsBytes(v)
           /\ IsNull(ipValue(m, keys)) \/ IsAddress(ipValue(m, keys))
<1>1. ~ HasString(m, keys) => IsNull(strValue(m, keys)) /\ IsNull(countryValue(m, keys))
  BY DEF strValue, countryValue, IsNull
<1>2. HasString(m, keys) => IsBytes(strValue(m, keys)) /\ IsBytes(countryValue(m, keys))
  BY BytesFields DEF strValue, countryValue
<1>3. CASE IsIP(asString(m, keys))
  <2> DEFINE a == NormalizeIP(asString(m, keys))
  <2>1. ipValue(m, keys) = BytesVal(<<a>>)
    BY <1>3 DEF ipValue
  <2>2. a.k = "ip16"
    BY TextFields DEF NormalizeIP
  <2> HIDE DEF a
  <2>3. IsBytes(BytesVal(<<a>>)) /\ BytesVal(<<a>>).bytes[1] = a
    <3>1. <<a>>[1] = a
      OBVIOUS
    <3> QED  BY <3>1, BytesFields
  <2>4. IsAddress(ipValue(m, keys))
    BY <2>1, <2>2, <2>3 DEF IsAddress
  <2> QED  BY <1>1, <1>2, <2>4 DEF IsAddress
<1>4. CASE ~ IsIP(asString(m, keys))
  <2>1. IsNull(ipValue(m, keys))
    BY <1>4 DEF ipValue, IsNull
  <2> QED  BY <1>1, <1>2, <2>1
<1> QED  BY <1>3, <1>4

(***************************************************************************)
(* The two lists of an adapter of JSON lines, which are in step.           *)
(***************************************************************************)
Getters == {"time", "ip", "uint", "str", "country"}

\* How a value is got fits the type of its column.
InStep(f, c) ==
    /\ f.get \in Getters
    /\ c.type \in IntTypes <=> f.get \in {"time", "uint"}
    /\ c.type = "ip" <=> f.get = "ip"

\* What a table of fields is to a schema.
Listed(fields, schema, n) ==
    /\ Len(fields) = n /\ Len(schema) = n /\ n > 0
    /\ fields[1].get = "time" /\ \A i \in 2 .. n : fields[i].get # "time"
    /\ \A i \in 1 .. n : InStep(fields[i], schema[i]) /\ DOMAIN fields[i].keys \subseteq Nat

\* The parts of a field.
LEMMA FieldParts == \A g, k : Field(g, k).get = g /\ Field(g, k).keys = k
  BY DEF Field

\* The parts of a column.
LEMMA ColumnParts == \A n, t, f : Column(n, t, f).name = n /\ Column(n, t, f).type = t
  BY DEF Column

\* The names under which Flow looks for each column's value.
LEMMA FlowKeys ==
    /\ FlowFields[1].keys = <<"timestamp", "ts", "@timestamp">>
    /\ FlowFields[2].keys = <<"srcip", "src_ip", "saddr">>
    /\ FlowFields[3].keys = <<"dstip", "dst_ip", "daddr">>
    /\ FlowFields[4].keys = <<"srcport", "src_port", "sport">>
    /\ FlowFields[5].keys = <<"dstport", "dst_port", "dport">>
    /\ FlowFields[6].keys = <<"protocol", "proto">>
    /\ FlowFields[7].keys = <<"asn", "src_asn">>
    /\ FlowFields[8].keys = <<"country", "geoip_country", "src_country">>
    /\ FlowFields[9].keys = <<"eventtype", "event_type", "event">>
    /\ FlowFields[10].keys = <<"bytes", "in_bytes", "orig_bytes">>
    /\ FlowFields[11].keys = <<"packets", "in_pkts">>
  BY FieldParts DEF FlowFields

\* The fields of generic-flow go with its schema.
LEMMA FlowListed == Listed(FlowFields, FlowSchema, 11)
<1>1. Len(FlowFields) = 11 /\ Len(FlowSchema) = 11
  BY DEF FlowFields, FlowSchema
<1>2. /\ FlowFields[1].get = "time" /\ FlowFields[2].get = "ip"
      /\ FlowFields[3].get = "ip" /\ FlowFields[4].get = "uint"
      /\ FlowFields[5].get = "uint" /\ FlowFields[6].get = "str"
      /\ FlowFields[7].get = "uint" /\ FlowFields[8].get = "country"
      /\ FlowFields[9].get = "str" /\ FlowFields[10].get = "uint"
      /\ FlowFields[11].get = "uint"
  BY FieldParts DEF FlowFields
<1>3. /\ FlowSchema[1].type = "timestamp" /\ FlowSchema[2].type = "ip"
      /\ FlowSchema[3].type = "ip" /\ FlowSchema[4].type = "port"
      /\ FlowSchema[5].type = "port" /\ FlowSchema[6].type = "enum"
      /\ FlowSchema[7].type = "uint" /\ FlowSchema[8].type = "enum"
      /\ FlowSchema[9].type = "enum" /\ FlowSchema[10].type = "uint"
      /\ FlowSchema[11].type = "uint"
  BY ColumnParts DEF FlowSchema
<1>4. \A i \in 1 .. 11 : InStep(FlowFields[i], FlowSchema[i])
  BY <1>2, <1>3 DEF InStep, Getters, IntTypes
<1>5. \A i \in 2 .. 11 : FlowFields[i].get # "time"
  BY <1>2
<1>6. /\ DOMAIN FlowFields[1].keys \subseteq Nat /\ DOMAIN FlowFields[2].keys \subseteq Nat
      /\ DOMAIN FlowFields[3].keys \subseteq Nat /\ DOMAIN FlowFields[4].keys \subseteq Nat
      /\ DOMAIN FlowFields[5].keys \subseteq Nat /\ DOMAIN FlowFields[6].keys \subseteq Nat
      /\ DOMAIN FlowFields[7].keys \subseteq Nat /\ DOMAIN FlowFields[8].keys \subseteq Nat
      /\ DOMAIN FlowFields[9].keys \subseteq Nat /\ DOMAIN FlowFields[10].keys \subseteq Nat
      /\ DOMAIN FlowFields[11].keys \subseteq Nat
  BY FlowKeys
<1>7. \A i \in 1 .. 11 : DOMAIN FlowFields[i].keys \subseteq Nat
  BY <1>6
<1> QED  BY <1>1, <1>2, <1>4, <1>5, <1>7 DEF Listed

\* The names under which Honeypot looks for each column's value.
LEMMA HoneypotKeys ==
    /\ HoneypotFields[1].keys = <<"timestamp", "ts", "@timestamp", "eventtime">>
    /\ HoneypotFields[2].keys = <<"srcip", "src_ip", "peerIP", "src_host">>
    /\ HoneypotFields[3].keys = <<"srcport", "src_port", "peerPort">>
    /\ HoneypotFields[4].keys = <<"dstport", "dst_port", "hostPort">>
    /\ HoneypotFields[5].keys = <<"protocol", "proto", "service">>
    /\ HoneypotFields[6].keys = <<"eventtype", "event_type", "event">>
    /\ HoneypotFields[7].keys = <<"username", "user">>
    /\ HoneypotFields[8].keys = <<"password", "pass">>
    /\ HoneypotFields[9].keys = <<"country", "geoip_country">>
    /\ HoneypotFields[10].keys = <<"asn", "src_asn">>
  BY FieldParts DEF HoneypotFields

\* The fields of honeypot go with its schema.
LEMMA HoneypotListed == Listed(HoneypotFields, HoneypotSchema, 10)
<1>1. Len(HoneypotFields) = 10 /\ Len(HoneypotSchema) = 10
  BY DEF HoneypotFields, HoneypotSchema
<1>2. /\ HoneypotFields[1].get = "time" /\ HoneypotFields[2].get = "ip"
      /\ HoneypotFields[3].get = "uint" /\ HoneypotFields[4].get = "uint"
      /\ HoneypotFields[5].get = "str" /\ HoneypotFields[6].get = "str"
      /\ HoneypotFields[7].get = "str" /\ HoneypotFields[8].get = "str"
      /\ HoneypotFields[9].get = "country" /\ HoneypotFields[10].get = "uint"
  BY FieldParts DEF HoneypotFields
<1>3. /\ HoneypotSchema[1].type = "timestamp" /\ HoneypotSchema[2].type = "ip"
      /\ HoneypotSchema[3].type = "port" /\ HoneypotSchema[4].type = "port"
      /\ HoneypotSchema[5].type = "enum" /\ HoneypotSchema[6].type = "enum"
      /\ HoneypotSchema[7].type = "string" /\ HoneypotSchema[8].type = "string"
      /\ HoneypotSchema[9].type = "enum" /\ HoneypotSchema[10].type = "uint"
  BY ColumnParts DEF HoneypotSchema
<1>4. \A i \in 1 .. 10 : InStep(HoneypotFields[i], HoneypotSchema[i])
  BY <1>2, <1>3 DEF InStep, Getters, IntTypes
<1>5. \A i \in 2 .. 10 : HoneypotFields[i].get # "time"
  BY <1>2
<1>6. /\ DOMAIN HoneypotFields[1].keys \subseteq Nat /\ DOMAIN HoneypotFields[2].keys \subseteq Nat
      /\ DOMAIN HoneypotFields[3].keys \subseteq Nat /\ DOMAIN HoneypotFields[4].keys \subseteq Nat
      /\ DOMAIN HoneypotFields[5].keys \subseteq Nat /\ DOMAIN HoneypotFields[6].keys \subseteq Nat
      /\ DOMAIN HoneypotFields[7].keys \subseteq Nat /\ DOMAIN HoneypotFields[8].keys \subseteq Nat
      /\ DOMAIN HoneypotFields[9].keys \subseteq Nat /\ DOMAIN HoneypotFields[10].keys \subseteq Nat
  BY HoneypotKeys
<1>7. \A i \in 1 .. 10 : DOMAIN HoneypotFields[i].keys \subseteq Nat
  BY <1>6
<1> QED  BY <1>1, <1>2, <1>4, <1>5, <1>7 DEF Listed

(***************************************************************************)
(* A JSON line becomes a record of its schema.                             *)
(***************************************************************************)

\* A value in the domain of a column.
Fits(v, type) ==
    /\ v.int \in 0 .. Pow2[Width] - 1
    /\ v.null \/ type \notin IntTypes => v.int = 0
    /\ v.null \/ type \in IntTypes => v.bytes = <<>>
    /\ type = "ip" /\ ~ v.null => v.bytes[1].k = "ip16"

\* A record that fits a schema.
RecordFits(rec, schema) ==
    /\ Len(rec) = Len(schema)
    /\ ~ rec[1].null
    /\ \A i \in DOMAIN rec : Fits(rec[i], schema[i].type)

\* A null value fits every column.
LEMMA NullFits == \A v, type : IsNull(v) => Fits(v, type)
  BY WordsOf DEF IsNull, NullVal, Fits, Words

\* A number fits an integer column.
LEMMA NumberFits == \A v, type : IsNumber(v) /\ type \in IntTypes => Fits(v, type)
<1>1. "ip" \notin IntTypes
  BY DEF IntTypes
<1> QED  BY <1>1 DEF IsNumber, Fits, Words

\* Bytes fit the other columns, as an address one of addresses.
LEMMA BytesFit == \A v, type : IsBytes(v) /\ type \notin IntTypes /\ (type = "ip" => IsAddress(v)) => Fits(v, type)
  BY WordsOf DEF IsBytes, IsAddress, Fits, Words

\* What Value gives for each way to get one.
LEMMA ValueIs ==
    ASSUME NEW f, f.get \in Getters, DOMAIN f.keys \subseteq Nat, NEW m, Object(m)
    PROVE  /\ f.get = "time" => IsNumber(Value(f, m))
           /\ f.get = "uint" => IsNull(Value(f, m)) \/ IsNumber(Value(f, m))
           /\ f.get = "ip" => IsNull(Value(f, m)) \/ IsAddress(Value(f, m))
           /\ f.get \in {"str", "country"} => IsNull(Value(f, m)) \/ IsBytes(Value(f, m))
<1> DEFINE keys == f.keys
<1>1. CASE f.get = "time"
  <2>1. Readable(asString(m, keys))
    BY StringIs
  <2>2. parseTimeNanos(asString(m, keys)) \in Words
    BY <2>1, TimeIs
  <2>3. Value(f, m) = IntVal(parseTimeNanos(asString(m, keys)))
    BY <1>1 DEF Value
  <2>4. IsNumber(Value(f, m))
    BY <2>2, <2>3, IntFields
  <2> QED  BY <1>1, <2>4
<1>2. CASE f.get = "uint"
  <2>1. Value(f, m) = uintValue(m, keys)
    BY <1>2 DEF Value
  <2> QED  BY <1>2, <2>1, UintIs
<1>3. CASE f.get = "ip"
  <2>1. Value(f, m) = ipValue(m, keys)
    BY <1>3 DEF Value
  <2> QED  BY <1>3, <2>1, TextIs
<1>4. CASE f.get \in {"str", "country"}
  <2>1. Value(f, m) \in {strValue(m, keys), countryValue(m, keys)}
    BY <1>4 DEF Value
  <2> QED  BY <1>4, <2>1, TextIs
<1> QED  BY <1>1, <1>2, <1>3, <1>4 DEF Getters

\* What DecodeJSON makes of an object.
LEMMA JSONRecord ==
    ASSUME NEW fields, NEW schema, NEW n \in Nat, Listed(fields, schema, n),
           fields \in [1 .. n -> {fields[i] : i \in 1 .. n}], NEW m, Object(m)
    PROVE  LET rec == [i \in DOMAIN fields |-> Value(fields[i], m)]
           IN  RecordFits(rec, schema) /\ DOMAIN rec = 1 .. n /\ Len(rec) = n
<1> DEFINE rec == [i \in DOMAIN fields |-> Value(fields[i], m)]
           V == {Value(fields[i], m) : i \in 1 .. n}
<1>1. DOMAIN fields = 1 .. n
  OBVIOUS
<1>2. rec \in [1 .. n -> V] /\ \A i \in 1 .. n : rec[i] = Value(fields[i], m)
  BY <1>1
<1>3. rec \in Seq(V) /\ Len(rec) = n /\ DOMAIN rec = 1 .. n
  <2> HIDE DEF rec, V
  <2> QED  BY <1>2
<1> HIDE DEF rec, V
<1>4. ASSUME NEW i \in 1 .. n
      PROVE  /\ fields[i].get = "time" => IsNumber(rec[i])
             /\ Fits(rec[i], schema[i].type)
  <2> DEFINE f == fields[i]
             t == schema[i].type
             v == rec[i]
  <2>1. InStep(f, schema[i]) /\ DOMAIN f.keys \subseteq Nat
    BY DEF Listed
  <2>2. f.get \in Getters /\ (t \in IntTypes <=> f.get \in {"time", "uint"}) /\ (t = "ip" <=> f.get = "ip")
    BY <2>1 DEF InStep
  <2>3. v = Value(f, m)
    BY <1>2
  <2> HIDE DEF f, t, v
  <2>4. /\ f.get = "time" => IsNumber(v)
        /\ f.get = "uint" => IsNull(v) \/ IsNumber(v)
        /\ f.get = "ip" => IsNull(v) \/ IsAddress(v)
        /\ f.get \in {"str", "country"} => IsNull(v) \/ IsBytes(v)
    BY <2>1, <2>2, <2>3, ValueIs
  <2>5. Fits(v, t)
    <3>1. CASE IsNull(v)
      BY <3>1, NullFits
    <3>2. CASE f.get \in {"time", "uint"} /\ ~ IsNull(v)
      BY <2>2, <2>4, <3>2, NumberFits
    <3>3. CASE f.get = "ip" /\ ~ IsNull(v)
      BY <2>2, <2>4, <3>3, BytesFit DEF IsAddress
    <3>4. CASE f.get \in {"str", "country"} /\ ~ IsNull(v)
      BY <2>2, <2>4, <3>4, BytesFit
    <3> QED  BY <2>2, <3>1, <3>2, <3>3, <3>4 DEF Getters
  <2> QED  BY <2>4, <2>5 DEF f, t, v
<1>5. RecordFits(rec, schema)
  <2>1. Len(schema) = n /\ 1 \in 1 .. n /\ fields[1].get = "time"
    BY DEF Listed
  <2>2. IsNumber(rec[1])
    BY <1>4, <2>1
  <2>3. ~ rec[1].null
    BY <2>2 DEF IsNumber
  <2> QED  BY <1>3, <1>4, <2>1, <2>3 DEF RecordFits
<1>6. RecordFits(rec, schema) /\ DOMAIN rec = 1 .. n /\ Len(rec) = n
  BY <1>3, <1>5
<1> QED  BY <1>6 DEF rec

(***************************************************************************)
(* Tokens of a log line.                                                   *)
(***************************************************************************)

\* h goes back from base at n + 1, each place by a step of g from a later one.
GoesBack(h, n, base, J, g) ==
    h[n + 1] = base /\ \A i \in 1 .. n : h[i] = g[<<i, h[J[i]]>>]

\* Each place is followed by a later one.
Ahead(J, n) == \A i \in 1 .. n : J[i] \in (i + 1) .. (n + 1)

\* There is a function that goes back from its last place.
LEMMA BackwardExists ==
    ASSUME NEW n \in Nat, NEW V, NEW base \in V, NEW J, Ahead(J, n), NEW g,
           \A i \in 1 .. n, x \in V : g[<<i, x>>] \in V
    PROVE  \E h \in [1 .. n + 1 -> V] : GoesBack(h, n, base, J, g)
<1> DEFINE Part(h, m) == /\ h \in [m .. n + 1 -> V] /\ h[n + 1] = base
                         /\ \A i \in m .. n : h[i] = g[<<i, h[J[i]]>>]
           S == {k \in 0 .. n : \E h : Part(h, n + 1 - k)}
<1>1. 0 \in S
  <2> DEFINE h == [i \in n + 1 .. n + 1 |-> base]
  <2>1. h \in [n + 1 .. n + 1 -> V] /\ h[n + 1] = base
    OBVIOUS
  <2> HIDE DEF h
  <2>2. Part(h, n + 1)
    BY <2>1
  <2>3. n + 1 - 0 = n + 1
    OBVIOUS
  <2> QED  BY <2>2, <2>3
<1>2. ASSUME NEW k \in 0 .. n - 1, k \in S PROVE k + 1 \in S
  <2> DEFINE m == n - k
  <2>1. m \in 1 .. n /\ n + 1 - k = m + 1 /\ n + 1 - (k + 1) = m /\ k + 1 \in 0 .. n
    OBVIOUS
  <2> HIDE DEF m
  <2>2. PICK h : Part(h, m + 1)
    BY <1>2, <2>1
  <2> HIDE DEF S
  <2> DEFINE f == [i \in m .. n + 1 |-> IF i = m THEN g[<<m, h[J[m]]>>] ELSE h[i]]
  <2>3. J[m] \in m + 1 .. n + 1
    BY <2>1 DEF Ahead
  <2>4. g[<<m, h[J[m]]>>] \in V
    BY <2>1, <2>2, <2>3
  <2>5. f \in [m .. n + 1 -> V]
    BY <2>1, <2>2, <2>4
  <2>6. f[m] = g[<<m, h[J[m]]>>] /\ \A i \in m + 1 .. n + 1 : f[i] = h[i]
    BY <2>1
  <2> HIDE DEF f
  <2>7. ASSUME NEW i \in m .. n PROVE f[i] = g[<<i, f[J[i]]>>]
    <3>1. J[i] \in i + 1 .. n + 1
      BY <2>1 DEF Ahead
    <3>2. f[J[i]] = h[J[i]]
      BY <2>1, <2>6, <3>1
    <3>3. CASE i = m
      BY <2>6, <3>2, <3>3
    <3>4. CASE i \in m + 1 .. n
      <4>1. f[i] = h[i]
        BY <2>6, <3>4
      <4> QED  BY <2>2, <3>2, <3>4, <4>1
    <3> QED  BY <2>1, <3>3, <3>4
  <2>8. f[n + 1] = base
    BY <2>1, <2>2, <2>6
  <2>9. Part(f, m)
    BY <2>5, <2>7, <2>8
  <2> HIDE DEF Part
  <2> QED  BY <2>1, <2>9 DEF S
<1>3. \A k \in 0 .. n : k \in S
  <2> HIDE DEF S
  <2> QED  BY <1>1, <1>2, Reaches
<1>4. PICK h : Part(h, n + 1 - n)
  BY <1>3
<1>5. n + 1 - n = 1
  OBVIOUS
<1> QED  BY <1>4, <1>5 DEF GoesBack

\* The place of a text is the first, or the one behind the end.
LEMMA PlaceIs ==
    ASSUME NEW X, NEW s \in Seq(X), NEW i \in 1 .. Len(s) + 1, NEW c
    PROVE  /\ PlaceOf(s, i, c) \in i .. Len(s) + 1
           /\ PlaceOf(s, i, c) <= Len(s) => s[PlaceOf(s, i, c)] = c
           /\ \A j \in i .. PlaceOf(s, i, c) - 1 : s[j] # c
<1> DEFINE n == Len(s)
           S == {j \in i .. n : s[j] = c} \cup {n + 1}
<1>1. n \in Nat /\ i \in Nat
  OBVIOUS
<1>2. S \in SUBSET Nat /\ S # {}
  BY <1>1
<1>3. Min(S) \in S /\ \A y \in S : Min(S) <= y
  <2> HIDE DEF S
  <2> QED  BY <1>2, MinOfNats
<1>4. PlaceOf(s, i, c) = Min(S)
  BY DEF PlaceOf
<1>5. ASSUME NEW j \in i .. Min(S) - 1 PROVE s[j] # c
  <2>1. Min(S) \in i .. n + 1
    BY <1>1, <1>3
  <2>2. j \in i .. n /\ j < Min(S)
    BY <1>1, <2>1
  <2> QED  BY <1>1, <1>3, <2>1, <2>2
<1>6. Min(S) \in i .. n + 1 /\ (Min(S) <= n => s[Min(S)] = c)
  BY <1>1, <1>3
<1> QED  BY <1>4, <1>5, <1>6

\* Where the span or word at i starts, ends, and where the next one is looked for.
StartAt(s, i) == IF Closing(s[i]) = Space THEN i ELSE i + 1
StopAt(s, i) == PlaceOf(s, StartAt(s, i), Closing(s[i]))
NextAt(s, i) ==
    IF s[i] = Space THEN i + 1
    ELSE IF Closing(s[i]) = Space \/ StopAt(s, i) > Len(s) THEN StopAt(s, i)
    ELSE StopAt(s, i) + 1
TokenAt(s, i) == IF s[i] = Space THEN <<>> ELSE <<SubSeq(s, StartAt(s, i), StopAt(s, i) - 1)>>

\* Each step goes forward and gives one token at most.
LEMMA StepAt ==
    ASSUME NEW X, NEW s \in Seq(X), NEW i \in 1 .. Len(s)
    PROVE  /\ StartAt(s, i) \in i .. Len(s) + 1 /\ StopAt(s, i) \in StartAt(s, i) .. Len(s) + 1
           /\ NextAt(s, i) \in (i + 1) .. (Len(s) + 1)
           /\ TokenAt(s, i) \in Seq(Seq(X))
<1>1. StartAt(s, i) \in i .. Len(s) + 1 /\ Len(s) \in Nat
  BY DEF StartAt
<1> DEFINE a == StartAt(s, i)
           b == StopAt(s, i)
<1>2. /\ b \in a .. Len(s) + 1
      /\ \A j \in a .. b - 1 : s[j] # Closing(s[i])
      /\ b <= Len(s) => s[b] = Closing(s[i])
  <2> HIDE DEF a
  <2>1. a \in 1 .. Len(s) + 1
    BY <1>1 DEF a
  <2> QED  BY <2>1, PlaceIs DEF StopAt, a
<1>3. ASSUME s[i] # Space, Closing(s[i]) = Space PROVE b > i
  <2>1. a = i
    BY <1>3 DEF StartAt
  <2>2. b # i
    BY <1>1, <1>2, <1>3, <2>1
  <2> HIDE DEF a, b
  <2> QED  BY <1>1, <1>2, <2>1, <2>2
<1>4. ASSUME Closing(s[i]) # Space PROVE b >= i + 1
  <2>1. a = i + 1
    BY <1>4 DEF StartAt
  <2> HIDE DEF a, b
  <2> QED  BY <1>1, <1>2, <2>1
<1>5. NextAt(s, i) \in (i + 1) .. (Len(s) + 1)
  <2> HIDE DEF a
  <2>1. NextAt(s, i) = IF s[i] = Space THEN i + 1
                       ELSE IF Closing(s[i]) = Space \/ b > Len(s) THEN b ELSE b + 1
    BY DEF NextAt
  <2> HIDE DEF b
  <2>2. b \in Int /\ b <= Len(s) + 1
    BY <1>1, <1>2 DEF a
  <2> QED  BY <1>1, <1>3, <1>4, <2>1, <2>2
<1>6. SubSeq(s, a, b - 1) \in Seq(X)
  <2> HIDE DEF a, b
  <2>1. a \in 1 .. Len(s) + 1 /\ b - 1 \in a - 1 .. Len(s)
    BY <1>1, <1>2 DEF a
  <2> QED  BY <2>1, SubSeqProperties
<1>7. TokenAt(s, i) \in Seq(Seq(X))
  <2> DEFINE t == SubSeq(s, a, b - 1)
  <2>1. TokenAt(s, i) = IF s[i] = Space THEN <<>> ELSE <<t>>
    BY DEF TokenAt
  <2> HIDE DEF t
  <2>2. t \in Seq(X)
    BY <1>6 DEF t
  <2> QED  BY <2>1, <2>2
<1> QED  BY <1>1, <1>2, <1>5, <1>7

\* What splitCLF makes of the places of a line, from each on.
IsSplit(f, s) ==
    /\ DOMAIN f = 1 .. Len(s) + 1 /\ f[Len(s) + 1] = <<>>
    /\ \A i \in 1 .. Len(s) : f[i] = TokenAt(s, i) \o f[NextAt(s, i)]

\* Two functions that go back the same way are the same, and so are their values.
LEMMA SplitUnique ==
    ASSUME NEW X, NEW s \in Seq(X), NEW f, IsSplit(f, s), NEW h, IsSplit(h, s)
    PROVE  \A i \in 1 .. Len(s) + 1 : f[i] = h[i]
<1> DEFINE n == Len(s)
           S == {k \in 0 .. n : \A i \in n + 1 - k .. n + 1 : f[i] = h[i]}
<1>1. n \in Nat
  OBVIOUS
<1>2. 0 \in S
  <2>1. f[n + 1] = h[n + 1]
    BY DEF IsSplit
  <2>2. n + 1 - 0 = n + 1 /\ \A i \in n + 1 .. n + 1 : i = n + 1
    BY <1>1
  <2>3. \A i \in n + 1 - 0 .. n + 1 : f[i] = h[i]
    BY <2>1, <2>2
  <2>4. 0 \in 0 .. n
    BY <1>1
  <2> QED  BY <2>3, <2>4
<1>3. ASSUME NEW k \in 0 .. n - 1, k \in S PROVE k + 1 \in S
  <2> DEFINE m == n - k
  <2>1. m \in 1 .. n /\ n + 1 - k = m + 1 /\ n + 1 - (k + 1) = m /\ k + 1 \in 0 .. n
    BY <1>1
  <2> HIDE DEF m
  <2>2. \A i \in m + 1 .. n + 1 : f[i] = h[i]
    BY <1>3, <2>1
  <2>3. NextAt(s, m) \in m + 1 .. n + 1
    BY <2>1, StepAt
  <2>4. f[m] = h[m]
    BY <2>1, <2>2, <2>3 DEF IsSplit
  <2> HIDE DEF n
  <2>5. \A i \in m .. n + 1 : i = m \/ i \in m + 1 .. n + 1
    BY <1>1, <2>1
  <2> QED  BY <2>1, <2>2, <2>4, <2>5
<1>4. \A k \in 0 .. n : k \in S
  <2> HIDE DEF S, n
  <2> QED  BY <1>1, <1>2, <1>3, Reaches
<1>5. n \in S /\ n + 1 - n = 1
  BY <1>1, <1>4
<1> QED  BY <1>5

\* The places of a line do have such a function, with sequences of texts.
LEMMA SplitExists ==
    ASSUME NEW X, NEW s \in Seq(X)
    PROVE  \E f \in [1 .. Len(s) + 1 -> Seq(Seq(X))] : IsSplit(f, s)
<1> DEFINE n == Len(s)
           V == Seq(Seq(X))
           J == [i \in 1 .. n |-> NextAt(s, i)]
           g == [p \in (1 .. n) \X V |-> TokenAt(s, p[1]) \o p[2]]
<1>1. n \in Nat /\ <<>> \in V
  OBVIOUS
<1>2. \A i \in 1 .. n : J[i] = NextAt(s, i) /\ NextAt(s, i) \in (i + 1) .. (n + 1) /\ TokenAt(s, i) \in V
  BY StepAt
<1>3. Ahead(J, n)
  BY <1>2 DEF Ahead
<1>4. \A i \in 1 .. n, x \in V : g[<<i, x>>] = TokenAt(s, i) \o x
  OBVIOUS
<1>5. ASSUME NEW i \in 1 .. n, NEW x \in V PROVE g[<<i, x>>] \in V
  <2> HIDE DEF g, V
  <2>1. TokenAt(s, i) \o x \in V
    <3>1. TokenAt(s, i) \in V
      BY <1>2
    <3> QED  BY <3>1 DEF V
  <2> QED  BY <1>4, <2>1
<1>6. PICK f \in [1 .. n + 1 -> V] : GoesBack(f, n, <<>>, J, g)
  <2> HIDE DEF g, V, J
  <2> QED  BY <1>1, <1>3, <1>5, BackwardExists
<1>7. ASSUME NEW i \in 1 .. n PROVE f[i] = TokenAt(s, i) \o f[NextAt(s, i)]
  <2> HIDE DEF g, V, J
  <2>1. f[i] = g[<<i, f[J[i]]>>] /\ J[i] = NextAt(s, i)
    BY <1>2, <1>6 DEF GoesBack
  <2>2. NextAt(s, i) \in 1 .. n + 1
    BY <1>2
  <2>3. f[NextAt(s, i)] \in V
    BY <1>6, <2>2
  <2> QED  BY <1>4, <2>1, <2>3
<1>8. f[n + 1] = <<>>
  BY <1>6 DEF GoesBack
<1>9. IsSplit(f, s)
  BY <1>6, <1>7, <1>8 DEF IsSplit
<1> QED  BY <1>6, <1>9

\* A step back, as the code writes it.
LEMMA TokenForm ==
    ASSUME NEW X, NEW s \in Seq(X), NEW i \in 1 .. Len(s), NEW h, h[NextAt(s, i)] \in Seq(Seq(X)), NEW e,
           e = IF s[i] = Space THEN h[i + 1]
               ELSE <<SubSeq(s, StartAt(s, i), StopAt(s, i) - 1)>> \o
                    h[IF Closing(s[i]) = Space \/ StopAt(s, i) > Len(s) THEN StopAt(s, i) ELSE StopAt(s, i) + 1]
    PROVE  e = TokenAt(s, i) \o h[NextAt(s, i)]
<1>1. CASE s[i] = Space
  <2>1. NextAt(s, i) = i + 1 /\ TokenAt(s, i) = <<>>
    BY <1>1 DEF NextAt, TokenAt
  <2>2. <<>> \o h[NextAt(s, i)] = h[NextAt(s, i)]
    OBVIOUS
  <2> QED  BY <1>1, <2>1, <2>2
<1>2. CASE s[i] # Space
  BY <1>2 DEF NextAt, TokenAt
<1> QED  BY <1>1, <1>2

\* splitCLF is the value of that function at the first place.
LEMMA SplitIs ==
    ASSUME NEW X, NEW s \in Seq(X)
    PROVE  /\ \E f : IsSplit(f, s)
           /\ \A f : IsSplit(f, s) => splitCLF(s) = f[1]
           /\ splitCLF(s) \in Seq(Seq(X))
<1> DEFINE n == Len(s)
           V == Seq(Seq(X))
           Eq(split) == [i \in 1 .. Len(s) + 1 |->
            IF i > Len(s) THEN <<>>
            ELSE IF s[i] = Space THEN split[i + 1]
            ELSE LET end == Closing(s[i])
                     start == IF end = Space THEN i ELSE i + 1
                     stop == PlaceOf(s, start, end)
                     next == IF end = Space \/ stop > Len(s) THEN stop ELSE stop + 1
                 IN  <<SubSeq(s, start, stop - 1)>> \o split[next]]
<1>1. ASSUME NEW h, NEW i \in 1 .. n, h[NextAt(s, i)] \in V
      PROVE  Eq(h)[i] = TokenAt(s, i) \o h[NextAt(s, i)] /\ Eq(h)[i] \in V
  <2>1. Eq(h)[i] = IF s[i] = Space THEN h[i + 1]
                   ELSE <<SubSeq(s, StartAt(s, i), StopAt(s, i) - 1)>> \o
                        h[IF Closing(s[i]) = Space \/ StopAt(s, i) > Len(s) THEN StopAt(s, i) ELSE StopAt(s, i) + 1]
    BY DEF StartAt, StopAt
  <2> DEFINE e == Eq(h)[i]
  <2> HIDE DEF Eq
  <2>2. e = TokenAt(s, i) \o h[NextAt(s, i)]
    <3> HIDE DEF e
    <3>1. e = IF s[i] = Space THEN h[i + 1]
              ELSE <<SubSeq(s, StartAt(s, i), StopAt(s, i) - 1)>> \o
                   h[IF Closing(s[i]) = Space \/ StopAt(s, i) > Len(s) THEN StopAt(s, i) ELSE StopAt(s, i) + 1]
      BY <2>1 DEF e
    <3> QED  BY <1>1, <3>1, TokenForm
  <2>3. TokenAt(s, i) \o h[NextAt(s, i)] \in V
    <3>1. TokenAt(s, i) \in V
      BY StepAt
    <3> QED  BY <1>1, <3>1
  <2> QED  BY <2>2, <2>3
<1>2. \A h : Eq(h)[n + 1] = <<>> /\ DOMAIN Eq(h) = 1 .. n + 1 /\ <<>> \in V /\ n \in Nat
  OBVIOUS
<1>3. ASSUME NEW f, f = Eq(f) PROVE IsSplit(f, s) /\ f[1] \in V
  <2> HIDE DEF Eq, V
  <2>1. f[n + 1] = <<>> /\ DOMAIN f = 1 .. n + 1 /\ f[n + 1] \in V
    BY <1>2, <1>3
  <2>2. \A i \in 1 .. n : f[NextAt(s, i)] \in V =>
            f[i] = TokenAt(s, i) \o f[NextAt(s, i)] /\ f[i] \in V
    BY <1>1, <1>3
  <2> DEFINE S == {k \in 0 .. n : \A i \in n + 1 - k .. n + 1 : f[i] \in V}
  <2>3. 0 \in S
    <3>1. n + 1 - 0 = n + 1 /\ \A i \in n + 1 .. n + 1 : i = n + 1
      BY <1>2
    <3>2. \A i \in n + 1 - 0 .. n + 1 : f[i] \in V
      BY <2>1, <3>1
    <3>3. 0 \in 0 .. n
      BY <1>2
    <3> QED  BY <3>2, <3>3
  <2>4. ASSUME NEW k \in 0 .. n - 1, k \in S PROVE k + 1 \in S
    <3> DEFINE m == n - k
    <3>1. m \in 1 .. n /\ n + 1 - k = m + 1 /\ n + 1 - (k + 1) = m /\ k + 1 \in 0 .. n
      BY <1>2
    <3> HIDE DEF m
    <3>2. \A i \in m + 1 .. n + 1 : f[i] \in V
      BY <2>4, <3>1
    <3>3. NextAt(s, m) \in m + 1 .. n + 1
      BY <3>1, StepAt
    <3>4. f[m] \in V
      BY <2>2, <3>1, <3>2, <3>3
    <3> HIDE DEF n
    <3>5. \A i \in m .. n + 1 : i = m \/ i \in m + 1 .. n + 1
      BY <1>2, <3>1
    <3> QED  BY <3>1, <3>2, <3>4, <3>5
  <2>5. \A k \in 0 .. n : k \in S
    <3> HIDE DEF S, n
    <3> QED  BY <1>2, <2>3, <2>4, Reaches
  <2>6. n \in S /\ n + 1 - n = 1
    BY <1>2, <2>5
  <2>7. \A i \in 1 .. n + 1 : f[i] \in V
    BY <2>6
  <2>8. \A i \in 1 .. n : NextAt(s, i) \in 1 .. n + 1
    BY StepAt
  <2>9. \A i \in 1 .. n : f[i] = TokenAt(s, i) \o f[NextAt(s, i)]
    BY <2>2, <2>7, <2>8
  <2>10. 1 \in 1 .. n + 1
    BY <1>2
  <2> QED  BY <2>1, <2>7, <2>9, <2>10 DEF IsSplit
<1>4. PICK h \in [1 .. n + 1 -> V] : IsSplit(h, s)
  BY SplitExists
<1>5. h = Eq(h)
  <2>1. ASSUME NEW i \in 1 .. n + 1 PROVE h[i] = Eq(h)[i]
    <3> HIDE DEF Eq, V
    <3>1. CASE i = n + 1
      BY <1>2, <1>4, <3>1 DEF IsSplit
    <3>2. CASE i \in 1 .. n
      <4>1. NextAt(s, i) \in 1 .. n + 1
        BY <3>2, StepAt
      <4>2. h[NextAt(s, i)] \in V
        BY <1>4, <4>1
      <4>3. Eq(h)[i] = TokenAt(s, i) \o h[NextAt(s, i)]
        BY <1>1, <3>2, <4>2
      <4> QED  BY <1>4, <3>2, <4>3 DEF IsSplit
    <3> QED  BY <1>2, <3>1, <3>2
  <2>2. Eq(h) = [i \in 1 .. n + 1 |-> Eq(h)[i]]
    OBVIOUS
  <2>3. h = [i \in 1 .. n + 1 |-> h[i]]
    BY <1>4
  <2> HIDE DEF Eq, V
  <2> QED  BY <2>1, <2>2, <2>3
<1> DEFINE split == CHOOSE f : f = Eq(f)
<1>6. splitCLF(s) = split[1]
  BY DEF splitCLF
<1>7. split = Eq(split)
  <2> HIDE DEF Eq
  <2> QED  BY <1>5
<1> HIDE DEF split, Eq, V
<1>8. IsSplit(split, s) /\ split[1] \in V
  BY <1>3, <1>7
<1>9. ASSUME NEW f, IsSplit(f, s) PROVE splitCLF(s) = f[1]
  <2>1. 1 \in 1 .. n + 1
    BY <1>2
  <2> QED  BY <1>6, <1>8, <1>9, <2>1, SplitUnique
<1> QED  BY <1>6, <1>8, <1>9 DEF V

(***************************************************************************)
(* An access log's line becomes a record of its schema.                    *)
(***************************************************************************)
LEMMA RecordParts == /\ \A r : Record(r).rec = r /\ ~ Record(r).skip
                     /\ ErrSkip.rec = <<>> /\ NotDecoded.rec = <<>> /\ ErrSkip.skip /\ ~ NotDecoded.skip
  BY DEF Record, ErrSkip, NotDecoded

\* What can be read of a field is in the domain of a column.
LEMMA FieldReads ==
    /\ \A t \in Seq(Texts) : IsUintField(t) => IsNumber(IntVal(t[1].n \div 2))
    /\ \A t \in Seq(Texts) : Len(t) > 0 => IsNumber(IntVal(ToWord(t[1].n)))
    /\ IsNumber(IntVal(0))
    /\ \A t : IsNull(OptionalValue(t)) \/ IsBytes(OptionalValue(t))
<1>1. ASSUME NEW t \in Seq(Texts), IsUintField(t) PROVE IsNumber(IntVal(t[1].n \div 2))
  <2>1. t[1] \in Texts
    BY <1>1 DEF IsUintField
  <2> DEFINE n == t[1].n
  <2>2. n \in Int
    BY <2>1, TextsReadable DEF Readable
  <2>3. 0 <= n /\ n < 2 * Pow2[Width]
    BY <1>1 DEF IsUintField, IsUint
  <2>4. n \div 2 \in Words
    <3> HIDE DEF n
    <3>1. Pow2[Width] \in Nat
      BY WordsOf
    <3>2. n \div 2 \in 0 .. Pow2[Width] - 1
      BY <2>2, <2>3, <3>1, HalfIs
    <3> QED  BY <3>2 DEF Words
  <2> QED  BY <2>4, IntFields
<1>2. ASSUME NEW t \in Seq(Texts), Len(t) > 0 PROVE IsNumber(IntVal(ToWord(t[1].n)))
  <2>1. t[1] \in Texts
    BY <1>2
  <2>2. t[1].n \in Int
    BY <2>1, TextsReadable DEF Readable
  <2> QED  BY <2>2, WordsOf, IntFields
<1>3. IsNumber(IntVal(0))
  BY WordsOf, IntFields
<1>4. ASSUME NEW t PROVE IsNull(OptionalValue(t)) \/ IsBytes(OptionalValue(t))
  BY BytesFields DEF OptionalValue, IsNull
<1> QED  BY <1>1, <1>2, <1>3, <1>4

\* A record of eight values, each of the sort of its column of WebSchema.
LEMMA EightFit ==
    ASSUME NEW a, IsNumber(a), NEW b, IsNull(b) \/ IsAddress(b), NEW c, IsBytes(c), NEW d, IsBytes(d),
           NEW e, IsNull(e) \/ IsNumber(e), NEW f, IsNumber(f),
           NEW g, IsNull(g) \/ IsBytes(g), NEW h, IsNull(h) \/ IsBytes(h)
    PROVE  RecordFits(<<a, b, c, d, e, f, g, h>>, WebSchema)
<1> DEFINE r == <<a, b, c, d, e, f, g, h>>
<1>1. Len(WebSchema) = 8
  BY DEF WebSchema
<1>2. /\ WebSchema[1].type = "timestamp" /\ WebSchema[2].type = "ip"
      /\ WebSchema[3].type = "enum" /\ WebSchema[4].type = "string"
      /\ WebSchema[5].type = "uint" /\ WebSchema[6].type = "uint"
      /\ WebSchema[7].type = "string" /\ WebSchema[8].type = "string"
  BY ColumnParts DEF WebSchema
<1>3. Len(r) = 8 /\ DOMAIN r = 1 .. 8 /\ r[1] = a /\ r[2] = b /\ r[3] = c /\ r[4] = d
      /\ r[5] = e /\ r[6] = f /\ r[7] = g /\ r[8] = h
  OBVIOUS
<1> HIDE DEF r
<1>4. Fits(a, "timestamp") /\ Fits(f, "uint") /\ (IsNumber(e) => Fits(e, "uint"))
  <2>1. "timestamp" \in IntTypes /\ "uint" \in IntTypes
    BY DEF IntTypes
  <2> QED  BY <2>1, NumberFits
<1>5. /\ Fits(c, "enum") /\ Fits(d, "string") /\ (IsBytes(g) => Fits(g, "string"))
      /\ (IsBytes(h) => Fits(h, "string")) /\ (IsAddress(b) => Fits(b, "ip"))
  <2>1. "enum" \notin IntTypes /\ "string" \notin IntTypes /\ "ip" \notin IntTypes
    BY DEF IntTypes
  <2>2. IsAddress(b) => IsBytes(b)
    BY DEF IsAddress
  <2> QED  BY <2>1, <2>2, BytesFit
<1>6. Fits(b, "ip") /\ Fits(e, "uint") /\ Fits(g, "string") /\ Fits(h, "string")
  BY <1>4, <1>5, NullFits
<1>7. \A i \in 1 .. 8 : Fits(r[i], WebSchema[i].type)
  BY <1>2, <1>3, <1>4, <1>5, <1>6
<1>8. ~ a.null
  BY DEF IsNumber
<1>9. RecordFits(r, WebSchema)
  BY <1>1, <1>3, <1>7, <1>8 DEF RecordFits
<1> QED  BY <1>9 DEF r

\* The cases of DecodeWeb.
Extra(tok, i) == IF Len(tok) >= 9 THEN OptionalValue(tok[i]) ELSE NullVal

WebRecord(tok) ==
    <<IntVal(ToWord(tok[4][1].n)),
      IF Len(tok[1]) = 1 /\ IsIP(tok[1][1]) THEN BytesVal(<<NormalizeIP(tok[1][1])>>) ELSE NullVal,
      BytesVal(Method(tok[5])),
      BytesVal(Path(tok[5])),
      IF IsUintField(tok[6]) THEN IntVal(tok[6][1].n \div 2) ELSE NullVal,
      IF IsUintField(tok[7]) THEN IntVal(tok[7][1].n \div 2) ELSE IntVal(0),
      Extra(tok, 8),
      Extra(tok, 9)>>

WebSkipped(s, tok) ==
    \/ s = <<>> \/ s[1] = Hash
    \/ Len(tok) < 7
    \/ ~ IsClfTime(tok[4])
    \/ PlaceOf(tok[5], 1, Space) > Len(tok[5])

\* DecodeWeb, by its cases.
LEMMA DecodeWebIs ==
    \A s : DecodeWeb(s) = IF WebSkipped(s, splitCLF(s)) THEN ErrSkip ELSE Record(WebRecord(splitCLF(s)))
  BY DEF DecodeWeb, WebSkipped, WebRecord, Extra

\* The record of an access log fits the schema of web-access.
LEMMA WebFits ==
    ASSUME NEW s \in Seq(Texts), DecodeWeb(s).rec # <<>>
    PROVE  RecordFits(DecodeWeb(s).rec, WebSchema)
<1> DEFINE tok == splitCLF(s)
<1>1. tok \in Seq(Seq(Texts))
  BY SplitIs
<1>2. ~ WebSkipped(s, tok) /\ DecodeWeb(s).rec = WebRecord(tok)
  BY DecodeWebIs, RecordParts
<1> HIDE DEF tok
<1>3. Len(tok) >= 7 /\ IsClfTime(tok[4]) /\ Len(tok) \in Nat
  BY <1>1, <1>2 DEF WebSkipped
<1>4. \A i \in 1 .. 7 : tok[i] \in Seq(Texts)
  BY <1>1, <1>3
<1>5. IsNumber(IntVal(ToWord(tok[4][1].n)))
  <2>1. Len(tok[4]) = 3
    BY <1>3 DEF IsClfTime
  <2> QED  BY <1>4, <2>1, FieldReads
<1> DEFINE a == IF Len(tok[1]) = 1 /\ IsIP(tok[1][1]) THEN BytesVal(<<NormalizeIP(tok[1][1])>>) ELSE NullVal
<1>6. IsNull(a) \/ IsAddress(a)
  <2> DEFINE x == NormalizeIP(tok[1][1])
  <2>1. x.k = "ip16"
    BY TextFields DEF NormalizeIP
  <2> HIDE DEF x
  <2>2. IsBytes(BytesVal(<<x>>)) /\ BytesVal(<<x>>).bytes[1] = x
    <3>1. <<x>>[1] = x
      OBVIOUS
    <3> QED  BY <3>1, BytesFields
  <2>3. a = BytesVal(<<x>>) \/ a = NullVal
    BY DEF x
  <2> HIDE DEF a
  <2> QED  BY <2>1, <2>2, <2>3 DEF IsNull, IsAddress
<1>7. IsBytes(BytesVal(Method(tok[5]))) /\ IsBytes(BytesVal(Path(tok[5])))
  BY BytesFields
<1> DEFINE e == IF IsUintField(tok[6]) THEN IntVal(tok[6][1].n \div 2) ELSE NullVal
           f == IF IsUintField(tok[7]) THEN IntVal(tok[7][1].n \div 2) ELSE IntVal(0)
<1>8. (IsNull(e) \/ IsNumber(e)) /\ IsNumber(f)
  <2>1. tok[6] \in Seq(Texts) /\ tok[7] \in Seq(Texts)
    BY <1>4
  <2> QED  BY <2>1, FieldReads DEF IsNull
<1>9. \A i : IsNull(Extra(tok, i)) \/ IsBytes(Extra(tok, i))
  BY FieldReads DEF Extra, IsNull
<1>10. WebRecord(tok) = <<IntVal(ToWord(tok[4][1].n)), a, BytesVal(Method(tok[5])), BytesVal(Path(tok[5])),
                          e, f, Extra(tok, 8), Extra(tok, 9)>>
  BY DEF WebRecord
<1> HIDE DEF a, e, f
<1>11. RecordFits(WebRecord(tok), WebSchema)
  BY <1>5, <1>6, <1>7, <1>8, <1>9, <1>10, EightFit
<1> QED  BY <1>2, <1>11

(***************************************************************************)
(* The steps of the specification.                                         *)
(***************************************************************************)

\* A line is one of its source's.
LineOfSource == src \in Sources /\ line \in Lines[src]

\* The line stays one of its source's.
LEMMA LineInvariant == Spec => []LineOfSource
<1>1. Init => LineOfSource
  BY DEF Init, LineOfSource
<1>2. LineOfSource /\ [Next]_vars => LineOfSource'
  BY DEF LineOfSource, Next, Decode, vars
<1> QED  BY <1>1, <1>2, PTL DEF Spec

\* The sources, their schemas and their tables of fields.
LEMMA SourceIs ==
    /\ DOMAIN Fields = {"generic-flow", "honeypot"}
    /\ Schema["generic-flow"] = FlowSchema /\ Schema["honeypot"] = HoneypotSchema
    /\ Schema["web-access"] = WebSchema
    /\ Fields["generic-flow"] = FlowFields /\ Fields["honeypot"] = HoneypotFields
  BY DEF Schema, Fields, Sources

\* The fields of generic-flow are a table of eleven.
LEMMA FlowIsTable == FlowFields \in [1 .. 11 -> {FlowFields[i] : i \in 1 .. 11}]
<1>1. DOMAIN FlowFields = 1 .. 11 /\ FlowFields = [i \in 1 .. 11 |-> FlowFields[i]]
  BY DEF FlowFields
<1> QED  BY <1>1

\* The fields of honeypot are a table of ten.
LEMMA HoneypotIsTable == HoneypotFields \in [1 .. 10 -> {HoneypotFields[i] : i \in 1 .. 10}]
<1>1. DOMAIN HoneypotFields = 1 .. 10 /\ HoneypotFields = [i \in 1 .. 10 |-> HoneypotFields[i]]
  BY DEF HoneypotFields
<1> QED  BY <1>1

\* What decoding an object of a JSON source gives, in a state.
LEMMA JSONDecoded ==
    ASSUME NEW s \in {"generic-flow", "honeypot"}, NEW l \in Lines[s],
           DecodeJSON(Fields[s], l).rec # <<>>
    PROVE  LET fields == Fields[s]
               rec == DecodeJSON(fields, l).rec
               n == IF s = "generic-flow" THEN 11 ELSE 10
           IN  /\ l.form = "object" /\ Object(l.m)
               /\ rec = [i \in DOMAIN fields |-> Value(fields[i], l.m)]
               /\ RecordFits(rec, Schema[s]) /\ DOMAIN rec = 1 .. n /\ Len(rec) = n /\ DOMAIN fields = 1 .. n
<1> DEFINE fields == Fields[s]
           rec == DecodeJSON(fields, l).rec
           n == IF s = "generic-flow" THEN 11 ELSE 10
<1>1. l.form = "object" /\ rec = [i \in DOMAIN fields |-> Value(fields[i], l.m)]
  BY RecordParts DEF DecodeJSON
<1>2. Object(l.m)
  BY <1>1, LinesAssumption DEF Object
<1>3. Listed(fields, Schema[s], n) /\ fields \in [1 .. n -> {fields[i] : i \in 1 .. n}] /\ n \in Nat
  BY SourceIs, FlowListed, FlowIsTable, HoneypotListed, HoneypotIsTable
<1> HIDE DEF fields, n
<1>4. LET r == [i \in DOMAIN fields |-> Value(fields[i], l.m)]
      IN  RecordFits(r, Schema[s]) /\ DOMAIN r = 1 .. n /\ Len(r) = n
  BY <1>2, <1>3, JSONRecord
<1> QED  BY <1>1, <1>2, <1>3, <1>4 DEF fields, n

\* A record has a value for every column of the source's schema, each in the
\* domain of its column, an address in its 16-byte form and a time that is never
\* null, whatever the line (adapter.go:32-35, genericflow.go:23 and :59,
\* honeypot.go:23 and :59, webaccess.go:43-106).
THEOREM RecordFitsSchemaAlways == Spec => []RecordFitsSchema
<1>1. Init => RecordFitsSchema
  BY RecordParts DEF Init, RecordFitsSchema, Decoded
<1>2. LineOfSource /\ RecordFitsSchema /\ [Next]_vars => RecordFitsSchema'
  <2> SUFFICES ASSUME LineOfSource, RecordFitsSchema, [Next]_vars PROVE RecordFitsSchema'
    OBVIOUS
  <2>1. CASE UNCHANGED vars
    BY <2>1 DEF vars, RecordFitsSchema, Decoded
  <2>2. CASE Decode
    <3> SUFFICES ASSUME Decoded' # <<>> PROVE RecordFits(result.rec, Schema[src])'
      BY DEF RecordFitsSchema, RecordFits, Fits, Decoded
    <3>1. src' = src /\ line' = line
      BY <2>2 DEF Decode
    <3>2. CASE src = "web-access"
      <4>1. result' = DecodeWeb(line.s) /\ line.s \in Seq(Texts)
        BY <2>2, <3>2, LinesAssumption DEF Decode, LineOfSource
      <4>2. RecordFits(DecodeWeb(line.s).rec, WebSchema)
        BY <4>1, WebFits DEF Decoded
      <4> QED  BY <3>1, <3>2, <4>1, <4>2, SourceIs
    <3>3. CASE src \in {"generic-flow", "honeypot"}
      <4>1. result' = DecodeJSON(Fields[src], line) /\ line \in Lines[src]
        BY <2>2, <3>3 DEF Decode, LineOfSource
      <4>2. RecordFits(DecodeJSON(Fields[src], line).rec, Schema[src])
        BY <3>3, <4>1, JSONDecoded DEF Decoded
      <4> QED  BY <3>1, <4>1, <4>2
    <3> QED  BY <3>2, <3>3 DEF LineOfSource, Sources
  <2> QED  BY <2>1, <2>2 DEF Next
<1> QED  BY <1>1, <1>2, LineInvariant, PTL DEF Spec

(***************************************************************************)
(* Counters.                                                               *)
(***************************************************************************)

\* The float64 of a whole number is a whole number.
LEMMA FloatWhole ==
    ASSUME NEW h \in Sizes, h % 2 = 0
    PROVE  Float(h) \in Int /\ Float(h) % 2 = 0
<1>1. h \in Int /\ Below(h, Width) /\ Width \in 0 .. (Width + 1)
  BY SizesBelow, Constants
<1>2. PICK j \in 0 .. Width : Gap(h) = Pow2[j] /\ \E k \in Int : Float(h) = k * Pow2[j]
  BY <1>1, FloatIs
<1>3. Float(h) \in Int
  BY <1>1, FloatIs
<1>4. CASE j = 0
  <2>1. Gap(h) = Pow2[0] /\ h = h * Pow2[0] /\ 0 \in 0 .. Width
    BY <1>1, <1>2, <1>4, Pow2Next
  <2>2. Float(h) = h
    BY <1>1, <2>1, FloatIs
  <2> QED  BY <1>1, <2>2
<1>5. CASE j # 0
  <2>1. j \in Nat /\ 1 \in 0 .. j /\ Pow2[1] = 2
    <3>1. Pow2[0 + 1] = 2 * Pow2[0] /\ 0 + 1 = 1
      BY Pow2Next
    <3> QED  BY <1>2, <1>5, <3>1, Pow2Next
  <2>2. PICK k \in Int : Float(h) = k * Pow2[j]
    BY <1>2
  <2>3. PICK l \in Int : k * Pow2[j] = l * Pow2[1]
    BY <2>1, MultipleOf
  <2>4. Float(h) = l * 2
    BY <2>1, <2>2, <2>3
  <2>5. \A x \in Int : (x * 2) % 2 = 0
    OBVIOUS
  <2> QED  BY <1>3, <2>4, <2>5
<1> QED  BY <1>4, <1>5

\* The first of some keys, when it is there.
LEMMA FirstIsFirst ==
    ASSUME NEW keys, DOMAIN keys \subseteq Nat \ {0}, 1 \in DOMAIN keys, NEW S, keys[1] \in S
    PROVE  FirstKey(keys, S) = keys[1]
<1> DEFINE has == {i \in DOMAIN keys : keys[i] \in S}
<1>1. 1 \in has /\ has \in SUBSET Nat /\ \A i \in has : 1 <= i
  OBVIOUS
<1>2. Min(has) = 1
  <2> HIDE DEF has
  <2>1. Min(has) \in has /\ Min(has) <= 1
    BY <1>1, MinOfNats
  <2>2. Min(has) \in Nat /\ 1 <= Min(has)
    BY <1>1, <2>1
  <2> QED  BY <2>1, <2>2
<1>3. FirstKey(keys, S) = IF has = {} THEN Nothing ELSE keys[Min(has)]
  BY DEF FirstKey
<1> HIDE DEF has
<1> QED  BY <1>1, <1>2, <1>3

\* The number that is stored of a counter, whose text is a whole number.
Stored(v, got) ==
    LET sent == v.t.n \div 2
    IN  /\ v.kind = "string" => got = sent
        /\ v.kind = "number" /\ sent <= FloatExact => got = sent
        /\ v.kind = "number" /\ Float(v.t.n) < 2 * Pow2[Width] =>
               4 * (got - sent) <= Gap(v.t.n) /\ 4 * (sent - got) <= Gap(v.t.n)

\* What the record has of a counter that the line gives under its first name.
LEMMA CounterIs ==
    ASSUME NEW m, Object(m), NEW k \in DOMAIN m, k # Nothing,
           NEW keys, DOMAIN keys \subseteq Nat \ {0}, 1 \in DOMAIN keys, keys[1] = k,
           m[k].t.k = "dec", m[k].t.n % 2 = 0, m[k].t.n \div 2 \in 0 .. Pow2[Width] - 1
    PROVE  Stored(m[k], uintValue(m, keys).int)
<1> DEFINE v == m[k]
           h == v.t.n
           sent == h \div 2
           p == Pow2[Width]
           S == {x \in DOMAIN m : m[x].kind = "number" \/ (m[x].kind = "string" /\ IsUint(m[x].t))}
<1>1. h \in Sizes /\ h \in Int /\ Float(h) \in Int /\ Below(h, Width) /\ Width \in 0 .. (Width + 1)
  <2>1. v.t \in Texts
    BY DEF Object
  <2> QED  BY <2>1, TextsReadable, SizesBelow, Constants DEF Readable
<1>2. p \in Nat \ {0} /\ sent \in 0 .. p - 1 /\ h % 2 = 0
  BY WordsOf
<1>3. h = 2 * sent /\ h >= 0 /\ h < 2 * p
  <2> HIDE DEF h, p
  <2> QED  BY <1>1, <1>2
<1>4. v.kind = "string" => IsUint(v.t)
  BY <1>3 DEF IsUint
<1>5. ASSUME v.kind \in {"string", "number"}
      PROVE  UintKey(m, keys) = k
  <2>1. keys[1] \in S
    BY <1>4, <1>5
  <2>2. UintKey(m, keys) = FirstKey(keys, S)
    BY DEF UintKey
  <2> HIDE DEF S
  <2> QED  BY <2>1, <2>2, FirstIsFirst
<1>6. h >= 0 => Float(h) >= 0
  BY <1>1, FloatIs
<1>7. ASSUME v.kind \in {"string", "number"}
      PROVE  uintValue(m, keys).int = IF v.kind = "number" THEN FloatToUint(Float(h)) ELSE sent
  <2>1. HasUint(m, keys)
    BY <1>3, <1>5, <1>6, <1>7 DEF HasUint
  <2>2. uintValue(m, keys) = IntVal(asUint(m, keys))
    BY <2>1 DEF uintValue
  <2>3. asUint(m, keys) = IF v.kind = "number" THEN FloatToUint(Float(h)) ELSE sent
    BY <1>5, <1>7 DEF asUint
  <2>4. IntVal(asUint(m, keys)).int = asUint(m, keys)
    BY DEF IntVal
  <2> QED  BY <2>2, <2>3, <2>4
<1> DEFINE got == uintValue(m, keys).int
<1>8. v.kind = "string" => got = sent
  BY <1>7
<1>9. ASSUME v.kind = "number", sent <= FloatExact PROVE got = sent
  <2>1. sent \in Nat
    BY <1>2
  <2>2. Float(2 * sent) = 2 * sent
    <3> HIDE DEF sent
    <3> QED  BY <1>9, <2>1, FloatExactly
  <2>3. Float(h) = h
    BY <1>3, <2>2
  <2>4. FloatToUint(h) = h \div 2
    <3> HIDE DEF h
    <3> QED  BY <1>1, <1>3, UintOfFloat
  <2> QED  BY <1>7, <1>9, <2>3, <2>4
<1>10. ASSUME v.kind = "number", Float(h) < 2 * Pow2[Width]
       PROVE  4 * (got - sent) <= Gap(h) /\ 4 * (sent - got) <= Gap(h)
  <2> DEFINE f == Float(h)
             q == f \div 2
             g == Gap(h)
  <2>1. f \in Int /\ f >= 0 /\ f % 2 = 0
    BY <1>1, <1>2, <1>3, <1>6, FloatWhole
  <2>2. g \in Nat \ {0} /\ 2 * (f - h) <= g /\ 2 * (h - f) <= g
    BY <1>1, FloatIs
  <2>3. FloatToUint(f) = q
    <3> HIDE DEF f
    <3> QED  BY <1>10, <2>1, UintOfFloat DEF f
  <2>4. got = q
    BY <1>7, <1>10, <2>3
  <2> HIDE DEF f, g, got, sent, h
  <2>5. f = 2 * q /\ q \in Int /\ sent \in Int /\ h = 2 * sent
    BY <1>2, <1>3, <2>1
  <2> HIDE DEF q
  <2>6. 4 * (q - sent) <= g /\ 4 * (sent - q) <= g
    BY <2>2, <2>5
  <2> QED  BY <2>4, <2>6 DEF g
<1> QED  BY <1>8, <1>9, <1>10 DEF Stored

\* A counter given as a text is stored to the last digit, and one given as a JSON
\* number as exactly as a float64 is, for every counter of a word
\* (adapter.go:85).
THEOREM CountersExactAlways == Spec => []CountersExact
<1>1. Init => CountersExact
  BY RecordParts DEF Init, CountersExact, Decoded
<1>2. LineOfSource /\ CountersExact /\ [Next]_vars => CountersExact'
  <2> SUFFICES ASSUME LineOfSource, CountersExact, [Next]_vars PROVE CountersExact'
    OBVIOUS
  <2>1. CASE UNCHANGED vars
    BY <2>1 DEF vars, CountersExact, Decoded
  <2>2. CASE Decode
    <3>1. src' = src /\ line' = line
      BY <2>2 DEF Decode
    <3> DEFINE v == line.m["bytes"]
               got == Decoded[10].int
               sent == v.t.n \div 2
    <3> SUFFICES ASSUME src = "generic-flow", DOMAIN line.m = {"timestamp", "bytes"}, Decoded' # <<>>,
                        v.t.k = "dec", v.t.n % 2 = 0, sent \in 0 .. Pow2[Width] - 1
                 PROVE  /\ v.kind = "string" => got' = sent
                        /\ v.kind = "number" /\ sent <= FloatExact => got' = sent
                        /\ v.kind = "number" /\ Float(v.t.n) < 2 * Pow2[Width] =>
                               4 * (got' - sent) <= Gap(v.t.n) /\ 4 * (sent - got') <= Gap(v.t.n)
      BY <3>1 DEF CountersExact
    <3>2. result' = DecodeJSON(Fields[src], line) /\ line \in Lines[src]
      BY <2>2 DEF Decode, LineOfSource
    <3> DEFINE rec == DecodeJSON(Fields[src], line).rec
    <3>3. /\ Object(line.m) /\ DOMAIN Fields[src] = 1 .. 11
          /\ rec = [i \in DOMAIN Fields[src] |-> Value(Fields[src][i], line.m)]
      <4>1. DecodeJSON(Fields[src], line).rec # <<>>
        BY <3>2 DEF Decoded
      <4> HIDE DEF v, got, sent
      <4>2. /\ Object(line.m) /\ DOMAIN Fields[src] = 1 .. 11
            /\ DecodeJSON(Fields[src], line).rec
               = [i \in DOMAIN Fields[src] |-> Value(Fields[src][i], line.m)]
        BY <3>2, <4>1, JSONDecoded, ZenonT(60)
      <4> QED  BY <4>2
    <3>4. Decoded' = rec
      BY <3>2 DEF Decoded
    <3> HIDE DEF rec
    <3> DEFINE f == FlowFields[10]
    <3>5. f.get = "uint" /\ f.keys = <<"bytes", "in_bytes", "orig_bytes">>
      BY FlowKeys, FieldParts DEF FlowFields
    <3>6. rec[10] = Value(f, line.m)
      BY <3>3, SourceIs
    <3>7. Value(f, line.m) = uintValue(line.m, f.keys)
      BY <3>5 DEF Value
    <3>8. got' = uintValue(line.m, f.keys).int
      BY <3>4, <3>6, <3>7
    <3>9. DOMAIN f.keys \subseteq Nat \ {0} /\ 1 \in DOMAIN f.keys /\ f.keys[1] = "bytes"
      BY <3>5
    <3>10. "bytes" \in DOMAIN line.m /\ "bytes" # Nothing
      BY DEF Nothing
    <3> HIDE DEF f
    <3> DEFINE m == line.m
               keys == f.keys
               b == "bytes"
    <3>11. /\ Object(m) /\ b \in DOMAIN m /\ b # Nothing
           /\ DOMAIN keys \subseteq Nat \ {0} /\ 1 \in DOMAIN keys /\ keys[1] = b
           /\ m[b].t.k = "dec" /\ m[b].t.n % 2 = 0 /\ m[b].t.n \div 2 \in 0 .. Pow2[Width] - 1
      BY <3>3, <3>9, <3>10
    <3>12. Stored(m[b], uintValue(m, keys).int)
      <4> HIDE DEF m, keys, b, v, sent, got
      <4> QED  BY <3>11, CounterIs
    <3> QED  BY <3>8, <3>12 DEF Stored
  <2> QED  BY <2>1, <2>2 DEF Next
<1> QED  BY <1>1, <1>2, LineInvariant, PTL DEF Spec

(***************************************************************************)
(* A line written in one of the formats is split into its fields.          *)
(***************************************************************************)

\* The first place is the only one with nothing looked for before it.
LEMMA PlaceOnly ==
    ASSUME NEW X, NEW s \in Seq(X), NEW i \in 1 .. Len(s) + 1, NEW c, NEW p \in i .. Len(s) + 1,
           p <= Len(s) => s[p] = c, \A j \in i .. p - 1 : s[j] # c
    PROVE  PlaceOf(s, i, c) = p
<1> DEFINE q == PlaceOf(s, i, c)
<1>1. q \in i .. Len(s) + 1 /\ (q <= Len(s) => s[q] = c) /\ \A j \in i .. q - 1 : s[j] # c
  BY PlaceIs
<1> HIDE DEF q
<1>2. Len(s) \in Nat
  OBVIOUS
<1>3. ~ (p < q)
  <2> SUFFICES ASSUME p < q PROVE FALSE
    OBVIOUS
  <2>1. p \in i .. q - 1 /\ p <= Len(s)
    BY <1>1, <1>2
  <2> QED  BY <1>1, <2>1
<1>4. ~ (q < p)
  <2> SUFFICES ASSUME q < p PROVE FALSE
    OBVIOUS
  <2>1. q \in i .. p - 1 /\ q <= Len(s)
    BY <1>1, <1>2
  <2> QED  BY <1>1, <2>1
<1>5. q = p
  BY <1>1, <1>2, <1>3, <1>4
<1> QED  BY <1>5 DEF q

\* Places of two sequences joined.
LEMMA Joined ==
    ASSUME NEW X, NEW a \in Seq(X), NEW r \in Seq(X)
    PROVE  /\ a \o r \in Seq(X) /\ Len(a \o r) = Len(a) + Len(r) /\ Len(a) \in Nat /\ Len(r) \in Nat
           /\ \A i \in 1 .. Len(a) : (a \o r)[i] = a[i]
           /\ \A i \in 1 .. Len(r) : (a \o r)[Len(a) + i] = r[i]
  OBVIOUS

\* A place of the second of them.
LEMMA PlaceInSecond ==
    ASSUME NEW X, NEW a \in Seq(X), NEW r \in Seq(X), NEW i \in 1 .. Len(r) + 1, NEW c
    PROVE  PlaceOf(a \o r, Len(a) + i, c) = Len(a) + PlaceOf(r, i, c)
<1> DEFINE s == a \o r
           n == Len(a)
           q == PlaceOf(r, i, c)
<1>1. s \in Seq(X) /\ Len(s) = n + Len(r) /\ n \in Nat /\ Len(r) \in Nat /\ \A j \in 1 .. Len(r) : s[n + j] = r[j]
  BY Joined
<1>2. q \in i .. Len(r) + 1 /\ (q <= Len(r) => r[q] = c) /\ \A j \in i .. q - 1 : r[j] # c
  BY PlaceIs
<1> HIDE DEF s, n, q
<1>3. n + i \in 1 .. Len(s) + 1 /\ n + q \in n + i .. Len(s) + 1
  BY <1>1, <1>2
<1>4. n + q <= Len(s) => s[n + q] = c
  <2>1. n + q <= Len(s) => q \in 1 .. Len(r)
    BY <1>1, <1>2
  <2> QED  BY <1>1, <1>2, <2>1
<1>5. ASSUME NEW j \in n + i .. n + q - 1 PROVE s[j] # c
  <2> DEFINE k == j - n
  <2>1. k \in i .. q - 1 /\ k \in 1 .. Len(r) /\ j = n + k
    BY <1>1, <1>2
  <2> HIDE DEF k
  <2> QED  BY <1>1, <1>2, <2>1
<1>6. PlaceOf(s, n + i, c) = n + q
  <2> DEFINE u == n + i
             p == n + q
  <2>3. u = n + i /\ p = n + q
    OBVIOUS
  <2> HIDE DEF u, p
  <2>1. s \in Seq(X) /\ u \in 1 .. Len(s) + 1 /\ p \in u .. Len(s) + 1
    BY <1>1, <1>3, <2>3
  <2>4. p <= Len(s) => s[p] = c
    BY <1>4, <2>3
  <2>5. ASSUME NEW j \in u .. p - 1 PROVE s[j] # c
    <3>1. j \in n + i .. n + q - 1
      BY <1>1, <1>2, <2>3
    <3> QED  BY <1>5, <3>1
  <2>2. PlaceOf(s, u, c) = p
    BY <2>1, <2>4, <2>5, PlaceOnly
  <2> QED  BY <2>2 DEF u, p
<1> QED  BY <1>6 DEF s, n, q

\* A stretch of the second of them.
LEMMA StretchOfSecond ==
    ASSUME NEW X, NEW a \in Seq(X), NEW r \in Seq(X), NEW i \in 1 .. Len(r) + 1, NEW j \in i - 1 .. Len(r)
    PROVE  SubSeq(a \o r, Len(a) + i, Len(a) + j) = SubSeq(r, i, j)
<1> DEFINE s == a \o r
           n == Len(a)
           x == SubSeq(s, n + i, n + j)
           y == SubSeq(r, i, j)
<1>1. s \in Seq(X) /\ Len(s) = n + Len(r) /\ n \in Nat /\ Len(r) \in Nat /\ \A k \in 1 .. Len(r) : s[n + k] = r[k]
  BY Joined
<1> HIDE DEF s, n
<1>2. n + i \in 1 .. Len(s) + 1 /\ n + j \in (n + i) - 1 .. Len(s)
  BY <1>1
<1>3. x \in Seq(X) /\ Len(x) = (n + j) - (n + i) + 1 /\ \A k \in 1 .. (n + j) - (n + i) + 1 : x[k] = s[(n + i) + k - 1]
  BY <1>1, <1>2, SubSeqProperties
<1>4. y \in Seq(X) /\ Len(y) = j - i + 1 /\ \A k \in 1 .. j - i + 1 : y[k] = r[i + k - 1]
  BY <1>1, SubSeqProperties
<1> HIDE DEF x, y
<1>5. (n + j) - (n + i) + 1 = j - i + 1
  BY <1>1
<1>6. ASSUME NEW k \in 1 .. j - i + 1 PROVE x[k] = y[k]
  <2>1. (n + i) + k - 1 = n + (i + k - 1) /\ i + k - 1 \in 1 .. Len(r)
    BY <1>1
  <2> QED  BY <1>1, <1>3, <1>4, <1>5, <2>1
<1>7. x = y
  BY <1>3, <1>4, <1>5, <1>6, SeqEqual
<1> QED  BY <1>7 DEF x, y, s, n

\* A step of splitCLF in the second of two sequences is its step in that one.
LEMMA StepInSecond ==
    ASSUME NEW X, NEW a \in Seq(X), NEW r \in Seq(X), NEW i \in 1 .. Len(r)
    PROVE  /\ TokenAt(a \o r, Len(a) + i) = TokenAt(r, i)
           /\ NextAt(a \o r, Len(a) + i) = Len(a) + NextAt(r, i)
<1> DEFINE s == a \o r
           n == Len(a)
           u == StartAt(r, i)
           v == StopAt(r, i)
<1>1. s \in Seq(X) /\ Len(s) = n + Len(r) /\ n \in Nat /\ Len(r) \in Nat /\ s[n + i] = r[i]
  BY Joined
<1>2. u \in i .. Len(r) + 1 /\ v \in u .. Len(r) + 1 /\ NextAt(r, i) \in (i + 1) .. (Len(r) + 1)
  BY StepAt
<1>3. StartAt(s, n + i) = n + u
  <2> HIDE DEF s
  <2> QED  BY <1>1 DEF StartAt
<1>4. StopAt(s, n + i) = n + v
  <2>1. StopAt(s, n + i) = PlaceOf(s, n + u, Closing(r[i])) /\ v = PlaceOf(r, u, Closing(r[i]))
    BY <1>1, <1>3 DEF StopAt
  <2>2. u \in 1 .. Len(r) + 1
    BY <1>1, <1>2
  <2> HIDE DEF u, v
  <2>3. PlaceOf(s, n + u, Closing(r[i])) = n + PlaceOf(r, u, Closing(r[i]))
    BY <2>2, PlaceInSecond
  <2> QED  BY <2>1, <2>3
<1>5. SubSeq(s, n + u, (n + v) - 1) = SubSeq(r, u, v - 1)
  <2> HIDE DEF u, v
  <2>1. u \in 1 .. Len(r) + 1 /\ v - 1 \in u - 1 .. Len(r) /\ (n + v) - 1 = n + (v - 1)
    BY <1>1, <1>2
  <2>2. SubSeq(s, n + u, n + (v - 1)) = SubSeq(r, u, v - 1)
    <3> DEFINE w == v - 1
    <3>1. w \in u - 1 .. Len(r)
      BY <2>1
    <3> HIDE DEF w
    <3>2. SubSeq(s, n + u, n + w) = SubSeq(r, u, w)
      BY <2>1, <3>1, StretchOfSecond
    <3> QED  BY <3>2 DEF w
  <2> QED  BY <2>1, <2>2
<1> HIDE DEF s, n, u, v
<1>6. TokenAt(s, n + i) = TokenAt(r, i)
  <2> DEFINE x == SubSeq(s, n + u, (n + v) - 1)
             y == SubSeq(r, u, v - 1)
  <2>1. TokenAt(s, n + i) = IF r[i] = Space THEN <<>> ELSE <<x>>
    BY <1>1, <1>3, <1>4 DEF TokenAt
  <2>2. TokenAt(r, i) = IF r[i] = Space THEN <<>> ELSE <<y>>
    BY DEF TokenAt, u, v
  <2>3. x = y
    BY <1>5
  <2> HIDE DEF x, y
  <2> QED  BY <2>1, <2>2, <2>3
<1>7. NextAt(s, n + i) = n + NextAt(r, i)
  <2>1. NextAt(s, n + i) = IF r[i] = Space THEN (n + i) + 1
                           ELSE IF Closing(r[i]) = Space \/ n + v > Len(s) THEN n + v ELSE (n + v) + 1
    BY <1>1, <1>4 DEF NextAt
  <2>2. NextAt(r, i) = IF r[i] = Space THEN i + 1
                       ELSE IF Closing(r[i]) = Space \/ v > Len(r) THEN v ELSE v + 1
    BY DEF NextAt, v
  <2>3. n + v > Len(s) <=> v > Len(r)
    BY <1>1, <1>2, SMTT(30)
  <2>4. (n + i) + 1 = n + (i + 1) /\ (n + v) + 1 = n + (v + 1)
    BY <1>1, <1>2
  <2> QED  BY <2>1, <2>2, <2>3, <2>4
<1> QED  BY <1>6, <1>7 DEF s, n

\* From a place on, a line is split like what stands there alone.
LEMMA SplitOfSecond ==
    ASSUME NEW X, NEW a \in Seq(X), NEW r \in Seq(X), NEW f, IsSplit(f, a \o r)
    PROVE  splitCLF(r) = f[Len(a) + 1]
<1> DEFINE s == a \o r
           n == Len(a)
           h == [i \in 1 .. Len(r) + 1 |-> f[n + i]]
<1>1. Len(s) = n + Len(r) /\ n \in Nat /\ Len(r) \in Nat
  BY Joined
<1>2. DOMAIN h = 1 .. Len(r) + 1 /\ \A i \in 1 .. Len(r) + 1 : h[i] = f[n + i]
  OBVIOUS
<1> HIDE DEF h
<1>3. h[Len(r) + 1] = <<>>
  <2>1. n + (Len(r) + 1) = Len(s) + 1
    BY <1>1
  <2>2. h[Len(r) + 1] = f[n + (Len(r) + 1)]
    BY <1>1, <1>2
  <2> QED  BY <2>1, <2>2 DEF IsSplit
<1>4. ASSUME NEW i \in 1 .. Len(r) PROVE h[i] = TokenAt(r, i) \o h[NextAt(r, i)]
  <2>1. NextAt(r, i) \in (i + 1) .. (Len(r) + 1)
    BY StepAt
  <2>2. TokenAt(s, n + i) = TokenAt(r, i) /\ NextAt(s, n + i) = n + NextAt(r, i)
    BY StepInSecond
  <2> HIDE DEF s, n
  <2>3. n + i \in 1 .. Len(s)
    BY <1>1
  <2>4. f[n + i] = TokenAt(s, n + i) \o f[NextAt(s, n + i)]
    BY <2>3 DEF IsSplit, s
  <2>5. h[i] = f[n + i] /\ h[NextAt(r, i)] = f[n + NextAt(r, i)]
    BY <1>1, <1>2, <2>1
  <2> QED  BY <2>2, <2>4, <2>5
<1>5. IsSplit(h, r)
  BY <1>2, <1>3, <1>4 DEF IsSplit
<1>6. splitCLF(r) = h[1]
  BY <1>5, SplitIs
<1>7. 1 \in 1 .. Len(r) + 1
  BY <1>1
<1> QED  BY <1>2, <1>6, <1>7

\* A line is split into what its first step takes and what is behind.
LEMMA SplitStep ==
    ASSUME NEW X, NEW a \in Seq(X), NEW r \in Seq(X), Len(a) > 0,
           NextAt(a \o r, 1) = Len(a) + 1
    PROVE  splitCLF(a \o r) = TokenAt(a \o r, 1) \o splitCLF(r)
<1>1. a \o r \in Seq(X) /\ 1 \in 1 .. Len(a \o r)
  BY Joined
<1>2. PICK f : IsSplit(f, a \o r)
  BY <1>1, SplitIs
<1>3. splitCLF(a \o r) = f[1]
  BY <1>1, <1>2, SplitIs
<1>4. f[1] = TokenAt(a \o r, 1) \o f[NextAt(a \o r, 1)]
  BY <1>1, <1>2 DEF IsSplit
<1>5. splitCLF(r) = f[Len(a) + 1]
  BY <1>2, SplitOfSecond
<1> QED  BY <1>3, <1>4, <1>5

\* What each mark closes with, and which marks differ.
LEMMA Marks ==
    /\ Closing(Quote) = Quote /\ Closing(Open) = Close /\ Closing(Space) = Space
    /\ \A c : c \notin {Quote, Open} => Closing(c) = Space
    /\ Space # Quote /\ Space # Open /\ Space # Close /\ Space # Dash /\ Space # Hash
    /\ Quote # Close /\ Quote # Dash /\ Open # Dash /\ Quote # Open
<1>4. \A x, y : Word(x) = Word(y) => x = y
  BY DEF Word, Text
<1>5. /\ Space # Quote /\ Space # Open /\ Space # Close /\ Space # Dash /\ Space # Hash
      /\ Quote # Close /\ Quote # Dash /\ Open # Dash /\ Quote # Open
  BY <1>4 DEF Space, Quote, Open, Close, Dash, Hash
<1>6. /\ Closing(Quote) = Quote /\ Closing(Open) = Close /\ Closing(Space) = Space
      /\ \A c : c \notin {Quote, Open} => Closing(c) = Space
  BY <1>5 DEF Closing
<1> QED  BY <1>5, <1>6

\* A space before anything is passed over.
LEMMA SplitSpace ==
    ASSUME NEW X, Space \in X, NEW r \in Seq(X)
    PROVE  splitCLF(<<Space>> \o r) = splitCLF(r) /\ splitCLF(r) \in Seq(Seq(X))
<1> DEFINE a == <<Space>>
           s == a \o r
<1>1. a \in Seq(X) /\ Len(a) = 1 /\ a[1] = Space
  OBVIOUS
<1> HIDE DEF a
<1>2. s[1] = Space /\ s \in Seq(X)
  BY <1>1, Joined
<1>3. NextAt(s, 1) = 1 + 1 /\ TokenAt(s, 1) = <<>>
  <2> HIDE DEF s
  <2> QED  BY <1>2 DEF NextAt, TokenAt
<1>4. splitCLF(s) = TokenAt(s, 1) \o splitCLF(r)
  <2>1. NextAt(a \o r, 1) = Len(a) + 1 /\ Len(a) > 0
    BY <1>1, <1>3
  <2>2. splitCLF(a \o r) = TokenAt(a \o r, 1) \o splitCLF(r)
    BY <1>1, <2>1, SplitStep
  <2> QED  BY <2>2
<1>5. splitCLF(r) \in Seq(Seq(X))
  BY SplitIs
<1>6. <<>> \o splitCLF(r) = splitCLF(r)
  BY <1>5
<1> QED  BY <1>3, <1>4, <1>5, <1>6 DEF a

\* Nothing is split into nothing.
LEMMA SplitNothing == splitCLF(<<>>) = <<>>
<1> DEFINE s == <<>>
<1>1. s \in Seq({}) /\ Len(s) = 0
  OBVIOUS
<1> HIDE DEF s
<1>2. PICK f : IsSplit(f, s) /\ splitCLF(s) = f[1]
  BY <1>1, SplitIs
<1>3. f[Len(s) + 1] = <<>>
  BY <1>2 DEF IsSplit
<1> QED  BY <1>1, <1>2, <1>3 DEF s

\* A word is a field, at the end or before a space.
LEMMA SplitWord ==
    ASSUME NEW X, Space \in X, NEW w \in Seq(X), IsBare(w)
    PROVE  /\ splitCLF(w) = <<w>>
           /\ \A r \in Seq(X) : splitCLF(w \o (<<Space>> \o r)) = <<w>> \o splitCLF(r)
<1>1. Len(w) \in Nat \ {0} /\ \A i \in 1 .. Len(w) : w[i] # Space
  BY DEF IsBare
<1>2. w[1] \notin {Quote, Open} /\ w[1] # Space /\ Closing(w[1]) = Space
  BY <1>1, Marks DEF IsBare
<1>3. ASSUME NEW t \in Seq(X), t = <<>> \/ t[1] = Space
      PROVE  splitCLF(w \o t) = <<w>> \o splitCLF(t)
  <2> DEFINE s == w \o t
             n == Len(w)
  <2>1. /\ s \in Seq(X) /\ Len(s) = n + Len(t) /\ Len(t) \in Nat
        /\ \A i \in 1 .. n : s[i] = w[i]
        /\ \A i \in 1 .. Len(t) : s[n + i] = t[i]
    BY Joined
  <2>2. s[1] = w[1] /\ 1 \in 1 .. Len(s)
    BY <1>1, <2>1
  <2>3. StartAt(s, 1) = 1
    <3> HIDE DEF s
    <3> QED  BY <1>2, <2>2 DEF StartAt
  <2>4. PlaceOf(s, 1, Space) = n + 1
    <3> HIDE DEF s, n
    <3>1. n + 1 \in 1 .. Len(s) + 1 /\ 1 \in 1 .. Len(s) + 1
      BY <1>1, <2>1 DEF n
    <3>2. n + 1 <= Len(s) => s[n + 1] = Space
      <4>1. t = <<>> => Len(t) = 0
        OBVIOUS
      <4>2. n + 1 <= Len(s) => Len(t) > 0
        BY <1>1, <2>1 DEF n
      <4> QED  BY <1>3, <2>1, <4>1, <4>2
    <3>3. ASSUME NEW j \in 1 .. (n + 1) - 1 PROVE s[j] # Space
      <4>1. j \in 1 .. n
        BY <1>1 DEF n
      <4> QED  BY <1>1, <2>1, <4>1 DEF n
    <3> DEFINE p == n + 1
    <3> HIDE DEF p
    <3>4. p \in 1 .. Len(s) + 1 /\ (p <= Len(s) => s[p] = Space) /\ \A j \in 1 .. p - 1 : s[j] # Space
      BY <3>1, <3>2, <3>3 DEF p
    <3>5. PlaceOf(s, 1, Space) = p
      BY <2>1, <3>1, <3>4, PlaceOnly, SMTT(30)
    <3> QED  BY <3>5 DEF p
  <2>5. StopAt(s, 1) = n + 1
    <3> HIDE DEF s, n
    <3> QED  BY <1>2, <2>2, <2>3, <2>4 DEF StopAt
  <2>6. NextAt(s, 1) = n + 1
    <3> HIDE DEF s, n
    <3> QED  BY <1>2, <2>2, <2>5 DEF NextAt
  <2>7. SubSeq(s, 1, n) = w
    <3> DEFINE x == SubSeq(s, 1, n)
    <3> HIDE DEF s
    <3>1. n \in 1 - 1 .. Len(s) /\ 1 \in 1 .. Len(s) + 1
      BY <1>1, <2>1
    <3>2. x \in Seq(X) /\ Len(x) = n - 1 + 1 /\ \A i \in 1 .. n - 1 + 1 : x[i] = s[1 + i - 1]
      BY <2>1, <3>1, SubSeqProperties
    <3> HIDE DEF x, n
    <3>3. n \in Nat /\ n = Len(w)
      BY <1>1 DEF n
    <3>4. Len(x) = Len(w) /\ \A i \in 1 .. Len(w) : x[i] = w[i]
      <4>1. n - 1 + 1 = n /\ \A i \in 1 .. n : 1 + i - 1 = i
        BY <3>3
      <4> QED  BY <2>1, <3>2, <3>3, <4>1
    <3>5. x = w
      BY <3>2, <3>4, SeqEqual
    <3> QED  BY <3>5 DEF x
  <2>8. TokenAt(s, 1) = <<w>>
    <3> HIDE DEF s
    <3>1. TokenAt(s, 1) = <<SubSeq(s, 1, (n + 1) - 1)>>
      BY <1>2, <2>2, <2>3, <2>5 DEF TokenAt
    <3>2. (n + 1) - 1 = n
      BY <1>1
    <3> QED  BY <2>7, <3>1, <3>2
  <2>9. splitCLF(s) = TokenAt(s, 1) \o splitCLF(t)
    BY <1>1, <2>6, SplitStep
  <2> QED  BY <2>8, <2>9
<1>4. splitCLF(w) = <<w>>
  <2>1. <<>> \in Seq(X) /\ w \o <<>> = w /\ <<w>> \o <<>> = <<w>>
    OBVIOUS
  <2>2. splitCLF(w \o <<>>) = <<w>> \o splitCLF(<<>>)
    BY <1>3, <2>1
  <2> QED  BY <2>1, <2>2, SplitNothing
<1>5. ASSUME NEW r \in Seq(X) PROVE splitCLF(w \o (<<Space>> \o r)) = <<w>> \o splitCLF(r)
  <2> DEFINE t == <<Space>> \o r
  <2>1. t \in Seq(X) /\ t[1] = Space
    OBVIOUS
  <2> HIDE DEF t
  <2>2. splitCLF(w \o t) = <<w>> \o splitCLF(t)
    BY <1>3, <2>1
  <2>3. splitCLF(t) = splitCLF(r)
    BY SplitSpace DEF t
  <2> QED  BY <2>2, <2>3 DEF t
<1> QED  BY <1>4, <1>5

\* What stands between two marks is a field, whatever is in it but the second.
LEMMA SplitMarked ==
    ASSUME NEW X, Space \in X, NEW c \in {Quote, Open} \cap X, Closing(c) \in X,
           NEW t \in Seq(X), \A i \in 1 .. Len(t) : t[i] # Closing(c)
    PROVE  /\ splitCLF(Marked(c, t, Closing(c))) = <<t>>
           /\ \A r \in Seq(X) : splitCLF(Marked(c, t, Closing(c)) \o (<<Space>> \o r)) = <<t>> \o splitCLF(r)
<1> DEFINE d == Closing(c)
           n == Len(t)
           w == Marked(c, t, d)
<1>1. c # Space /\ d # Space /\ n \in Nat
  BY Marks
<1>2. w \in Seq(X) /\ Len(w) = n + 2 /\ w[1] = c /\ w[n + 2] = d /\ \A i \in 1 .. n : w[i + 1] = t[i]
  <2> HIDE DEF d
  <2>1. d \in X /\ c \in X
    BY DEF d
  <2> QED  BY <2>1 DEF Marked
<1>3. ASSUME NEW r \in Seq(X)
      PROVE  splitCLF(w \o r) = <<t>> \o splitCLF(r)
  <2> DEFINE s == w \o r
  <2>1. /\ s \in Seq(X) /\ Len(s) = (n + 2) + Len(r) /\ Len(r) \in Nat
        /\ s[1] = c /\ s[n + 2] = d /\ \A i \in 1 .. n : s[i + 1] = t[i]
    <3> HIDE DEF w, n
    <3>1. s \in Seq(X) /\ Len(s) = Len(w) + Len(r) /\ Len(r) \in Nat /\ \A i \in 1 .. Len(w) : s[i] = w[i]
      BY <1>2, Joined, ZenonT(30)
    <3>2. 1 \in 1 .. Len(w) /\ n + 2 \in 1 .. Len(w) /\ \A i \in 1 .. n : i + 1 \in 1 .. Len(w)
      BY <1>1, <1>2
    <3> HIDE DEF s
    <3> QED  BY <1>2, <3>1, <3>2
  <2> HIDE DEF s, w, d, n
  <2>2. StartAt(s, 1) = 2
    BY <1>1, <2>1 DEF StartAt, d
  <2>3. PlaceOf(s, 2, d) = n + 2
    <3> DEFINE p == n + 2
    <3>1. 2 \in 1 .. Len(s) + 1 /\ p \in 2 .. Len(s) + 1 /\ s[p] = d
      BY <1>1, <2>1
    <3>2. ASSUME NEW j \in 2 .. p - 1 PROVE s[j] # d
      <4> DEFINE i == j - 1
      <4>1. i \in 1 .. n /\ j = i + 1
        BY <1>1
      <4> HIDE DEF i
      <4>2. s[j] = t[i] /\ t[i] # d
        BY <2>1, <4>1 DEF d, n
      <4> QED  BY <4>2
    <3> HIDE DEF p
    <3>3. PlaceOf(s, 2, d) = p
      BY <2>1, <3>1, <3>2, PlaceOnly
    <3> QED  BY <3>3 DEF p
  <2>4. StopAt(s, 1) = n + 2
    BY <2>1, <2>2, <2>3 DEF StopAt, d
  <2>5. NextAt(s, 1) = (n + 2) + 1
    <3>1. ~ (n + 2 > Len(s))
      BY <1>1, <2>1
    <3> QED  BY <1>1, <2>1, <2>4, <3>1 DEF NextAt, d
  <2>6. SubSeq(s, 2, n + 1) = t
    <3> DEFINE x == SubSeq(s, 2, n + 1)
    <3>1. n + 1 \in 2 - 1 .. Len(s) /\ 2 \in 1 .. Len(s) + 1
      BY <1>1, <2>1
    <3>2. x \in Seq(X) /\ Len(x) = (n + 1) - 2 + 1 /\ \A i \in 1 .. (n + 1) - 2 + 1 : x[i] = s[2 + i - 1]
      <4> DEFINE m == n + 1
      <4> HIDE DEF m
      <4>1. m \in 2 - 1 .. Len(s) /\ 2 \in 1 .. Len(s) + 1
        BY <3>1 DEF m
      <4>2. LET y == SubSeq(s, 2, m)
            IN  y \in Seq(X) /\ Len(y) = m - 2 + 1 /\ \A i \in 1 .. m - 2 + 1 : y[i] = s[2 + i - 1]
        BY <2>1, <4>1, SubSeqProperties
      <4> QED  BY <4>2 DEF m
    <3> HIDE DEF x
    <3>3. (n + 1) - 2 + 1 = n /\ \A i \in 1 .. n : 2 + i - 1 = i + 1
      BY <1>1
    <3>4. Len(x) = n /\ \A i \in 1 .. n : x[i] = t[i]
      BY <2>1, <3>2, <3>3
    <3>5. x = t
      BY <3>2, <3>4, SeqEqual DEF n
    <3> QED  BY <3>5 DEF x
  <2>7. TokenAt(s, 1) = <<t>>
    <3>1. TokenAt(s, 1) = <<SubSeq(s, 2, (n + 2) - 1)>>
      BY <1>1, <2>1, <2>2, <2>4 DEF TokenAt
    <3>2. (n + 2) - 1 = n + 1
      BY <1>1
    <3> QED  BY <2>6, <3>1, <3>2
  <2>8. splitCLF(s) = TokenAt(s, 1) \o splitCLF(r)
    <3>1. NextAt(w \o r, 1) = Len(w) + 1 /\ Len(w) > 0
      BY <1>1, <1>2, <2>5 DEF s
    <3>2. splitCLF(w \o r) = TokenAt(w \o r, 1) \o splitCLF(r)
      BY <1>2, <3>1, SplitStep
    <3> QED  BY <3>2 DEF s
  <2> QED  BY <2>7, <2>8 DEF s
<1>4. splitCLF(w) = <<t>>
  <2> HIDE DEF w
  <2>1. <<>> \in Seq(X) /\ w \o <<>> = w /\ <<t>> \o <<>> = <<t>>
    BY <1>2
  <2>2. splitCLF(w \o <<>>) = <<t>> \o splitCLF(<<>>)
    BY <1>3, <2>1
  <2> QED  BY <2>1, <2>2, SplitNothing
<1>5. ASSUME NEW r \in Seq(X) PROVE splitCLF(w \o (<<Space>> \o r)) = <<t>> \o splitCLF(r)
  <2> DEFINE u == <<Space>> \o r
  <2>1. u \in Seq(X)
    OBVIOUS
  <2> HIDE DEF u, w
  <2>2. splitCLF(w \o u) = <<t>> \o splitCLF(u)
    BY <1>3, <2>1
  <2>3. splitCLF(u) = splitCLF(r)
    BY SplitSpace DEF u
  <2> QED  BY <2>2, <2>3 DEF u
<1> QED  BY <1>4, <1>5

\* The texts of a line and the marks.
Alphabet == Texts \cup {Space, Quote, Open, Close, Dash}

\* Texts and marks are sequences over one alphabet.
LEMMA TextSequences == \A t \in Seq(Texts) : t \in Seq(Alphabet)
<1>1. Texts \subseteq Alphabet
  BY DEF Alphabet
<1> QED  BY <1>1

\* A field before the rest of a line is the first token: a word, a quoted span or
\* a bracketed one.
LEMMA SplitField ==
    ASSUME NEW r \in Seq(Alphabet)
    PROVE  /\ \A w \in Seq(Alphabet) : IsBare(w) =>
                 Before(w, r) \in Seq(Alphabet) /\ splitCLF(Before(w, r)) = <<w>> \o splitCLF(r)
           /\ \A t \in Seq(Alphabet) : (\A i \in 1 .. Len(t) : t[i] # Quote) =>
                 /\ Before(Marked(Quote, t, Quote), r) \in Seq(Alphabet)
                 /\ splitCLF(Before(Marked(Quote, t, Quote), r)) = <<t>> \o splitCLF(r)
           /\ \A t \in Seq(Alphabet) : (\A i \in 1 .. Len(t) : t[i] # Close) =>
                 /\ Before(Marked(Open, t, Close), r) \in Seq(Alphabet)
                 /\ splitCLF(Before(Marked(Open, t, Close), r)) = <<t>> \o splitCLF(r)
<1>1. Space \in Alphabet /\ Quote \in Alphabet /\ Open \in Alphabet /\ Close \in Alphabet
  BY DEF Alphabet
<1>2. ASSUME NEW w \in Seq(Alphabet) PROVE Before(w, r) \in Seq(Alphabet)
  <2> DEFINE A == Alphabet
  <2> HIDE DEF A
  <2>1. <<Space>> \in Seq(A) /\ w \in Seq(A) /\ r \in Seq(A)
    BY <1>1 DEF A
  <2>2. Before(w, r) \in Seq(A)
    BY <2>1 DEF Before
  <2> QED  BY <2>2 DEF A
<1>3. ASSUME NEW w \in Seq(Alphabet), IsBare(w) PROVE splitCLF(Before(w, r)) = <<w>> \o splitCLF(r)
  BY <1>1, <1>3, SplitWord DEF Before
<1>4. ASSUME NEW c \in {Quote, Open}, NEW t \in Seq(Alphabet), \A i \in 1 .. Len(t) : t[i] # Closing(c)
      PROVE  /\ Marked(c, t, Closing(c)) \in Seq(Alphabet)
             /\ splitCLF(Before(Marked(c, t, Closing(c)), r)) = <<t>> \o splitCLF(r)
  <2>1. c \in {Quote, Open} \cap Alphabet /\ Closing(c) \in Alphabet
    BY <1>1, Marks
  <2>2. splitCLF(Before(Marked(c, t, Closing(c)), r)) = <<t>> \o splitCLF(r)
    <3>1. \A x \in Seq(Alphabet) : splitCLF(Marked(c, t, Closing(c)) \o (<<Space>> \o x)) = <<t>> \o splitCLF(x)
      BY <1>1, <1>4, <2>1, SplitMarked, ZenonT(60)
    <3> QED  BY <3>1 DEF Before
  <2>3. Marked(c, t, Closing(c)) \in Seq(Alphabet)
    <3> DEFINE A == Alphabet
               d == Closing(c)
    <3>1. c \in A /\ d \in A /\ t \in Seq(A)
      BY <2>1
    <3> HIDE DEF A, d
    <3>2. Marked(c, t, d) \in Seq(A)
      BY <3>1 DEF Marked
    <3> QED  BY <3>2 DEF A, d
  <2> QED  BY <2>2, <2>3
<1>5. Closing(Quote) = Quote /\ Closing(Open) = Close
  BY Marks
<1> QED  BY <1>2, <1>3, <1>4, <1>5

\* The same at the end of a line.
LEMMA SplitLast ==
    /\ \A w \in Seq(Alphabet) : IsBare(w) => splitCLF(w) = <<w>>
    /\ \A t \in Seq(Alphabet) : (\A i \in 1 .. Len(t) : t[i] # Quote) =>
          Marked(Quote, t, Quote) \in Seq(Alphabet) /\ splitCLF(Marked(Quote, t, Quote)) = <<t>>
<1>1. Space \in Alphabet /\ Quote \in Alphabet /\ Closing(Quote) = Quote
  BY Marks DEF Alphabet
<1>2. ASSUME NEW w \in Seq(Alphabet), IsBare(w) PROVE splitCLF(w) = <<w>>
  BY <1>1, <1>2, SplitWord
<1>3. ASSUME NEW t \in Seq(Alphabet), \A i \in 1 .. Len(t) : t[i] # Quote
      PROVE  Marked(Quote, t, Quote) \in Seq(Alphabet) /\ splitCLF(Marked(Quote, t, Quote)) = <<t>>
  <2>1. Quote \in {Quote, Open} \cap Alphabet
    BY <1>1
  <2>2. splitCLF(Marked(Quote, t, Closing(Quote))) = <<t>>
    BY <1>1, <1>3, <2>1, SplitMarked, ZenonT(30)
  <2>3. Marked(Quote, t, Quote) \in Seq(Alphabet)
    <3> DEFINE A == Alphabet
               d == Quote
    <3>1. d \in A /\ t \in Seq(A)
      BY <1>1
    <3> HIDE DEF A, d
    <3>2. Marked(d, t, d) \in Seq(A)
      BY <3>1 DEF Marked
    <3> QED  BY <3>2 DEF A, d
  <2> QED  BY <1>1, <2>2, <2>3
<1> QED  BY <1>2, <1>3

\* One field before others.
LEMMA OneMore ==
    ASSUME NEW V, NEW a \in V, NEW T \in Seq(V)
    PROVE  /\ <<a>> \o T \in Seq(V) /\ Len(<<a>> \o T) = Len(T) + 1 /\ (<<a>> \o T)[1] = a
           /\ \A i \in 1 .. Len(T) : (<<a>> \o T)[i + 1] = T[i]
  OBVIOUS

\* The fields a line ends with.
Ends(f, e) ==
    /\ e \in Seq(Seq(Alphabet)) /\ Len(e) = (IF f.format = "common" THEN 1 ELSE IF f.format = "combined" THEN 3 ELSE 4)
    /\ e[1] = f.bytes /\ (f.format # "common" => e[2] = f.referer /\ e[3] = f.agent)

\* The end of a line splits into the fields it was written from.
LEMMA EndingSplit ==
    ASSUME NEW f, IsLog(f)
    PROVE  Ending(f) \in Seq(Alphabet) /\ Ends(f, splitCLF(Ending(f)))
<1> DEFINE agent == Marked(Quote, f.agent, Quote)
           referer == Marked(Quote, f.referer, Quote)
           V == Seq(Alphabet)
<1>1. /\ f.bytes \in V /\ f.agent \in V /\ f.referer \in V /\ IsBare(f.bytes)
      /\ \A i \in 1 .. Len(f.agent) : f.agent[i] # Quote
      /\ \A i \in 1 .. Len(f.referer) : f.referer[i] # Quote
      /\ f.format \in {"common", "combined", "longer"}
  BY TextSequences DEF IsLog
<1>2. Ending(f) = IF f.format = "common" THEN f.bytes
        ELSE Before(f.bytes, Before(referer, IF f.format = "combined" THEN agent ELSE Before(agent, referer)))
  BY DEF Ending
<1>3. agent \in V /\ splitCLF(agent) = <<f.agent>> /\ referer \in V /\ splitCLF(referer) = <<f.referer>>
  BY <1>1, SplitLast
<1>0. \A r \in V : /\ Before(agent, r) \in V /\ splitCLF(Before(agent, r)) = <<f.agent>> \o splitCLF(r)
                  /\ Before(referer, r) \in V /\ splitCLF(Before(referer, r)) = <<f.referer>> \o splitCLF(r)
  BY <1>1, SplitField
<1> HIDE DEF agent, referer
<1>4. Before(agent, referer) \in V /\ splitCLF(Before(agent, referer)) = <<f.agent>> \o <<f.referer>>
  BY <1>0, <1>3
<1>5. Before(referer, agent) \in V /\ splitCLF(Before(referer, agent)) = <<f.referer>> \o <<f.agent>>
  BY <1>0, <1>3
<1>6. /\ Before(referer, Before(agent, referer)) \in V
      /\ splitCLF(Before(referer, Before(agent, referer))) = <<f.referer>> \o (<<f.agent>> \o <<f.referer>>)
  BY <1>0, <1>4
<1>7. CASE f.format = "common"
  <2>1. Ending(f) = f.bytes /\ splitCLF(f.bytes) = <<f.bytes>>
    BY <1>1, <1>2, <1>7, SplitLast
  <2> DEFINE e == <<f.bytes>>
  <2>2. e \in Seq(V) /\ Len(e) = 1 /\ e[1] = f.bytes
    BY <1>1
  <2> QED  BY <1>1, <1>7, <2>1, <2>2 DEF Ends
<1>8. CASE f.format = "combined"
  <2> DEFINE e == <<f.bytes>> \o (<<f.referer>> \o <<f.agent>>)
  <2>1. Ending(f) \in V /\ splitCLF(Ending(f)) = e
    BY <1>1, <1>2, <1>5, <1>8, SplitField
  <2>2. e \in Seq(V) /\ Len(e) = 3 /\ e[1] = f.bytes /\ e[2] = f.referer /\ e[3] = f.agent
    <3> HIDE DEF V
    <3> QED  BY <1>1
  <2> HIDE DEF e
  <2> QED  BY <1>8, <2>1, <2>2 DEF Ends
<1>9. CASE f.format = "longer"
  <2> DEFINE e == <<f.bytes>> \o (<<f.referer>> \o (<<f.agent>> \o <<f.referer>>))
  <2>1. Ending(f) \in V /\ splitCLF(Ending(f)) = e
    BY <1>1, <1>2, <1>6, <1>9, SplitField
  <2>2. e \in Seq(V) /\ Len(e) = 4 /\ e[1] = f.bytes /\ e[2] = f.referer /\ e[3] = f.agent
    <3> HIDE DEF V
    <3> QED  BY <1>1
  <2> HIDE DEF e
  <2> QED  BY <1>9, <2>1, <2>2 DEF Ends
<1> QED  BY <1>1, <1>7, <1>8, <1>9

\* The fields a written line is split into.
LEMMA WrittenSplit ==
    ASSUME NEW f, IsLog(f)
    PROVE  LET tok == splitCLF(Written(f))
           IN  /\ Written(f) # <<>> /\ Written(f)[1] = f.host[1]
               /\ Len(tok) = (IF f.format = "common" THEN 7 ELSE IF f.format = "combined" THEN 9 ELSE 10)
               /\ tok[1] = f.host /\ tok[4] = f.time /\ tok[5] = f.request /\ tok[6] = f.status /\ tok[7] = f.bytes
               /\ f.format # "common" => tok[8] = f.referer /\ tok[9] = f.agent
<1> DEFINE V == Seq(Alphabet)
           dash == <<Dash>>
           r0 == Ending(f)
           r1 == Before(f.status, r0)
           r2 == Before(Marked(Quote, f.request, Quote), r1)
           r3 == Before(Marked(Open, f.time, Close), r2)
           r4 == Before(dash, r3)
           r5 == Before(dash, r4)
           r6 == Before(f.host, r5)
           e == splitCLF(r0)
<1>1. /\ f.host \in V /\ f.time \in V /\ f.request \in V /\ f.status \in V
      /\ IsBare(f.host) /\ IsBare(f.status)
      /\ \A i \in 1 .. Len(f.request) : f.request[i] # Quote
      /\ \A i \in 1 .. Len(f.time) : f.time[i] # Close
  BY TextSequences DEF IsLog
<1>2. dash \in V /\ IsBare(dash)
  <2>1. Dash \in Alphabet
    BY DEF Alphabet
  <2>2. dash \in V
    <3> DEFINE A == Alphabet
    <3>1. Dash \in A
      BY <2>1
    <3> HIDE DEF A
    <3>2. <<Dash>> \in Seq(A)
      BY <3>1
    <3> QED  BY <3>2 DEF A
  <2>3. Len(dash) = 1 /\ dash[1] = Dash /\ \A i \in 1 .. Len(dash) : dash[i] = Dash
    OBVIOUS
  <2> HIDE DEF dash
  <2> QED  BY <2>2, <2>3, Marks DEF IsBare
<1>3. Written(f) = r6
  BY DEF Written
<1>4. r0 \in V /\ Ends(f, e)
  BY EndingSplit
<1> HIDE DEF dash, r0
<1>5. r1 \in V /\ splitCLF(r1) = <<f.status>> \o e
  BY <1>1, <1>4, SplitField
<1> HIDE DEF r1, e
<1>6. r2 \in V /\ splitCLF(r2) = <<f.request>> \o splitCLF(r1)
  BY <1>1, <1>5, SplitField
<1> HIDE DEF r2
<1>7. r3 \in V /\ splitCLF(r3) = <<f.time>> \o splitCLF(r2)
  BY <1>1, <1>6, SplitField
<1> HIDE DEF r3
<1>8. r4 \in V /\ splitCLF(r4) = <<dash>> \o splitCLF(r3)
  BY <1>2, <1>7, SplitField
<1> HIDE DEF r4
<1>9. r5 \in V /\ splitCLF(r5) = <<dash>> \o splitCLF(r4)
  BY <1>2, <1>8, SplitField
<1> HIDE DEF r5
<1>0. r6 # <<>> /\ r6[1] = f.host[1]
  <2> DEFINE h == f.host
             A == Alphabet
             v == <<Space>> \o r5
  <2>1. r6 = h \o v
    BY DEF Before
  <2>2. h \in Seq(A) /\ Len(h) > 0 /\ r5 \in Seq(A) /\ Space \in A
    BY <1>1, <1>9 DEF IsBare, Alphabet
  <2> HIDE DEF r6, h, A, v
  <2>3. v \in Seq(A)
    BY <2>2 DEF v
  <2>4. h \o v \in Seq(A) /\ Len(h \o v) > 0 /\ (h \o v)[1] = h[1]
    BY <2>2, <2>3
  <2>5. h \o v # <<>>
    <3> DEFINE x == h \o v
    <3>1. Len(x) > 0
      BY <2>4
    <3> HIDE DEF x
    <3> QED  BY <3>1 DEF x
  <2> QED  BY <2>1, <2>4, <2>5 DEF h
<1>10. r6 \in V /\ splitCLF(r6) = <<f.host>> \o splitCLF(r5)
  BY <1>1, <1>9, SplitField
<1> HIDE DEF r6, V
<1> DEFINE t1 == <<f.status>> \o e
           t2 == <<f.request>> \o t1
           t3 == <<f.time>> \o t2
           t4 == <<dash>> \o t3
           t5 == <<dash>> \o t4
           tok == <<f.host>> \o t5
           m == Len(e)
<1>11. splitCLF(Written(f)) = tok
  BY <1>3, <1>5, <1>6, <1>7, <1>8, <1>9, <1>10
<1>12. e \in Seq(V) /\ m \in Nat
  BY <1>4 DEF Ends, V
<1> HIDE DEF m
<1>13. t1 \in Seq(V) /\ Len(t1) = m + 1 /\ t1[1] = f.status /\ \A i \in 1 .. m : t1[i + 1] = e[i]
  BY <1>1, <1>12, OneMore DEF m
<1> HIDE DEF t1
<1>14. t2 \in Seq(V) /\ Len(t2) = m + 2 /\ t2[1] = f.request /\ t2[2] = f.status /\ \A i \in 1 .. m : t2[i + 2] = e[i]
  <2>1. t2 \in Seq(V) /\ Len(t2) = Len(t1) + 1 /\ t2[1] = f.request /\ \A i \in 1 .. Len(t1) : t2[i + 1] = t1[i]
    BY <1>1, <1>13, OneMore
  <2> HIDE DEF t2
  <2>2. t2[1 + 1] = t1[1] /\ \A i \in 1 .. m : t2[(i + 1) + 1] = t1[i + 1] /\ (i + 1) + 1 = i + 2
    BY <1>12, <1>13, <2>1
  <2> QED  BY <1>12, <1>13, <2>1, <2>2
<1> HIDE DEF t2
<1>15. t3 \in Seq(V) /\ Len(t3) = m + 3 /\ t3[1] = f.time /\ \A i \in 1 .. m + 2 : t3[i + 1] = t2[i]
  BY <1>1, <1>12, <1>14, OneMore
<1> HIDE DEF t3
<1>16. t4 \in Seq(V) /\ Len(t4) = m + 4 /\ \A i \in 1 .. m + 3 : t4[i + 1] = t3[i]
  BY <1>2, <1>12, <1>15, OneMore
<1> HIDE DEF t4
<1>17. t5 \in Seq(V) /\ Len(t5) = m + 5 /\ \A i \in 1 .. m + 4 : t5[i + 1] = t4[i]
  BY <1>2, <1>12, <1>16, OneMore
<1> HIDE DEF t5
<1>18. Len(tok) = m + 6 /\ tok[1] = f.host /\ \A i \in 1 .. m + 5 : tok[i + 1] = t5[i]
  BY <1>1, <1>12, <1>17, OneMore
<1> HIDE DEF tok
<1>19. ASSUME NEW i \in 1 .. m + 3 PROVE tok[i + 3] = t3[i]
  <2>1. i + 2 \in 1 .. m + 5 /\ i + 1 \in 1 .. m + 4 /\ (i + 2) + 1 = i + 3 /\ (i + 1) + 1 = i + 2
    BY <1>12
  <2>2. tok[i + 3] = t5[i + 2] /\ t5[i + 2] = t4[i + 1]
    BY <1>17, <1>18, <2>1
  <2> QED  BY <1>16, <2>2
<1>20. ASSUME NEW i \in 1 .. m + 2 PROVE tok[i + 4] = t2[i]
  <2>1. i + 1 \in 1 .. m + 3 /\ (i + 1) + 3 = i + 4
    BY <1>12
  <2>2. tok[i + 4] = t3[i + 1]
    BY <1>19, <2>1
  <2> QED  BY <1>15, <2>2
<1>21. tok[4] = f.time /\ tok[5] = f.request /\ tok[6] = f.status
  <2>1. tok[1 + 3] = t3[1] /\ tok[1 + 4] = t2[1] /\ tok[2 + 4] = t2[2]
    BY <1>12, <1>19, <1>20
  <2> QED  BY <1>14, <1>15, <2>1
<1>22. \A i \in 1 .. m : tok[i + 6] = e[i]
  <2>1. ASSUME NEW i \in 1 .. m PROVE tok[i + 6] = e[i]
    <3>1. i + 2 \in 1 .. m + 2 /\ (i + 2) + 4 = i + 6
      BY <1>12
    <3>2. tok[i + 6] = t2[i + 2]
      BY <1>20, <3>1
    <3> QED  BY <1>14, <3>2
  <2> QED  BY <2>1
<1>23. m = (IF f.format = "common" THEN 1 ELSE IF f.format = "combined" THEN 3 ELSE 4)
  BY <1>4 DEF Ends, m
<1>24. tok[7] = f.bytes
  <2>1. tok[1 + 6] = e[1]
    BY <1>12, <1>22, <1>23
  <2> QED  BY <1>4, <2>1 DEF Ends
<1>25. ASSUME f.format # "common" PROVE tok[8] = f.referer /\ tok[9] = f.agent
  <2>1. tok[2 + 6] = e[2] /\ tok[3 + 6] = e[3]
    BY <1>12, <1>22, <1>23, <1>25
  <2> QED  BY <1>4, <1>25, <2>1 DEF Ends
<1>26. Len(tok) = (IF f.format = "common" THEN 7 ELSE IF f.format = "combined" THEN 9 ELSE 10)
  BY <1>18, <1>23
<1> QED  BY <1>0, <1>3, <1>11, <1>18, <1>21, <1>24, <1>25, <1>26

\* Method and path of a request.
LEMMA RequestIs ==
    ASSUME NEW t \in Seq(Texts), IsRequest(t)
    PROVE  /\ PlaceOf(t, 1, Space) > Len(t) <=> Len(t) < 3
           /\ Len(t) >= 3 => Method(t) = <<t[1]>> /\ Path(t) = <<t[3]>>
<1>1. Len(t) \in Nat
  OBVIOUS
<1>2. CASE Len(t) < 3
  <2> DEFINE p == Len(t) + 1
  <2>1. 1 \in 1 .. Len(t) + 1 /\ p \in 1 .. Len(t) + 1 /\ ~ (p <= Len(t)) /\ p - 1 = Len(t) /\ p > Len(t)
    BY <1>1
  <2>2. \A j \in 1 .. p - 1 : t[j] # Space
    BY <1>2, <2>1 DEF IsRequest
  <2> HIDE DEF p
  <2>3. PlaceOf(t, 1, Space) = p
    BY <2>1, <2>2, PlaceOnly
  <2> QED  BY <1>1, <1>2, <2>1, <2>3
<1>3. CASE Len(t) >= 3
  <2>1. t[1] # Space /\ t[2] = Space /\ t[3] # Space /\ (Len(t) = 3 \/ t[4] = Space)
    BY <1>1, <1>3 DEF IsRequest
  <2>2. PlaceOf(t, 1, Space) = 2
    <3>1. 1 \in 1 .. Len(t) + 1 /\ 2 \in 1 .. Len(t) + 1 /\ \A j \in 1 .. 2 - 1 : j = 1
      BY <1>1, <1>3
    <3> QED  BY <2>1, <3>1, PlaceOnly
  <2>3. PlaceOf(t, 3, Space) = 4
    <3>1. 3 \in 1 .. Len(t) + 1 /\ 4 \in 3 .. Len(t) + 1 /\ \A j \in 3 .. 4 - 1 : j = 3
      BY <1>1, <1>3
    <3>2. 4 <= Len(t) => t[4] = Space
      BY <2>1
    <3> QED  BY <2>1, <3>1, <3>2, PlaceOnly
  <2>4. \A i \in 1 .. Len(t) : SubSeq(t, i, i) = <<t[i]>>
    <3>1. ASSUME NEW i \in 1 .. Len(t) PROVE SubSeq(t, i, i) = <<t[i]>>
      <4> DEFINE x == SubSeq(t, i, i)
      <4>1. i \in 1 .. Len(t) + 1 /\ i \in i - 1 .. Len(t)
        BY <1>1
      <4>2. x \in Seq(Texts) /\ Len(x) = i - i + 1 /\ \A k \in 1 .. i - i + 1 : x[k] = t[i + k - 1]
        BY <4>1, SubSeqProperties
      <4> HIDE DEF x
      <4>3. i - i + 1 = 1 /\ i + 1 - 1 = i
        BY <1>1
      <4>4. Len(x) = 1 /\ x[1] = t[i]
        BY <4>2, <4>3
      <4>5. x = <<t[i]>>
        BY <4>2, <4>4
      <4> QED  BY <4>5 DEF x
    <3> QED  BY <3>1
  <2>5. Method(t) = <<t[1]>>
    <3>1. 2 - 1 = 1 /\ 1 \in 1 .. Len(t)
      BY <1>1, <1>3
    <3> QED  BY <2>2, <2>4, <3>1 DEF Method
  <2>6. Path(t) = <<t[3]>>
    <3>1. 2 + 1 = 3 /\ 4 - 1 = 3 /\ 3 \in 1 .. Len(t)
      BY <1>1, <1>3
    <3> QED  BY <2>2, <2>3, <2>4, <3>1 DEF Path
  <2> QED  BY <1>1, <1>3, <2>2, <2>5, <2>6
<1> QED  BY <1>1, <1>2, <1>3

\* The record that the fields of a line are.
ReadBack(f) ==
    LET number(t, else) == IF Len(t) = 1 /\ IsUint(t[1]) THEN IntVal(t[1].n \div 2) ELSE else
        given(t) == IF t \in {<<>>, <<Dash>>} \/ f.format = "common" THEN NullVal ELSE BytesVal(t)
    IN  IF ~ IsClfTime(f.time) \/ Len(f.request) < 3 THEN ErrSkip
        ELSE Record(
            <<IntVal(ToWord(f.time[1].n)),
              IF IsIP(f.host[1]) THEN BytesVal(<<NormalizeIP(f.host[1])>>) ELSE NullVal,
              BytesVal(<<f.request[1]>>), BytesVal(<<f.request[3]>>),
              number(f.status, NullVal), number(f.bytes, IntVal(0)),
              given(f.referer), given(f.agent)>>)

\* A line written from fields decodes to the record of those fields.
LEMMA LineReadBack ==
    ASSUME NEW f, IsLog(f)
    PROVE  DecodeWeb(Written(f)) = ReadBack(f)
<1> DEFINE s == Written(f)
           tok == splitCLF(s)
           number(t, else) == IF Len(t) = 1 /\ IsUint(t[1]) THEN IntVal(t[1].n \div 2) ELSE else
           given(t) == IF t \in {<<>>, <<Dash>>} \/ f.format = "common" THEN NullVal ELSE BytesVal(t)
<1>1. /\ s # <<>> /\ s[1] = f.host[1]
      /\ Len(tok) = (IF f.format = "common" THEN 7 ELSE IF f.format = "combined" THEN 9 ELSE 10)
      /\ tok[1] = f.host /\ tok[4] = f.time /\ tok[5] = f.request /\ tok[6] = f.status /\ tok[7] = f.bytes
      /\ f.format # "common" => tok[8] = f.referer /\ tok[9] = f.agent
  BY WrittenSplit
<1>2. /\ f.host \in Seq(Texts) /\ f.request \in Seq(Texts) /\ Len(f.host) = 1 /\ f.host[1] # Hash
      /\ IsRequest(f.request) /\ f.format \in {"common", "combined", "longer"}
  BY DEF IsLog
<1>3. PlaceOf(f.request, 1, Space) > Len(f.request) <=> Len(f.request) < 3
  BY <1>2, RequestIs
<1>4. WebSkipped(s, tok) <=> ~ IsClfTime(f.time) \/ Len(f.request) < 3
  <2> HIDE DEF s, tok
  <2>1. ~ (Len(tok) < 7)
    BY <1>1, <1>2
  <2> QED  BY <1>1, <1>2, <1>3, <2>1 DEF WebSkipped
<1>5. DecodeWeb(s) = IF WebSkipped(s, tok) THEN ErrSkip ELSE Record(WebRecord(tok))
  BY DecodeWebIs
<1>6. ASSUME Len(f.request) >= 3
      PROVE  WebRecord(tok) =
                <<IntVal(ToWord(f.time[1].n)),
                  IF IsIP(f.host[1]) THEN BytesVal(<<NormalizeIP(f.host[1])>>) ELSE NullVal,
                  BytesVal(<<f.request[1]>>), BytesVal(<<f.request[3]>>),
                  number(f.status, NullVal), number(f.bytes, IntVal(0)),
                  given(f.referer), given(f.agent)>>
  <2> HIDE DEF s, tok
  <2>1. Method(tok[5]) = <<f.request[1]>> /\ Path(tok[5]) = <<f.request[3]>>
    BY <1>1, <1>2, <1>6, RequestIs
  <2>2. Extra(tok, 8) = given(f.referer) /\ Extra(tok, 9) = given(f.agent)
    <3>1. CASE f.format = "common"
      <4>1. ~ (Len(tok) >= 9)
        BY <1>1, <3>1
      <4> QED  BY <3>1, <4>1 DEF Extra
    <3>2. CASE f.format # "common"
      <4>1. Len(tok) >= 9
        BY <1>1, <3>2
      <4>2. \A t : OptionalValue(t) = given(t)
        BY <3>2 DEF OptionalValue
      <4> QED  BY <1>1, <3>2, <4>1, <4>2 DEF Extra
    <3> QED  BY <3>1, <3>2
  <2>3. (IF IsUintField(tok[6]) THEN IntVal(tok[6][1].n \div 2) ELSE NullVal) = number(f.status, NullVal)
    BY <1>1 DEF IsUintField
  <2>4. (IF IsUintField(tok[7]) THEN IntVal(tok[7][1].n \div 2) ELSE IntVal(0)) = number(f.bytes, IntVal(0))
    BY <1>1 DEF IsUintField
  <2>5. (IF Len(tok[1]) = 1 /\ IsIP(tok[1][1]) THEN BytesVal(<<NormalizeIP(tok[1][1])>>) ELSE NullVal)
           = IF IsIP(f.host[1]) THEN BytesVal(<<NormalizeIP(f.host[1])>>) ELSE NullVal
    BY <1>1, <1>2
  <2>6. tok[4] = f.time
    BY <1>1
  <2> HIDE DEF number, given
  <2> QED  BY <2>1, <2>2, <2>3, <2>4, <2>5, <2>6 DEF WebRecord
<1>7. ReadBack(f) =
        IF ~ IsClfTime(f.time) \/ Len(f.request) < 3 THEN ErrSkip
        ELSE Record(
            <<IntVal(ToWord(f.time[1].n)),
              IF IsIP(f.host[1]) THEN BytesVal(<<NormalizeIP(f.host[1])>>) ELSE NullVal,
              BytesVal(<<f.request[1]>>), BytesVal(<<f.request[3]>>),
              number(f.status, NullVal), number(f.bytes, IntVal(0)),
              given(f.referer), given(f.agent)>>)
  BY DEF ReadBack
<1>8. CASE ~ IsClfTime(f.time) \/ Len(f.request) < 3
  <2>1. DecodeWeb(s) = ErrSkip
    BY <1>4, <1>5, <1>8
  <2>2. ReadBack(f) = ErrSkip
    BY <1>8 DEF ReadBack
  <2> QED  BY <2>1, <2>2
<1>9. CASE ~ (~ IsClfTime(f.time) \/ Len(f.request) < 3)
  <2>1. DecodeWeb(s) = Record(WebRecord(tok))
    BY <1>4, <1>5, <1>9
  <2>2. Len(f.request) >= 3
    BY <1>2, <1>9
  <2>3. ReadBack(f) = Record(WebRecord(tok))
    BY <1>6, <1>7, <1>9, <2>2
  <2> QED  BY <2>1, <2>3
<1> QED  BY <1>8, <1>9

\* A line written in the Common or the Combined format gives the record of its
\* fields, for every field without the mark it ends with (webaccess.go:15-18,
\* :43-106).
THEOREM WebLineReadBackAlways == Spec => []WebLineReadBack
<1>1. Init => WebLineReadBack
  BY DEF Init, WebLineReadBack
<1>2. LineOfSource /\ WebLineReadBack /\ [Next]_vars => WebLineReadBack'
  <2> SUFFICES ASSUME LineOfSource, WebLineReadBack, [Next]_vars PROVE WebLineReadBack'
    OBVIOUS
  <2>1. CASE UNCHANGED vars
    BY <2>1 DEF vars, WebLineReadBack
  <2>2. CASE Decode
    <3>1. src' = src /\ line' = line
      BY <2>2 DEF Decode
    <3> SUFFICES ASSUME src = "web-access", line.of.format # "none"
                 PROVE  result' = ReadBack(line.of)
      BY <3>1 DEF WebLineReadBack, ReadBack
    <3>2. result' = DecodeWeb(line.s) /\ line \in Lines["web-access"]
      BY <2>2 DEF Decode, LineOfSource
    <3>3. IsLog(line.of) /\ line.s = Written(line.of)
      BY <3>2, LogAssumption
    <3> QED  BY <3>2, <3>3, LineReadBack
  <2> QED  BY <2>1, <2>2 DEF Next
<1> QED  BY <1>1, <1>2, LineInvariant, PTL DEF Spec

(***************************************************************************)
(* Greater numbers have no smaller float64.                                *)
(***************************************************************************)

\* Multiples of g in order.
LEMMA Multiples ==
    ASSUME NEW a \in Int, NEW b \in Int, NEW g \in Nat \ {0}
    PROVE  /\ a * g \in Int /\ b * g \in Int
           /\ a * g < b * g <=> a < b
           /\ a <= b => a * g <= b * g
           /\ a < b => a * g + g <= b * g
<1>1. a * g \in Int /\ b * g \in Int
  OBVIOUS
<1>2. \A d \in Nat : d * g \in Nat
  OBVIOUS
<1>3. ASSUME NEW x \in Int, NEW y \in Int, x <= y PROVE x * g <= y * g
  <2> DEFINE d == y - x
  <2>1. d \in Nat /\ y = x + d
    BY <1>3
  <2> HIDE DEF d
  <2>2. (x + d) * g = (x * g) + (d * g) /\ x * g \in Int /\ d * g \in Nat
    BY <1>2, <2>1
  <2> QED  BY <2>1, <2>2
<1>4. a < b => a * g + g <= b * g
  <2>1. a < b => (a + 1) * g <= b * g
    BY <1>3
  <2>2. (a + 1) * g = a * g + g
    OBVIOUS
  <2> QED  BY <2>1, <2>2
<1>5. b <= a => b * g <= a * g
  BY <1>3
<1> QED  BY <1>1, <1>3, <1>4, <1>5

\* The powers of two up to the gap of a number, and the number itself.
LEMMA GapLow ==
    ASSUME NEW h \in Nat, NEW m \in 0 .. (Width + 1), Below(h, m)
    PROVE  \E j \in 0 .. m :
              /\ Gap(h) = Pow2[j] /\ Pow2[j] \in Nat \ {0} /\ h < FloatExact * Pow2[j]
              /\ j = 0 \/ (j - 1 \in Nat /\ Pow2[j] = 2 * Pow2[j - 1] /\ FloatExact * Pow2[j - 1] <= h)
<1>1. PICK j \in 0 .. m : /\ Gap(h) = Pow2[j] /\ Below(h, j)
                          /\ \A i \in 0 .. (Width + 1) : Below(h, i) => Pow2[j] <= Pow2[i]
  BY GapIs
<1>2. Size(h) = h
  BY DEF Size
<1>3. Pow2[j] \in Nat \ {0} /\ h < FloatExact * Pow2[j]
  BY <1>1, <1>2, Constants DEF Below
<1>4. ASSUME j # 0
      PROVE  j - 1 \in Nat /\ Pow2[j] = 2 * Pow2[j - 1] /\ FloatExact * Pow2[j - 1] <= h
  <2> DEFINE i == j - 1
  <2>1. i \in Nat /\ j = i + 1 /\ i \in 0 .. (Width + 1)
    BY <1>4, Constants
  <2> HIDE DEF i
  <2>2. Pow2[j] = 2 * Pow2[i] /\ Pow2[i] \in Nat \ {0}
    BY <2>1, Pow2Next, Constants
  <2>3. ~ (Pow2[j] <= Pow2[i])
    BY <2>2
  <2>4. ~ Below(h, i)
    BY <1>1, <2>1, <2>3
  <2>5. FloatExact * Pow2[i] \in Nat
    BY <2>2, Constants
  <2>6. FloatExact * Pow2[i] <= h
    BY <1>2, <2>4, <2>5 DEF Below
  <2> QED  BY <2>1, <2>2, <2>6 DEF i
<1> QED  BY <1>1, <1>3, <1>4

\* Rounding to a multiple keeps a multiple's side.
LEMMA NearMultiple ==
    ASSUME NEW h \in Int, NEW g \in Nat \ {0}, NEW k \in Int, NEW c \in Int,
           2 * (k * g - h) <= g, 2 * (h - k * g) <= g
    PROVE  /\ c * g <= h => c * g <= k * g
           /\ h <= c * g => k * g <= c * g
<1>1. k * g \in Int /\ c * g \in Int
  BY Multiples
<1>2. k < c => k * g + g <= c * g
  BY Multiples
<1>3. c < k => c * g + g <= k * g
  BY Multiples
<1>4. k = c => k * g = c * g
  OBVIOUS
<1> DEFINE x == k * g
           y == c * g
<1>5. x \in Int /\ y \in Int /\ (k < c => x + g <= y) /\ (c < k => y + g <= x) /\ (k = c => x = y)
      /\ 2 * (x - h) <= g /\ 2 * (h - x) <= g
  BY <1>1, <1>2, <1>3, <1>4
<1> HIDE DEF x, y
<1>6. (y <= h => y <= x) /\ (h <= y => x <= y)
  BY <1>5
<1> QED  BY <1>6 DEF x, y

\* FloatExact is even, so its products with powers of two are floats.
LEMMA FloatBetween ==
    ASSUME NEW h \in Nat, NEW m \in 0 .. (Width + 1), Below(h, m),
           NEW j \in 0 .. m, Gap(h) = Pow2[j], h < FloatExact * Pow2[j],
           j = 0 \/ (j - 1 \in Nat /\ Pow2[j] = 2 * Pow2[j - 1] /\ FloatExact * Pow2[j - 1] <= h)
    PROVE  /\ Float(h) \in Nat /\ Float(h) <= FloatExact * Pow2[j]
           /\ j # 0 => FloatExact * Pow2[j - 1] <= Float(h)
<1> DEFINE g == Pow2[j]
<1>1. g \in Nat \ {0} /\ Float(h) \in Int /\ 2 * (Float(h) - h) <= g /\ 2 * (h - Float(h)) <= g /\ Float(h) >= 0
  BY FloatIs, Constants
<1>2. PICK k \in Int : Float(h) = k * g
  <2>1. PICK i \in 0 .. m : Gap(h) = Pow2[i] /\ \E k \in Int : Float(h) = k * Pow2[i]
    BY FloatIs, SMTT(30)
  <2> QED  BY <2>1
<1>3. FloatExact \in Nat /\ FloatExact % 2 = 0
  BY Constants
<1> DEFINE F == FloatExact
           c == F \div 2
<1>4. c \in Nat /\ F = 2 * c
  BY <1>3
<1> HIDE DEF g, c, F
<1>5. h <= F * g
  BY <1>1, <1>4 DEF g, F
<1>6. Float(h) <= F * g
  BY <1>1, <1>2, <1>4, <1>5, NearMultiple
<1>7. ASSUME j # 0 PROVE F * Pow2[j - 1] <= Float(h)
  <2> DEFINE p == Pow2[j - 1]
  <2>1. p \in Nat /\ g = 2 * p /\ F * p <= h
    BY <1>7, Constants DEF g, F
  <2> HIDE DEF p
  <2>2. (2 * c) * p = c * (2 * p)
    BY <1>4, <2>1
  <2>3. F * p = c * g
    BY <1>4, <2>1, <2>2
  <2>4. c * g <= Float(h)
    BY <1>1, <1>2, <1>4, <2>1, <2>3, NearMultiple
  <2> QED  BY <2>3, <2>4 DEF p
<1> QED  BY <1>1, <1>6, <1>7 DEF F, g

\* How two numbers round to multiples of the same gap.
LEMMA RoundedGrows ==
    ASSUME NEW h \in Nat, NEW k \in Nat, h <= k, NEW g \in Nat \ {0}
    PROVE  Rounded(h, g) <= Rounded(k, g)
<1> DEFINE q == h \div g
           r == h % g
           a == k \div g
           b == k % g
<1>1. q \in Int /\ r \in 0 .. (g - 1) /\ h = (g * q) + r
  BY DivModParts
<1>2. a \in Int /\ b \in 0 .. (g - 1) /\ k = (g * a) + b
  BY DivModParts
<1>3. Rounded(h, g) = IF 2 * r < g \/ (2 * r = g /\ q % 2 = 0) THEN q * g ELSE (q + 1) * g
  BY DEF Rounded
<1>4. Rounded(k, g) = IF 2 * b < g \/ (2 * b = g /\ a % 2 = 0) THEN a * g ELSE (a + 1) * g
  BY DEF Rounded
<1> HIDE DEF q, r, a, b
<1>5. q * g \in Int /\ a * g \in Int /\ g * q = q * g /\ g * a = a * g
      /\ (q + 1) * g = q * g + g /\ (a + 1) * g = a * g + g
  <2>1. q * g \in Int /\ a * g \in Int /\ g * q = q * g /\ g * a = a * g
    BY <1>1, <1>2, Products
  <2>2. (q + 1) * g = q * g + g /\ (a + 1) * g = a * g + g
    BY <1>1, <1>2
  <2> QED  BY <2>1, <2>2
<1>6. /\ q < a => q * g + g <= a * g
      /\ a < q => a * g + g <= q * g
  BY <1>1, <1>2, Multiples
<1> DEFINE x == q * g
           y == a * g
<1>7. /\ x \in Int /\ y \in Int /\ h = x + r /\ k = y + b
      /\ Rounded(h, g) = (IF 2 * r < g \/ (2 * r = g /\ q % 2 = 0) THEN x ELSE x + g)
      /\ Rounded(k, g) = (IF 2 * b < g \/ (2 * b = g /\ a % 2 = 0) THEN y ELSE y + g)
      /\ (q < a => x + g <= y) /\ (a < q => y + g <= x) /\ (a = q => x = y)
  BY <1>1, <1>2, <1>3, <1>4, <1>5, <1>6
<1> DEFINE u == Rounded(h, g)
           v == Rounded(k, g)
<1> HIDE DEF x, y
<1>8. u <= v
  <2>1. ~ (a < q)
    BY <1>1, <1>2, <1>7
  <2>2. CASE q < a
    <3>1. u <= x + g /\ u \in Int /\ y <= v /\ v \in Int
      BY <1>7
    <3> HIDE DEF u, v
    <3> QED  BY <1>7, <2>2, <3>1
  <2>3. CASE q = a
    <3>1. x = y /\ r <= b
      BY <1>1, <1>2, <1>7, <2>3
    <3> QED  BY <1>1, <1>2, <1>7, <2>3, <3>1
  <2> QED  BY <1>1, <1>2, <2>1, <2>2, <2>3
<1> QED  BY <1>8

\* A float64 and its gap grow with the number.
LEMMA FloatGrows ==
    ASSUME NEW h \in Nat, NEW k \in Nat, h <= k, Below(k, Width + 1)
    PROVE  Below(h, Width + 1) /\ Float(h) <= Float(k) /\ Gap(h) <= Gap(k)
<1> DEFINE m == Width + 1
<1>1. m \in 0 .. (Width + 1) /\ m \in Nat /\ FloatExact \in Nat
  BY Constants
<1>2. Size(h) = h /\ Size(k) = k
  BY DEF Size
<1> HIDE DEF m
<1>3. Below(k, m) /\ Below(h, m)
  <2>1. k < FloatExact * Pow2[m] /\ FloatExact * Pow2[m] \in Nat
    BY <1>1, <1>2, Constants DEF Below, m
  <2>2. h < FloatExact * Pow2[m]
    BY <2>1
  <2> QED  BY <1>2, <2>1, <2>2 DEF Below
<1>4. PICK i \in 0 .. m :
              /\ Gap(h) = Pow2[i] /\ Pow2[i] \in Nat \ {0} /\ h < FloatExact * Pow2[i]
              /\ i = 0 \/ (i - 1 \in Nat /\ Pow2[i] = 2 * Pow2[i - 1] /\ FloatExact * Pow2[i - 1] <= h)
  BY <1>1, <1>3, GapLow
<1>5. PICK j \in 0 .. m :
              /\ Gap(k) = Pow2[j] /\ Pow2[j] \in Nat \ {0} /\ k < FloatExact * Pow2[j]
              /\ j = 0 \/ (j - 1 \in Nat /\ Pow2[j] = 2 * Pow2[j - 1] /\ FloatExact * Pow2[j - 1] <= k)
  BY <1>1, <1>3, GapLow
<1>6. i <= j
  <2> SUFFICES ASSUME j < i PROVE FALSE
    BY <1>1
  <2>1. j \in Nat /\ i - 1 \in Nat /\ j <= i - 1
    BY <1>1, <1>4
  <2>2. Pow2[j] <= Pow2[i - 1] /\ Pow2[i - 1] \in Nat
    BY <2>1, Pow2Grows, Constants
  <2>3. FloatExact * Pow2[j] <= FloatExact * Pow2[i - 1]
    <3> DEFINE a == Pow2[j]
               b == Pow2[i - 1]
    <3>1. a \in Nat /\ b \in Nat /\ a <= b
      BY <1>5, <2>2
    <3> HIDE DEF a, b
    <3>2. a * FloatExact <= b * FloatExact /\ a * FloatExact = FloatExact * a /\ b * FloatExact = FloatExact * b
      BY <1>1, <3>1, Constants, Multiples, Products
    <3> QED  BY <3>2 DEF a, b
  <2>4. FloatExact * Pow2[i - 1] <= h
    BY <1>4, <2>1
  <2> DEFINE x == FloatExact * Pow2[j]
             y == FloatExact * Pow2[i - 1]
  <2>5. x \in Nat /\ y \in Nat /\ k < x /\ x <= y /\ y <= h
    BY <1>1, <1>5, <2>2, <2>3, <2>4, Products
  <2> HIDE DEF x, y
  <2> QED  BY <2>5
<1>7. Gap(h) <= Gap(k)
  BY <1>1, <1>4, <1>5, <1>6, Pow2Grows
<1>8. Float(h) <= Float(k)
  <2>1. Float(h) \in Nat /\ Float(h) <= FloatExact * Pow2[i]
    BY <1>1, <1>3, <1>4, FloatBetween
  <2>2. Float(k) \in Nat /\ (j # 0 => FloatExact * Pow2[j - 1] <= Float(k))
    BY <1>1, <1>3, <1>5, FloatBetween
  <2>3. CASE i = j
    <3>1. Float(h) = Rounded(h, Pow2[j]) /\ Float(k) = Rounded(k, Pow2[j])
      BY <1>4, <1>5, <2>3, FloatIsRounded
    <3> QED  BY <1>5, <3>1, RoundedGrows
  <2>4. CASE i < j
    <3>1. j # 0 /\ j - 1 \in Nat /\ i <= j - 1 /\ i \in Nat
      BY <1>1, <2>4
    <3>2. Pow2[i] <= Pow2[j - 1] /\ Pow2[j - 1] \in Nat
      BY <3>1, Pow2Grows, Constants
    <3>3. FloatExact * Pow2[i] <= FloatExact * Pow2[j - 1]
      <4> DEFINE a == Pow2[i]
                 b == Pow2[j - 1]
      <4>1. a \in Nat /\ b \in Nat /\ a <= b
        BY <1>4, <3>2
      <4> HIDE DEF a, b
      <4>2. a * FloatExact <= b * FloatExact /\ a * FloatExact = FloatExact * a /\ b * FloatExact = FloatExact * b
        BY <1>1, <4>1, Constants, Multiples, Products
      <4> QED  BY <4>2 DEF a, b
    <3> DEFINE x == FloatExact * Pow2[i]
               y == FloatExact * Pow2[j - 1]
    <3>4. x \in Nat /\ y \in Nat /\ Float(h) <= x /\ x <= y /\ y <= Float(k)
      BY <1>1, <1>4, <2>1, <2>2, <3>1, <3>2, <3>3, Products
    <3> HIDE DEF x, y
    <3> QED  BY <2>1, <2>2, <3>4
  <2> QED  BY <1>1, <1>6, <2>3, <2>4
<1> QED  BY <1>3, <1>7, <1>8 DEF m

\* A number's gap is no greater than that of its float64, and at most half the
\* number when that is more than a float64 holds exactly.
LEMMA GapKept ==
    ASSUME NEW h \in Nat, Below(h, Width)
    PROVE  Gap(h) <= Gap(Float(h)) /\ (FloatExact <= h => 2 * Gap(h) <= h) /\ Gap(h) \in Nat \ {0}
<1>1. Width \in 0 .. (Width + 1) /\ Width \in 0 .. Width /\ FloatExact \in Nat /\ Width \in Nat
      /\ Width + 1 \in 0 .. (Width + 1)
  BY Constants
<1>2. PICK j \in 0 .. Width :
              /\ Gap(h) = Pow2[j] /\ Pow2[j] \in Nat \ {0} /\ h < FloatExact * Pow2[j]
              /\ j = 0 \/ (j - 1 \in Nat /\ Pow2[j] = 2 * Pow2[j - 1] /\ FloatExact * Pow2[j - 1] <= h)
  BY <1>1, GapLow
<1>3. Float(h) \in Nat /\ (j # 0 => FloatExact * Pow2[j - 1] <= Float(h))
  BY <1>1, <1>2, FloatBetween
<1>4. Below(Float(h), Width + 1)
  BY <1>1, FloatTwice
<1>5. Gap(h) <= Gap(Float(h))
  <2> DEFINE f == Float(h)
  <2>1. Size(f) = f
    BY <1>3 DEF Size
  <2>2. PICK i \in 0 .. (Width + 1) : Gap(f) = Pow2[i] /\ Below(f, i) /\ Pow2[i] \in Nat \ {0}
    BY <1>1, <1>3, <1>4, GapIs, Constants
  <2> HIDE DEF f
  <2>3. CASE j = 0
    BY <1>2, <2>2, <2>3, Pow2Next DEF f
  <2>4. CASE j # 0
    <3>1. j <= i
      <4> SUFFICES ASSUME i < j PROVE FALSE
        BY <1>1
      <4>1. i \in Nat /\ j - 1 \in Nat /\ i <= j - 1
        BY <1>1, <1>2, <2>4
      <4> DEFINE a == Pow2[i]
                 b == Pow2[j - 1]
      <4>2. a \in Nat /\ b \in Nat /\ a <= b
        BY <4>1, Pow2Grows, Constants
      <4>3. f < FloatExact * a /\ FloatExact * b <= f
        BY <1>3, <2>1, <2>2, <2>4 DEF Below, f
      <4> HIDE DEF a, b
      <4>4. a * FloatExact <= b * FloatExact /\ a * FloatExact = FloatExact * a /\ b * FloatExact = FloatExact * b
            /\ a * FloatExact \in Int /\ b * FloatExact \in Int
        BY <1>1, <4>2, Constants, Multiples, Products
      <4> DEFINE x == FloatExact * a
                 y == FloatExact * b
      <4>5. x \in Int /\ y \in Int /\ f \in Int /\ f < x /\ x <= y /\ y <= f
        BY <1>3, <4>3, <4>4 DEF f
      <4> HIDE DEF x, y
      <4> QED  BY <4>5
    <3> QED  BY <1>1, <1>2, <2>2, <3>1, Pow2Grows DEF f
  <2> QED  BY <2>3, <2>4
<1>6. ASSUME FloatExact <= h PROVE 2 * Gap(h) <= h
  <2>1. j # 0
    BY <1>1, <1>2, <1>6, Pow2Next
  <2> DEFINE p == Pow2[j - 1]
  <2>2. p \in Nat /\ Gap(h) = 2 * p /\ FloatExact * p <= h
    BY <1>2, <2>1, Constants
  <2> HIDE DEF p
  <2>3. FloatExact >= 4
    BY AdapterAssumption
  <2>4. 4 * p <= FloatExact * p /\ FloatExact * p \in Int
    <3>1. \A x \in Int, y \in Int : x <= y => x * p <= y * p
      <4>1. p = 0 => \A x \in Int : x * p = 0
        OBVIOUS
      <4> QED  BY <2>2, <4>1, Multiples
    <3> QED  BY <1>1, <2>2, <2>3, <3>1, Products
  <2> QED  BY <2>2, <2>4
<1> QED  BY <1>2, <1>5, <1>6

(***************************************************************************)
(* What a whole JSON number is written as.                                 *)
(***************************************************************************)

\* A number whose float64 is positive is positive.
LEMMA FloatSign ==
    ASSUME NEW h \in Int, Below(h, Width + 1), Float(h) > 0
    PROVE  h >= 0
<1> SUFFICES ASSUME h < 0 PROVE FALSE
  OBVIOUS
<1>1. Width + 1 \in 0 .. (Width + 1)
  BY Constants
<1>2. Gap(h) \in Nat \ {0} /\ Float(h) \in Int /\ 2 * (Float(h) - h) <= Gap(h) /\ 2 * (h - Float(h)) <= Gap(h)
  BY <1>1, FloatIs
<1>3. PICK k \in Int : Float(h) = k * Gap(h)
  <2>1. PICK i \in 0 .. (Width + 1) : Gap(h) = Pow2[i] /\ \E k \in Int : Float(h) = k * Pow2[i]
    BY <1>1, FloatIs
  <2> QED  BY <2>1
<1> DEFINE g == Gap(h)
<1>4. g \in Nat \ {0} /\ 2 * (k * g - h) <= g /\ 2 * (h - k * g) <= g /\ 0 \in Int
  BY <1>2, <1>3
<1> HIDE DEF g
<1>5. 0 * g = 0
  BY <1>4
<1>6. k * g <= 0 * g
  <2>1. h <= 0 * g
    BY <1>5
  <2> QED  BY <1>4, <2>1, NearMultiple
<1> QED  BY <1>2, <1>3, <1>5, <1>6 DEF g

\* Sizes that leave room.
LEMMA RoomIs ==
    /\ Pow2[Width] \in Nat \ {0} /\ Pow2[Width + 1] = 2 * Pow2[Width]
    /\ FloatExact \in Nat /\ FloatExact >= 4
    /\ \A h \in Nat : h < FloatExact * Pow2[Width] => Below(h, Width)
    /\ \A h \in Nat : h < 8 * Pow2[Width] => Below(h, Width + 1)
    /\ \A h \in Nat : h < 4 * Pow2[Width] => Below(h, Width)
<1>1. Width \in Nat /\ Pow2[Width] \in Nat \ {0} /\ Pow2[Width + 1] = 2 * Pow2[Width]
  BY Constants, Pow2Next
<1>2. FloatExact \in Nat /\ FloatExact >= 4
  BY AdapterAssumption
<1> DEFINE p == Pow2[Width]
           F == FloatExact
<1>3. 4 * p <= F * p /\ F * p \in Nat
  <2> HIDE DEF p, F
  <2>1. p \in Nat \ {0} /\ F \in Nat /\ 4 <= F
    BY <1>1, <1>2 DEF p, F
  <2>2. 4 * p <= F * p
    BY <2>1, Multiples
  <2>3. F * p \in Int /\ 4 * p \in Nat
    BY <2>1
  <2> QED  BY <2>2, <2>3
<1>4. F * Pow2[Width + 1] = 2 * (F * p)
  <2> HIDE DEF F, p
  <2>1. F \in Nat /\ p \in Nat
    BY <1>1, <1>2 DEF F, p
  <2>2. F * (2 * p) = 2 * (F * p)
    BY <2>1
  <2> QED  BY <1>1, <2>2 DEF p
<1>5. \A h \in Nat : Size(h) = h
  BY DEF Size
<1> DEFINE x == F * p
<1>6. x \in Nat /\ 4 * p <= x /\ p \in Nat
  BY <1>1, <1>3
<1>7. \A h \in Nat : (h < x => Below(h, Width)) /\ (h < 2 * x => Below(h, Width + 1))
  BY <1>4, <1>5 DEF Below
<1> HIDE DEF x, p
<1>8. \A h \in Nat : (h < 4 * p => h < x) /\ (h < 8 * p => h < 2 * x)
  BY <1>6
<1> QED  BY <1>1, <1>2, <1>7, <1>8 DEF x, p

\* A number whose float64 is a whole number not 0.
Wrote(h, x) ==
    /\ FormatFloat(Float(h)) = Decimal(2 * x)
    /\ Float(2 * x) = Float(h) /\ x \in Nat /\ 2 * x < 4 * Pow2[Width]
    /\ \/ x = Float(h) \div 2
       \/ \E m \in Nat : /\ Float(2 * m) = Float(h) /\ 2 * m < 4 * Pow2[Width]
                         /\ Zeros(m) > Zeros(Float(h) \div 2)

\* The float64 of a positive number that is a word when halved.
LEMMA FloatHigh ==
    ASSUME NEW h \in Nat, h > 0, h < Pow2[Width]
    PROVE  /\ Float(h) \in Nat /\ Float(h) > 0 /\ Float(Float(h)) = Float(h)
           /\ Gap(h) \in Nat \ {0} /\ 2 * (Float(h) - h) <= Gap(h) /\ 2 * (h - Float(h)) <= Gap(h)
           /\ 2 * Float(h) <= 3 * h
           /\ Gap(Float(h)) \in Nat \ {0} /\ (Gap(Float(h)) = 1 \/ 2 * Gap(Float(h)) <= Float(h))
           /\ Gap(h) <= Gap(Float(h)) /\ Below(h, Width) /\ Below(Float(h), Width)
<1>1. Below(h, Width) /\ Width \in 0 .. (Width + 1) /\ Width \in 0 .. Width
  BY RoomIs, Constants
<1>2. /\ Gap(h) \in Nat \ {0} /\ Float(h) \in Nat
      /\ 2 * (Float(h) - h) <= Gap(h) /\ 2 * (h - Float(h)) <= Gap(h) /\ Float(Float(h)) = Float(h)
  BY <1>1, FloatIs, FloatTwice
<1>3. \A k \in Nat : k > 0 /\ Below(k, Width) => (Gap(k) = 1 \/ 2 * Gap(k) <= k) /\ Gap(k) \in Nat \ {0}
  <2> SUFFICES ASSUME NEW k \in Nat, k > 0, Below(k, Width)
               PROVE  (Gap(k) = 1 \/ 2 * Gap(k) <= k) /\ Gap(k) \in Nat \ {0}
    OBVIOUS
  <2>1. Gap(k) \in Nat \ {0} /\ (FloatExact <= k => 2 * Gap(k) <= k)
    BY GapKept
  <2>2. CASE FloatExact <= k
    BY <2>1, <2>2
  <2>3. CASE k < FloatExact
    <3>1. Below(k, 0) /\ 0 \in 0 .. (Width + 1) /\ Pow2[0] = 1
      BY <2>3, RoomIs, Constants, Pow2Next DEF Below, Size
    <3>2. PICK i \in 0 .. 0 : Gap(k) = Pow2[i]
      BY <3>1, GapIs
    <3>3. Gap(k) = 1
      BY <3>1, <3>2
    <3> QED  BY <3>3
  <2> QED  BY <2>2, <2>3, RoomIs
<1>4. Gap(h) <= h
  <2>1. (Gap(h) = 1 \/ 2 * Gap(h) <= h) /\ Gap(h) \in Nat \ {0}
    BY <1>1, <1>3
  <2> QED  BY <2>1
<1>5. 2 * Float(h) <= 3 * h /\ Float(h) > 0
  BY <1>2, <1>4
<1>6. Below(Float(h), Width)
  BY <1>2, <1>5, RoomIs
<1>7. Gap(h) <= Gap(Float(h))
  BY <1>1, GapKept
<1> QED  BY <1>1, <1>2, <1>3, <1>5, <1>6, <1>7

\* A positive whole number is written as some whole number of the same float64.
LEMMA WholeWritten ==
    ASSUME NEW h \in Sizes, h \in Nat, h > 0, h % 2 = 0, h < Pow2[Width]
    PROVE  \E x \in Nat : Wrote(h, x)
<1> DEFINE f == Float(h)
<1>1. f \in Nat /\ f > 0 /\ Float(f) = f /\ f % 2 = 0 /\ Gap(f) \in Nat \ {0}
      /\ (Gap(f) = 1 \/ 2 * Gap(f) <= f) /\ 2 * f <= 3 * h
  BY FloatHigh, FloatWhole
<1> HIDE DEF f
<1> DEFINE same == {n \in (f \div 2) - Gap(f) .. (f \div 2) + Gap(f) : Float(2 * n) = f}
           roundest == {n \in same : \A m \in same : Zeros(m) <= Zeros(n)}
<1>2. FormatFloat(f) = IF f % 2 = 1 THEN Decimal(f)
                       ELSE IF f \div 2 \in roundest THEN Decimal(f)
                       ELSE Decimal(2 * (CHOOSE n \in roundest : TRUE))
  BY DEF FormatFloat
<1>3. f \div 2 \in Nat /\ 2 * (f \div 2) = f
  BY <1>1
<1>4. f \div 2 \in same
  BY <1>1, <1>3
<1>5. ASSUME NEW n \in same PROVE n \in Nat /\ Float(2 * n) = f /\ 2 * n < 4 * Pow2[Width]
  <2> DEFINE g == Gap(f)
             q == f \div 2
             p == Pow2[Width]
  <2>1. n \in Int /\ n <= q + g /\ q - g <= n /\ g \in Nat /\ (g = 1 \/ 2 * g <= f) /\ q \in Nat /\ 2 * q = f /\ 2 * f <= 3 * h
        /\ h < p /\ p \in Nat /\ Float(2 * n) = f
    BY <1>1, <1>3, RoomIs
  <2> HIDE DEF g, q, p, same
  <2>2. 2 * n < 4 * p /\ 2 * n \in Int /\ -(2 * n) < 4 * p /\ 4 * p <= 8 * p
    BY <2>1
  <2>3. Below(2 * n, Width + 1)
    <3>1. 2 * n \in Nat => Below(2 * n, Width + 1)
      BY <2>2, RoomIs DEF p
    <3>2. -(2 * n) \in Nat => Below(-(2 * n), Width + 1)
      BY <2>2, RoomIs DEF p
    <3>3. Size(-(2 * n)) = Size(2 * n)
      BY <2>2 DEF Size
    <3> QED  BY <2>2, <3>1, <3>2, <3>3 DEF Below
  <2>4. 2 * n >= 0
    BY <1>1, <2>1, <2>2, <2>3, FloatSign
  <2> QED  BY <2>1, <2>2, <2>4 DEF p
<1>6. CASE f \div 2 \in roundest
  <2> DEFINE x == f \div 2
  <2>1. FormatFloat(f) = Decimal(2 * x)
    BY <1>1, <1>2, <1>3, <1>6
  <2>2. x \in Nat /\ Float(2 * x) = f /\ 2 * x < 4 * Pow2[Width]
    BY <1>4, <1>5
  <2> QED  BY <2>1, <2>2 DEF Wrote, f
<1>7. CASE f \div 2 \notin roundest
  <2> HIDE DEF same
  <2>1. \E n \in same : \A m \in same : Zeros(m) <= Zeros(n)
    BY <1>4, SomeRoundest
  <2> DEFINE x == CHOOSE n \in roundest : TRUE
  <2>2. x \in roundest
    BY <2>1
  <2>3. x \in Nat /\ Float(2 * x) = f /\ 2 * x < 4 * Pow2[Width]
    BY <1>5, <2>2
  <2>4. FormatFloat(f) = Decimal(2 * x)
    BY <1>1, <1>2, <1>7
  <2>5. \E m \in same : ~ (Zeros(m) <= Zeros(f \div 2))
    BY <1>4, <1>7
  <2>6. \E m \in Nat : Float(2 * m) = f /\ 2 * m < 4 * Pow2[Width] /\ Zeros(m) > Zeros(f \div 2)
    <3>1. PICK m \in same : ~ (Zeros(m) <= Zeros(f \div 2))
      BY <2>5
    <3>2. m \in Nat /\ Float(2 * m) = f /\ 2 * m < 4 * Pow2[Width]
      BY <1>5
    <3>3. Zeros(m) \in Nat /\ Zeros(f \div 2) \in Nat
      BY ZerosBound
    <3> QED  BY <3>1, <3>2, <3>3
  <2> HIDE DEF x
  <2> QED  BY <2>3, <2>4, <2>6 DEF Wrote, f
<1> QED  BY <1>6, <1>7

\* An even number a little beyond those that are exact is a float64 too.
LEMMA FloatBeyond == Float(2 * FloatExact + 4) = 2 * FloatExact + 4
<1> DEFINE F == FloatExact
           h == 2 * F + 4
<1>1. F \in Nat /\ F % 4 = 0 /\ F >= 4
  BY AdapterAssumption
<1>2. Pow2[0] = 1 /\ Pow2[1] = 2 /\ Pow2[2] = 4
  <2>1. Pow2[0 + 1] = 2 * Pow2[0] /\ Pow2[1 + 1] = 2 * Pow2[1] /\ 0 + 1 = 1 /\ 1 + 1 = 2
    BY Pow2Next
  <2> QED  BY <2>1, Pow2Next
<1>3. h \in Int /\ Size(h) = h /\ 2 \in 0 .. (Width + 1) /\ 2 \in Nat
  BY <1>1, Constants DEF Size
<1>4. Below(h, 2)
  BY <1>1, <1>2, <1>3 DEF Below
<1>5. \E k \in Int : h = k * Pow2[2]
  <2> DEFINE k == (F \div 2) + 1
  <2>1. k \in Int /\ h = k * 4
    BY <1>1
  <2> QED  BY <1>2, <2>1
<1>6. PICK j \in 0 .. 2 : Gap(h) = Pow2[j]
  BY <1>3, <1>4, GapIs
<1>7. \E l \in Int : h = l * Pow2[j]
  <2> HIDE DEF h
  <2>1. PICK k \in Int : h = k * Pow2[2]
    BY <1>5
  <2>2. \E l \in Int : k * Pow2[2] = l * Pow2[j]
    BY <1>3, MultipleOf
  <2> QED  BY <2>1, <2>2
<1> HIDE DEF h
<1>8. Float(h) = h
  BY <1>3, <1>4, <1>6, <1>7, FloatIs
<1> QED  BY <1>8 DEF h

\* The first number that is too great for a signed word is a float64.
LEMMA FloatPower == Float(Pow2[Width]) = Pow2[Width]
<1> DEFINE h == Pow2[Width]
<1>1. h \in Int /\ h \in Nat /\ Width \in 0 .. (Width + 1) /\ Width \in Nat
  BY RoomIs, Constants
<1>2. Below(h, Width)
  BY <1>1, RoomIs
<1>3. PICK j \in 0 .. Width : Gap(h) = Pow2[j]
  BY <1>1, <1>2, GapIs
<1>4. \E l \in Int : h = l * Pow2[j]
  <2> DEFINE k == 1
  <2>1. h = k * Pow2[Width] /\ k \in Int
    BY <1>1
  <2> HIDE DEF k, h
  <2>2. \E l \in Int : k * Pow2[Width] = l * Pow2[j]
    BY <1>1, <2>1, MultipleOf
  <2> QED  BY <2>1, <2>2
<1> HIDE DEF h
<1>5. Float(h) = h
  BY <1>1, <1>2, <1>3, <1>4, FloatIs
<1> QED  BY <1>5 DEF h

\* A number that is not 0 and that a float64 holds is written as it is.
LEMMA WroteExactly ==
    ASSUME NEW e \in Nat, e > 0, e <= FloatExact, 2 * e < Pow2[Width],
           NEW x, Wrote(2 * e, x)
    PROVE  x = e
<1> DEFINE F == FloatExact
           h == 2 * e
<1>1. F \in Nat /\ F % 4 = 0 /\ F >= 4
  BY AdapterAssumption
<1>2. Float(h) = h
  BY FloatExactly
<1>3. h \div 2 = e
  OBVIOUS
<1>4. CASE x = Float(h) \div 2
  BY <1>2, <1>3, <1>4
<1>5. ASSUME NEW m \in Nat, Float(2 * m) = h, 2 * m < 4 * Pow2[Width], Zeros(m) > Zeros(e)
      PROVE  FALSE
  <2>1. CASE m <= F
    <3>1. Float(2 * m) = 2 * m
      BY <2>1, FloatExactly
    <3>2. m = e
      BY <1>5, <3>1
    <3>3. Zeros(e) \in Nat
      BY ZerosBound
    <3> QED  BY <1>5, <3>2, <3>3
  <2>2. CASE m = F + 1
    <3> DEFINE D == {d \in {10, 100, 1000} : m % d = 0}
    <3>1. \A d \in {10, 100, 1000} : m % d # 0
      BY <1>1, <2>2
    <3>2. D = {}
      BY <3>1
    <3>3. Zeros(m) = Cardinality(D)
      BY DEF Zeros
    <3>4. Zeros(m) = 0
      BY <3>2, <3>3, FS_EmptySet
    <3>5. Zeros(e) \in Nat
      BY ZerosBound
    <3> QED  BY <1>5, <3>4, <3>5
  <2>3. CASE m >= F + 2
    <3> DEFINE a == 2 * F + 4
               b == 2 * m
    <3>1. a \in Nat /\ b \in Nat /\ a <= b
      BY <1>1, <2>3
    <3>2. Below(b, Width + 1)
      <4>1. b < 8 * Pow2[Width]
        BY <1>5, RoomIs
      <4> QED  BY <3>1, <4>1, RoomIs
    <3>3. Float(a) = a /\ Float(b) = h
      BY <1>5, FloatBeyond
    <3> HIDE DEF a, b
    <3>4. Float(a) <= Float(b)
      BY <3>1, <3>2, FloatGrows
    <3> QED  BY <1>1, <3>3, <3>4 DEF a
  <2> QED  BY <1>1, <2>1, <2>2, <2>3
<1>6. ASSUME \E m \in Nat : /\ Float(2 * m) = h /\ 2 * m < 4 * Pow2[Width]
                            /\ Zeros(m) > Zeros(Float(h) \div 2)
      PROVE  FALSE
  BY <1>2, <1>3, <1>5, <1>6
<1> QED  BY <1>2, <1>4, <1>6 DEF Wrote

\* One that it does not hold is written as a number near it.
LEMMA WroteNear ==
    ASSUME NEW e \in Nat, e > FloatExact, 2 * e < Pow2[Width], NEW x, Wrote(2 * e, x)
    PROVE  LET f == Float(2 * e)
           IN  /\ Gap(f) \in Nat /\ 2 * x - 2 * e <= Gap(f) /\ 2 * e - 2 * x <= Gap(f)
               /\ x <= 2 * e /\ x >= FloatExact
<1> DEFINE h == 2 * e
           f == Float(h)
           y == 2 * x
           g == Gap(f)
<1>1. /\ FloatExact \in Nat /\ FloatExact >= 4
      /\ x \in Nat /\ y \in Nat /\ h \in Nat /\ h > 0 /\ y < 4 * Pow2[Width] /\ Float(y) = f
  BY RoomIs DEF Wrote
<1>2. /\ f \in Nat /\ f > 0 /\ Gap(h) \in Nat /\ 2 * (f - h) <= Gap(h) /\ 2 * (h - f) <= Gap(h)
      /\ 2 * f <= 3 * h /\ g \in Nat \ {0} /\ (g = 1 \/ 2 * g <= f) /\ Gap(h) <= g
      /\ Below(h, Width)
  BY <1>1, FloatHigh
<1>3. Below(y, Width)
  BY <1>1, RoomIs
<1>4. Gap(y) \in Nat /\ 2 * (f - y) <= Gap(y) /\ 2 * (y - f) <= Gap(y) /\ Gap(y) <= g
  <2>1. Width \in 0 .. (Width + 1) /\ y \in Int
    BY <1>1, Constants
  <2> HIDE DEF y
  <2>2. Gap(y) \in Nat /\ 2 * (Float(y) - y) <= Gap(y) /\ 2 * (y - Float(y)) <= Gap(y)
    BY <1>3, <2>1, FloatIs
  <2>3. Gap(y) <= Gap(Float(y))
    BY <1>1, <1>3, GapKept
  <2> QED  BY <1>1, <2>2, <2>3
<1>5. x >= FloatExact
  <2> SUFFICES ASSUME x < FloatExact PROVE FALSE
    BY <1>1
  <2>1. Float(y) = y
    BY <1>1, FloatExactly
  <2> DEFINE k == 2 * FloatExact
  <2>2. Float(k) = k /\ k \in Nat /\ k <= h
    BY <1>1, FloatExactly
  <2>3. Below(h, Width + 1)
    BY <1>1, RoomIs
  <2>4. Float(k) <= Float(h)
    <3> HIDE DEF k, h
    <3> QED  BY <1>1, <2>2, <2>3, FloatGrows
  <2> QED  BY <1>1, <2>1, <2>2, <2>4
<1>6. y - h <= g /\ h - y <= g
  <2> HIDE DEF y, h, f, g
  <2> QED  BY <1>1, <1>2, <1>4
<1>7. x <= 2 * e
  <2> HIDE DEF f, g
  <2> QED  BY <1>1, <1>2, <1>6
<1> QED  BY <1>2, <1>5, <1>6, <1>7

\* On which side of a float64 it is.
LEMMA WroteSide ==
    ASSUME NEW h \in Nat, h > 0, h < Pow2[Width], NEW x, Wrote(h, x),
           NEW b \in Nat, Float(b) = b, b <= Pow2[Width]
    PROVE  /\ Float(h) < b => 2 * x < b
           /\ Float(h) > b => 2 * x > b
           /\ b <= h => b <= Float(h)
<1>1. x \in Nat /\ 2 * x \in Nat /\ 2 * x < 4 * Pow2[Width] /\ Float(2 * x) = Float(h)
  BY DEF Wrote
<1>2. Below(2 * x, Width + 1) /\ Below(b, Width + 1) /\ Below(h, Width + 1)
  BY <1>1, RoomIs
<1>3. Float(h) \in Nat
  BY FloatHigh
<1>4. b <= 2 * x => b <= Float(h)
  BY <1>1, <1>2, FloatGrows
<1>5. 2 * x <= b => Float(h) <= b
  BY <1>1, <1>2, FloatGrows
<1>6. b <= h => b <= Float(h)
  BY <1>2, FloatGrows
<1> QED  BY <1>1, <1>3, <1>4, <1>5, <1>6

(***************************************************************************)
(* The unit of an epoch.                                                   *)
(***************************************************************************)

\* The numbers that are taken to be in each unit.
InBand(n, u) ==
    \/ u = Kilo * Kilo * Kilo /\ n < MaxSeconds
    \/ u = Kilo * Kilo /\ MaxSeconds <= n /\ n < MaxSeconds * Kilo
    \/ u = Kilo /\ MaxSeconds * Kilo <= n /\ n < MaxSeconds * Kilo * Kilo
    \/ u = 1 /\ MaxSeconds * Kilo * Kilo <= n

\* The thresholds.
LEMMA ThresholdsAre ==
    LET M == MaxSeconds
        K == Kilo
    IN  /\ M \in Nat /\ K \in Nat \ {0} /\ M * K \in Nat /\ (M * K) * K \in Nat /\ ((M * K) * K) * K \in Nat
        /\ K * K \in Nat \ {0} /\ (K * K) * K \in Nat \ {0}
        /\ M <= M * K /\ M * K <= (M * K) * K
        /\ (M * K) * K < Pow2[Width - 1] /\ Pow2[Width] <= ((M * K) * K) * K
        /\ M * K <= FloatExact /\ (M * K) * K > 0
<1> DEFINE M == MaxSeconds
           K == Kilo
<1>1. M \in Nat /\ K \in Nat \ {0} /\ (M * K) * K < Pow2[Width - 1] /\ Pow2[Width] <= ((M * K) * K) * K
      /\ M * K <= FloatExact
  BY AdapterAssumption
<1>2. Pow2[Width] \in Nat \ {0}
  BY WordsOf
<1> HIDE DEF M, K
<1>3. \A a \in Nat : a * K \in Nat /\ a <= a * K
  BY <1>1
<1>4. M * K \in Nat /\ (M * K) * K \in Nat /\ ((M * K) * K) * K \in Nat /\ M <= M * K /\ M * K <= (M * K) * K
  BY <1>1, <1>3
<1>5. \A a \in Nat \ {0} : a * K \in Nat \ {0}
  BY <1>1
<1>6. K * K \in Nat \ {0} /\ (K * K) * K \in Nat \ {0}
  BY <1>1, <1>5
<1>7. (M * K) * K > 0
  <2> SUFFICES ASSUME (M * K) * K = 0 PROVE FALSE
    BY <1>4
  <2>1. ((M * K) * K) * K = 0
    BY <1>1
  <2> QED  BY <1>1, <1>2, <2>1
<1> QED  BY <1>1, <1>4, <1>6, <1>7 DEF M, K

\* A number that is in the band of its unit gives the instant.
LEMMA BandDecides ==
    ASSUME NEW n \in Nat, NEW u \in Units, InBand(n, u), n * u < Pow2[Width]
    PROVE  epochToNanos(n) = n * u
<1> DEFINE M == MaxSeconds
           K == Kilo
           a == M * K
           b == a * K
<1>1. M \in Nat /\ K \in Nat \ {0} /\ a \in Nat /\ b \in Nat /\ M <= a /\ a <= b /\ K * K \in Nat
  BY ThresholdsAre
<1>2. epochToNanos(n) = ToWord(IF n < M THEN ((n * K) * K) * K
                               ELSE IF n < a THEN (n * K) * K
                               ELSE IF n < b THEN n * K
                               ELSE n)
  BY DEF epochToNanos
<1>3. \/ u = (K * K) * K /\ n < M
      \/ u = K * K /\ M <= n /\ n < a
      \/ u = K /\ a <= n /\ n < b
      \/ u = 1 /\ b <= n
  BY DEF InBand
<1> HIDE DEF M, K, a, b
<1>4. n * (K * K) = (n * K) * K /\ n * ((K * K) * K) = (n * (K * K)) * K /\ n * 1 = n
  BY <1>1, Products
<1>5. u \in Nat
  BY ThresholdsAre DEF Units
<1>6. n * u \in Nat
  BY <1>5
<1>7. epochToNanos(n) = ToWord(n * u)
  <2>1. CASE u = (K * K) * K /\ n < M
    BY <1>2, <1>4, <2>1
  <2>2. CASE u = K * K /\ M <= n /\ n < a
    <3>1. ~ (n < M)
      BY <1>1, <2>2
    <3> QED  BY <1>2, <1>4, <2>2, <3>1
  <2>3. CASE u = K /\ a <= n /\ n < b
    <3>1. ~ (n < M) /\ ~ (n < a)
      BY <1>1, <2>3
    <3> QED  BY <1>2, <2>3, <3>1
  <2>4. CASE u = 1 /\ b <= n
    <3>1. ~ (n < M) /\ ~ (n < a) /\ ~ (n < b)
      BY <1>1, <2>4
    <3> QED  BY <1>2, <1>4, <2>4, <3>1
  <2> QED  BY <1>3, <2>1, <2>2, <2>3, <2>4
<1> DEFINE x == n * u
           p == Pow2[Width]
<1>8. x \in Nat /\ p \in Nat \ {0} /\ x < p
  BY <1>6, WordsOf
<1>9. ToWord(x) = x % p
  BY DEF ToWord
<1> HIDE DEF x, p
<1>10. x % p = x
  BY <1>8
<1> QED  BY <1>7, <1>9, <1>10 DEF x

\* A common factor does not change an order.
LEMMA CommonFactor ==
    ASSUME NEW a \in Nat, NEW b \in Nat, NEW g \in Nat \ {0}
    PROVE  (a * g <= b * g => a <= b) /\ (a * g < b * g => a < b) /\ (a <= b => a * g <= b * g)
  BY Multiples

\* A time between the two ends is in the band of its unit.
LEMMA BandOf ==
    ASSUME NEW e \in Int, NEW u \in Units, FirstInstant <= e * u, e * u < Pow2[Width - 1]
    PROVE  e \in Nat /\ e > 0 /\ e <= e * u /\ InBand(e, u) /\ u \in Nat \ {0}
<1> DEFINE M == MaxSeconds
           K == Kilo
           a == M * K
           b == a * K
           c == b * K
<1>1. /\ M \in Nat /\ K \in Nat \ {0} /\ a \in Nat /\ b \in Nat /\ c \in Nat
      /\ K * K \in Nat \ {0} /\ (K * K) * K \in Nat \ {0} /\ b > 0 /\ Pow2[Width] <= c
  BY ThresholdsAre
<1>2. Pow2[Width] = 2 * Pow2[Width - 1] /\ Pow2[Width - 1] \in Nat \ {0}
  BY WordsOf
<1>3. b <= e * u /\ u \in {1, K, K * K, (K * K) * K}
  BY DEF FirstInstant, Units
<1> HIDE DEF M, K, a, b, c
<1>4. u \in Nat \ {0}
  BY <1>1, <1>3
<1>5. e \in Nat /\ e > 0 /\ e * u \in Nat /\ e <= e * u
  <2>1. e * u \in Int /\ e * u > 0
    BY <1>1, <1>3, <1>4
  <2>2. e > 0
    BY <1>4, <2>1
  <2>3. e <= e * u
    BY <1>4, <2>2
  <2> QED  BY <2>1, <2>2, <2>3
<1>6. b <= e * u /\ e * u < c
  BY <1>1, <1>2, <1>3, <1>5
<1>7. b = M * (K * K) /\ c = M * ((K * K) * K) /\ c = a * (K * K) /\ b = a * K /\ c = b * K /\ e * 1 = e
  BY <1>1, <1>5, Products DEF a, b, c
<1>8. CASE u = (K * K) * K
  <2>1. e * u < M * u
    BY <1>6, <1>7, <1>8
  <2>2. e < M
    BY <1>1, <1>4, <1>5, <2>1, CommonFactor
  <2> QED  BY <1>4, <1>5, <1>8, <2>2 DEF InBand, M, K
<1>9. CASE u = K * K
  <2>1. e * u < a * u /\ M * u <= e * u
    BY <1>6, <1>7, <1>9
  <2>2. e < a /\ M <= e
    BY <1>1, <1>4, <1>5, <2>1, CommonFactor
  <2> QED  BY <1>4, <1>5, <1>9, <2>2 DEF InBand, M, K, a
<1>10. CASE u = K
  <2>1. e * u < b * u /\ a * u <= e * u
    BY <1>6, <1>7, <1>10
  <2>2. e < b /\ a <= e
    BY <1>1, <1>4, <1>5, <2>1, CommonFactor
  <2> QED  BY <1>4, <1>5, <1>10, <2>2 DEF InBand, M, K, a, b
<1>11. CASE u = 1
  <2>1. b <= e
    BY <1>6, <1>7, <1>11
  <2> QED  BY <1>4, <1>5, <1>11, <2>1 DEF InBand, M, K, a, b
<1> QED  BY <1>3, <1>8, <1>9, <1>10, <1>11

\* A time of a JSON number that a float64 does not hold is read in its unit.
LEMMA WroteBand ==
    ASSUME NEW e \in Nat, NEW u \in Units, e > FloatExact, 2 * e < Pow2[Width],
           FirstInstant <= e * u, e * u <= MaxInt - Gap(2 * e),
           NEW x, Wrote(2 * e, x)
    PROVE  x \in Nat /\ InInt(x) /\ epochToNanos(x) = x * u
<1> DEFINE h == 2 * e
           f == Float(h)
           P == Pow2[Width - 1]
           T == (MaxSeconds * Kilo) * Kilo
           t == 2 * T
           g == Gap(h)
<1>0. g \in Nat
  <2>1. h \in Nat /\ h > 0
    BY Constants
  <2> QED  BY <2>1, FloatHigh
<1>1. P \in Nat \ {0} /\ Pow2[Width] = 2 * P /\ MaxInt = P - 1
  BY WordsOf DEF MaxInt
<1>2. /\ MaxSeconds * Kilo \in Nat /\ MaxSeconds \in Nat /\ T \in Nat /\ T < P /\ T > 0 /\ Kilo \in Nat \ {0}
      /\ MaxSeconds <= MaxSeconds * Kilo /\ MaxSeconds * Kilo <= FloatExact
  BY ThresholdsAre
<1>3. e * u < P
  <2>1. u \in Nat
    BY ThresholdsAre DEF Units
  <2> DEFINE i == e * u
  <2>2. i \in Nat /\ i <= MaxInt - g
    BY <2>1
  <2> HIDE DEF i, g, P
  <2>3. i < P
    BY <1>0, <1>1, <2>2
  <2> QED  BY <2>3 DEF i
<1>4. e > 0 /\ e <= e * u /\ InBand(e, u) /\ u \in Nat \ {0} /\ e * u \in Nat
  BY <1>3, BandOf
<1>5. x \in Nat /\ FormatFloat(f) = Decimal(2 * x)
  BY DEF Wrote
<1>6. x >= FloatExact /\ x <= 2 * e /\ FloatExact \in Nat
  BY WroteNear, Constants
<1>7. f \in Nat /\ 2 * (f - h) <= Gap(h) /\ 2 * f <= 3 * h /\ Gap(h) \in Nat
  <2>1. h > 0 /\ h \in Nat
    BY <1>4
  <2> QED  BY <2>1, FloatHigh
<1>8. InInt(x)
  <2> DEFINE p == Pow2[Width]
  <2>1. p \in Nat /\ Float(p) = p /\ p = 2 * P
    BY <1>1, FloatPower
  <2>2. f < p
    <3> DEFINE i == e * u
    <3>1. e <= i /\ i <= P - 1 - Gap(h) /\ i \in Nat
      BY <1>1, <1>4
    <3> HIDE DEF f, P, p, i
    <3>2. 2 * f <= 2 * h + Gap(h) /\ h = 2 * e
      BY <1>7
    <3> HIDE DEF h
    <3> QED  BY <1>1, <1>7, <2>1, <3>1, <3>2
  <2>3. 2 * x < p
    <3>1. h > 0 /\ h \in Nat /\ h < Pow2[Width]
      BY <1>4
    <3> HIDE DEF h
    <3> QED  BY <2>1, <2>2, <3>1, WroteSide DEF h
  <2> HIDE DEF P, p
  <2> QED  BY <1>1, <1>5, <2>1, <2>3 DEF InInt
<1>9. t \in Nat /\ Float(t) = t /\ FormatFloat(t) = Decimal(t) /\ t <= Pow2[Width]
  <2>1. Float(t) = t /\ FormatFloat(t) = Decimal(t)
    BY ThresholdAssumption
  <2> HIDE DEF T, P
  <2> QED  BY <1>1, <1>2, <2>1
<1>10. (f < t => x < T) /\ (f > t => x > T) /\ (t <= h => t <= f)
  <2>1. h > 0 /\ h \in Nat /\ h < Pow2[Width]
    BY <1>4
  <2>2. (f < t => 2 * x < t) /\ (f > t => 2 * x > t) /\ (t <= h => t <= f)
    <3> HIDE DEF t, h
    <3> QED  BY <1>9, <2>1, WroteSide DEF h
  <2> HIDE DEF T, f, h
  <2> QED  BY <1>2, <1>5, <2>2
<1>11. InBand(x, u)
  <2>1. \/ u = Kilo * Kilo * Kilo /\ e < MaxSeconds
        \/ u = Kilo * Kilo /\ MaxSeconds <= e /\ e < MaxSeconds * Kilo
        \/ u = Kilo /\ MaxSeconds * Kilo <= e /\ e < T
        \/ u = 1 /\ T <= e
    BY <1>4 DEF InBand
  <2>2. ~ (e < MaxSeconds) /\ ~ (e < MaxSeconds * Kilo)
    BY <1>2, <1>6
  <2>3. CASE u = Kilo /\ MaxSeconds * Kilo <= e /\ e < T
    <3>1. 2 * e < T
      <4>1. (2 * e) * Kilo < T * Kilo
        <5>1. (2 * e) * Kilo = 2 * (e * Kilo) /\ e * Kilo = e * u
          BY <1>2, <2>3
        <5>2. Pow2[Width] <= T * Kilo /\ T * Kilo \in Nat
          BY ThresholdsAre
        <5> DEFINE i == e * u
                   c == T * Kilo
        <5>3. i \in Nat /\ c \in Nat /\ i < P /\ 2 * P <= c
          BY <1>1, <1>3, <1>4, <5>2
        <5> HIDE DEF i, c, P
        <5>4. 2 * i < c
          BY <1>1, <5>3
        <5> QED  BY <5>1, <5>4 DEF i, c
      <4> HIDE DEF T
      <4>2. 2 * e \in Nat
        OBVIOUS
      <4> QED  BY <1>2, <4>1, <4>2, CommonFactor
    <3>2. f < t
      <4> HIDE DEF f, T
      <4> QED  BY <1>2, <1>7, <3>1
    <3>3. x < T /\ MaxSeconds * Kilo <= x
      BY <1>2, <1>5, <1>6, <1>10, <3>2
    <3> QED  BY <2>3, <3>3 DEF InBand
  <2>4. CASE u = 1 /\ T <= e
    <3>1. t <= f
      BY <1>2, <1>10, <2>4
    <3>2. T <= x
      <4>1. CASE f = t
        <5>1. Decimal(t) = Decimal(2 * x)
          BY <1>5, <1>9, <4>1
        <5>2. t = 2 * x
          BY <5>1, DecimalFields
        <5> HIDE DEF T
        <5> QED  BY <1>2, <1>5, <5>2
      <4>2. CASE f > t
        <5> HIDE DEF T
        <5> QED  BY <1>2, <1>5, <1>10, <4>2
      <4> HIDE DEF f, t
      <4> QED  BY <1>7, <1>9, <3>1, <4>1, <4>2
    <3> QED  BY <2>4, <3>2 DEF InBand
  <2> QED  BY <2>1, <2>2, <2>3, <2>4
<1>12. x * u < Pow2[Width]
  <2>1. (2 * e) * u = 2 * (e * u) /\ 2 * e \in Nat
    BY <1>4
  <2>2. x * u <= (2 * e) * u /\ x * u \in Nat
    BY <1>4, <1>5, <1>6, <2>1, CommonFactor
  <2> DEFINE i == e * u
             j == x * u
  <2>3. j \in Nat /\ i \in Nat /\ j <= 2 * i /\ i < P
    BY <1>3, <1>4, <2>1, <2>2
  <2> HIDE DEF i, j, P
  <2>4. j < 2 * P
    BY <1>1, <2>3
  <2> QED  BY <1>1, <2>4 DEF j
<1>13. epochToNanos(x) = x * u
  BY <1>5, <1>11, <1>12, BandDecides
<1> QED  BY <1>5, <1>8, <1>13

\* The time that is stored for one given as a number in some unit.
TimeKept(v, got) ==
    \A u \in Units :
        LET instant == (v.t.n \div 2) * u
        IN  (/\ v.kind \in {"string", "number"} /\ v.t.k = "dec" /\ v.t.n % 2 = 0
             /\ FirstInstant <= instant /\ instant <= MaxInt - Gap(v.t.n)) =>
                IF v.kind = "string" \/ v.t.n <= 2 * FloatExact
                THEN got = instant
                ELSE 2 * (got - instant) <= Gap(Float(v.t.n)) * u /\ 2 * (instant - got) <= Gap(Float(v.t.n)) * u

\* A factor that is not negative keeps how near two numbers are.
LEMMA NearTimes ==
    ASSUME NEW a \in Nat, NEW b \in Nat, NEW g \in Nat, NEW u \in Nat,
           2 * a - 2 * b <= g, 2 * b - 2 * a <= g
    PROVE  2 * (a * u - b * u) <= g * u /\ 2 * (b * u - a * u) <= g * u
<1>1. \A x \in Int, y \in Int : x <= y => x * u <= y * u
  <2>1. u = 0 => \A x \in Int : x * u = 0
    OBVIOUS
  <2> QED  BY <2>1, Multiples
<1> DEFINE c == 2 * a - 2 * b
           d == 2 * b - 2 * a
<1>2. c \in Int /\ d \in Int /\ c <= g /\ d <= g
  OBVIOUS
<1>3. c * u = 2 * (a * u - b * u) /\ d * u = 2 * (b * u - a * u)
  OBVIOUS
<1> HIDE DEF c, d
<1>4. c * u <= g * u /\ d * u <= g * u
  BY <1>1, <1>2
<1> QED  BY <1>3, <1>4

\* What the time's value is read from, when the line gives it as a number under
\* its first name.
LEMMA TimeRead ==
    ASSUME NEW m, Object(m), NEW k \in DOMAIN m, k # Nothing,
           NEW keys, DOMAIN keys \subseteq Nat \ {0}, 1 \in DOMAIN keys, keys[1] = k
    PROVE  TimeKept(m[k], parseTimeNanos(asString(m, keys)))
<1> DEFINE v == m[k]
           got == parseTimeNanos(asString(m, keys))
<1> SUFFICES ASSUME NEW u \in Units,
                    v.kind \in {"string", "number"}, v.t.k = "dec", v.t.n % 2 = 0,
                    FirstInstant <= (v.t.n \div 2) * u, (v.t.n \div 2) * u <= MaxInt - Gap(v.t.n)
             PROVE  LET instant == (v.t.n \div 2) * u
                    IN  IF v.kind = "string" \/ v.t.n <= 2 * FloatExact
                        THEN got = instant
                        ELSE /\ 2 * (got - instant) <= Gap(Float(v.t.n)) * u
                             /\ 2 * (instant - got) <= Gap(Float(v.t.n)) * u
  BY DEF TimeKept
<1> DEFINE h == v.t.n
           e == h \div 2
           S == {x \in DOMAIN m : m[x].kind \in Textual}
           P == Pow2[Width - 1]
<1>1. v.t \in Texts /\ h \in Sizes /\ h \in Int /\ Below(h, Width) /\ Width \in 0 .. (Width + 1)
  <2>1. v.t \in Texts
    BY DEF Object
  <2> QED  BY <2>1, TextsReadable, SizesBelow, Constants
<1>2. asString(m, keys) = TextOf(v)
  <2>1. keys[1] \in S
    BY DEF Textual
  <2>2. StringKey(m, keys) = FirstKey(keys, S)
    BY DEF StringKey
  <2> HIDE DEF S
  <2>3. StringKey(m, keys) = k
    BY <2>1, <2>2, FirstIsFirst
  <2> QED  BY <2>3 DEF asString, HasString
<1>3. TextOf(v) = IF v.kind = "number" THEN FormatFloat(Float(h)) ELSE v.t
  BY DEF TextOf
<1>4. Gap(h) \in Nat \ {0} /\ P \in Nat \ {0} /\ Pow2[Width] = 2 * P /\ MaxInt = P - 1
  BY <1>1, FloatIs, WordsOf DEF MaxInt
<1>5. u \in Nat \ {0}
  BY ThresholdsAre DEF Units
<1> DEFINE i == e * u
<1>6. e \in Int /\ i \in Int /\ FirstInstant <= i /\ i <= MaxInt - Gap(h) /\ i < P
  <2>1. e \in Int /\ i \in Int
    BY <1>1, <1>5
  <2>2. FirstInstant <= i /\ i <= MaxInt - Gap(h)
    OBVIOUS
  <2> HIDE DEF i, P, h, e
  <2> QED  BY <1>4, <2>1, <2>2
<1>7. e \in Nat /\ e > 0 /\ e <= i /\ InBand(e, u)
  <2> HIDE DEF e
  <2> QED  BY <1>6, BandOf DEF e
<1>8. h = 2 * e
  <2> HIDE DEF h
  <2> QED  BY <1>1 DEF h
<1>9. 2 * e < Pow2[Width] /\ i < Pow2[Width] /\ InInt(e)
  <2> HIDE DEF i, P, e, h
  <2> QED  BY <1>4, <1>6, <1>7 DEF InInt
<1>10. epochToNanos(e) = i
  <2> HIDE DEF e
  <2> QED  BY <1>7, <1>9, BandDecides DEF e
<1>11. \A t : t.k = "dec" /\ t.n % 2 = 0 /\ InInt(t.n \div 2) => parseTimeNanos(t) = epochToNanos(t.n \div 2)
  BY DEF parseTimeNanos, IsInt
<1>12. ASSUME v.kind = "string" PROVE got = i
  <2>1. asString(m, keys) = v.t
    BY <1>2, <1>3, <1>12
  <2>2. parseTimeNanos(v.t) = epochToNanos(e)
    BY <1>9, <1>11
  <2> QED  BY <1>10, <2>1, <2>2
<1>13. ASSUME v.kind = "number"
       PROVE  \E x \in Nat : Wrote(2 * e, x) /\ asString(m, keys) = Decimal(2 * x)
  <2> DEFINE b == 2 * e
  <2>1. b \in Sizes /\ b \in Nat /\ b > 0 /\ b % 2 = 0 /\ b < Pow2[Width]
    <3>1. b \in Nat /\ b > 0 /\ b = h
      BY <1>7, <1>8
    <3> HIDE DEF b, h
    <3> QED  BY <1>1, <1>8, <1>9, <3>1 DEF b, h
  <2>2. asString(m, keys) = FormatFloat(Float(b))
    BY <1>2, <1>3, <1>8, <1>13
  <2> HIDE DEF b
  <2>3. PICK x \in Nat : Wrote(b, x)
    BY <2>1, WholeWritten
  <2>4. asString(m, keys) = Decimal(2 * x)
    BY <2>2, <2>3 DEF Wrote
  <2> QED  BY <2>3, <2>4 DEF b
<1>14. ASSUME NEW x \in Nat, asString(m, keys) = Decimal(2 * x), InInt(x)
       PROVE  got = epochToNanos(x)
  <2> DEFINE t == Decimal(2 * x)
  <2>1. t.k = "dec" /\ t.n = 2 * x
    BY DecimalFields
  <2>2. (2 * x) % 2 = 0 /\ (2 * x) \div 2 = x
    OBVIOUS
  <2> HIDE DEF t
  <2>3. parseTimeNanos(t) = epochToNanos(x)
    BY <1>11, <1>14, <2>1, <2>2
  <2> QED  BY <1>14, <2>3 DEF t
<1> HIDE DEF got, e, v
<1>15. ASSUME v.kind = "number", e <= FloatExact PROVE got = i
  <2>1. PICK x \in Nat : Wrote(2 * e, x) /\ asString(m, keys) = Decimal(2 * x)
    BY <1>13, <1>15
  <2>2. x = e
    BY <1>7, <1>9, <1>15, <2>1, WroteExactly
  <2> QED  BY <1>9, <1>10, <1>14, <2>1, <2>2
<1>16. ASSUME v.kind = "number", e > FloatExact
       PROVE  2 * (got - i) <= Gap(Float(h)) * u /\ 2 * (i - got) <= Gap(Float(h)) * u
  <2>1. PICK x \in Nat : Wrote(2 * e, x) /\ asString(m, keys) = Decimal(2 * x)
    BY <1>13, <1>16
  <2>2. i <= MaxInt - Gap(2 * e) /\ FirstInstant <= i
    BY <1>6, <1>8
  <2>3. InInt(x) /\ epochToNanos(x) = x * u
    BY <1>7, <1>9, <1>16, <2>1, <2>2, WroteBand
  <2>4. got = x * u
    BY <1>14, <2>1, <2>3
  <2> DEFINE g == Gap(Float(2 * e))
  <2>5. g \in Nat /\ 2 * x - 2 * e <= g /\ 2 * e - 2 * x <= g
    BY <1>7, <1>9, <1>16, <2>1, WroteNear
  <2> HIDE DEF g
  <2>6. 2 * (x * u - e * u) <= g * u /\ 2 * (e * u - x * u) <= g * u
    BY <1>5, <1>7, <2>5, NearTimes
  <2> QED  BY <1>8, <2>4, <2>6 DEF g
<1>17. e <= FloatExact <=> h <= 2 * FloatExact
  BY <1>7, <1>8, Constants
<1>18. FloatExact \in Nat
  BY Constants
<1> QED  BY <1>7, <1>12, <1>15, <1>16, <1>17, <1>18 DEF e

\* The unit of an epoch is guessed, and the guess is right: a time between the
\* first threshold and the end of 63 bits of nanoseconds is stored as the same
\* instant in seconds, in each smaller unit, and as a text, up to what a JSON
\* number loses as a float64, for every line (adapter.go:107-109).
THEOREM EpochUnitsAgreeAlways == Spec => []EpochUnitsAgree
<1>1. Init => EpochUnitsAgree
  BY RecordParts DEF Init, EpochUnitsAgree, Decoded
<1>2. LineOfSource /\ EpochUnitsAgree /\ [Next]_vars => EpochUnitsAgree'
  <2> SUFFICES ASSUME LineOfSource, EpochUnitsAgree, [Next]_vars PROVE EpochUnitsAgree'
    OBVIOUS
  <2>1. CASE UNCHANGED vars
    BY <2>1 DEF vars, EpochUnitsAgree, Decoded
  <2>2. CASE Decode
    <3>1. src' = src /\ line' = line
      BY <2>2 DEF Decode
    <3> SUFFICES ASSUME src # "web-access", DOMAIN line.m = {"timestamp"}, Decoded' # <<>>
                 PROVE  TimeKept(line.m["timestamp"], Decoded[1].int')
      BY <3>1 DEF EpochUnitsAgree, TimeKept
    <3>2. src \in {"generic-flow", "honeypot"} /\ result' = DecodeJSON(Fields[src], line) /\ line \in Lines[src]
      BY <2>2 DEF Decode, LineOfSource, Sources
    <3> DEFINE rec == DecodeJSON(Fields[src], line).rec
               n == IF src = "generic-flow" THEN 11 ELSE 10
    <3>3. /\ Object(line.m) /\ DOMAIN Fields[src] = 1 .. n
          /\ rec = [i \in DOMAIN Fields[src] |-> Value(Fields[src][i], line.m)]
      BY <3>2, JSONDecoded DEF Decoded
    <3>4. Decoded' = rec /\ 1 \in DOMAIN Fields[src]
      BY <3>2, <3>3 DEF Decoded
    <3> HIDE DEF rec
    <3> DEFINE f == Fields[src][1]
    <3>5. f.get = "time" /\ DOMAIN f.keys \subseteq Nat \ {0} /\ 1 \in DOMAIN f.keys /\ f.keys[1] = "timestamp"
      <4>1. CASE src = "generic-flow"
        <5>1. FlowFields[1].get = "time" /\ FlowFields[1].keys = <<"timestamp", "ts", "@timestamp">>
          BY FlowKeys, FieldParts DEF FlowFields
        <5> QED  BY <4>1, <5>1, SourceIs
      <4>2. CASE src = "honeypot"
        <5>1. HoneypotFields[1].get = "time"
              /\ HoneypotFields[1].keys = <<"timestamp", "ts", "@timestamp", "eventtime">>
          BY HoneypotKeys, FieldParts DEF HoneypotFields
        <5> QED  BY <4>2, <5>1, SourceIs
      <4> QED  BY <3>2, <4>1, <4>2
    <3>6. rec[1] = Value(f, line.m)
      BY <3>3, <3>4
    <3>7. Value(f, line.m) = IntVal(parseTimeNanos(asString(line.m, f.keys)))
      BY <3>5 DEF Value
    <3>8. Decoded[1].int' = parseTimeNanos(asString(line.m, f.keys))
      BY <3>4, <3>6, <3>7 DEF IntVal
    <3>9. "timestamp" \in DOMAIN line.m /\ "timestamp" # Nothing
      BY DEF Nothing
    <3> HIDE DEF f
    <3> DEFINE m == line.m
               keys == f.keys
               b == "timestamp"
    <3>10. /\ Object(m) /\ b \in DOMAIN m /\ b # Nothing
           /\ DOMAIN keys \subseteq Nat \ {0} /\ 1 \in DOMAIN keys /\ keys[1] = b
      BY <3>3, <3>5, <3>9
    <3>11. TimeKept(m[b], parseTimeNanos(asString(m, keys)))
      <4> HIDE DEF m, keys, b
      <4> QED  BY <3>10, TimeRead
    <3> QED  BY <3>8, <3>11
  <2> QED  BY <2>1, <2>2 DEF Next
<1> QED  BY <1>1, <1>2, LineInvariant, PTL DEF Spec

(***************************************************************************)
(* What a line gives under the names of a column.                          *)
(***************************************************************************)

\* The names a field is looked for under.
Keys(keys) == {keys[a] : a \in DOMAIN keys}

\* A field, its column and the names of that column.
IsNamed(f, c, names) ==
    /\ Keys(f.keys) = names /\ Nothing \notin names
    /\ f.get = "time" <=> c.type = "timestamp"
    /\ c.name = "country" <=> f.get = "country"

\* Each field of generic-flow looks for its column under the names of that column.
LEMMA FlowNamed ==
    \A i \in 1 .. 11 : IsNamed(FlowFields[i], FlowSchema[i], FlowNames[FlowSchema[i].name])
<1>1. IsNamed(FlowFields[1], FlowSchema[1], FlowNames[FlowSchema[1].name])
  <2>1. FlowFields[1].get = "time" /\ FlowFields[1].keys = <<"timestamp", "ts", "@timestamp">>
    BY FieldParts DEF FlowFields
  <2>2. FlowSchema[1].name = "timestamp" /\ FlowSchema[1].type = "timestamp"
    BY ColumnParts DEF FlowSchema
  <2>3. FlowNames["timestamp"] = {"timestamp", "ts", "@timestamp"}
    BY DEF FlowNames
  <2>4. Keys(<<"timestamp", "ts", "@timestamp">>) = {"timestamp", "ts", "@timestamp"}
    BY DEF Keys
  <2>5. \A k \in {"timestamp", "ts", "@timestamp"} : k # Nothing
    BY Zenon DEF Nothing
  <2> QED  BY <2>1, <2>2, <2>3, <2>4, <2>5 DEF IsNamed
<1>2. IsNamed(FlowFields[2], FlowSchema[2], FlowNames[FlowSchema[2].name])
  <2>1. FlowFields[2].get = "ip" /\ FlowFields[2].keys = <<"srcip", "src_ip", "saddr">>
    BY FieldParts DEF FlowFields
  <2>2. FlowSchema[2].name = "srcip" /\ FlowSchema[2].type = "ip"
    BY ColumnParts DEF FlowSchema
  <2>3. FlowNames["srcip"] = {"srcip", "src_ip", "saddr"}
    BY DEF FlowNames
  <2>4. Keys(<<"srcip", "src_ip", "saddr">>) = {"srcip", "src_ip", "saddr"}
    BY DEF Keys
  <2>5. \A k \in {"srcip", "src_ip", "saddr"} : k # Nothing
    BY Zenon DEF Nothing
  <2> QED  BY <2>1, <2>2, <2>3, <2>4, <2>5 DEF IsNamed
<1>3. IsNamed(FlowFields[3], FlowSchema[3], FlowNames[FlowSchema[3].name])
  <2>1. FlowFields[3].get = "ip" /\ FlowFields[3].keys = <<"dstip", "dst_ip", "daddr">>
    BY FieldParts DEF FlowFields
  <2>2. FlowSchema[3].name = "dstip" /\ FlowSchema[3].type = "ip"
    BY ColumnParts DEF FlowSchema
  <2>3. FlowNames["dstip"] = {"dstip", "dst_ip", "daddr"}
    BY DEF FlowNames
  <2>4. Keys(<<"dstip", "dst_ip", "daddr">>) = {"dstip", "dst_ip", "daddr"}
    BY DEF Keys
  <2>5. \A k \in {"dstip", "dst_ip", "daddr"} : k # Nothing
    BY Zenon DEF Nothing
  <2> QED  BY <2>1, <2>2, <2>3, <2>4, <2>5 DEF IsNamed
<1>4. IsNamed(FlowFields[4], FlowSchema[4], FlowNames[FlowSchema[4].name])
  <2>1. FlowFields[4].get = "uint" /\ FlowFields[4].keys = <<"srcport", "src_port", "sport">>
    BY FieldParts DEF FlowFields
  <2>2. FlowSchema[4].name = "srcport" /\ FlowSchema[4].type = "port"
    BY ColumnParts DEF FlowSchema
  <2>3. FlowNames["srcport"] = {"srcport", "src_port", "sport"}
    BY DEF FlowNames
  <2>4. Keys(<<"srcport", "src_port", "sport">>) = {"srcport", "src_port", "sport"}
    BY DEF Keys
  <2>5. \A k \in {"srcport", "src_port", "sport"} : k # Nothing
    BY Zenon DEF Nothing
  <2> QED  BY <2>1, <2>2, <2>3, <2>4, <2>5 DEF IsNamed
<1>5. IsNamed(FlowFields[5], FlowSchema[5], FlowNames[FlowSchema[5].name])
  <2>1. FlowFields[5].get = "uint" /\ FlowFields[5].keys = <<"dstport", "dst_port", "dport">>
    BY FieldParts DEF FlowFields
  <2>2. FlowSchema[5].name = "dstport" /\ FlowSchema[5].type = "port"
    BY ColumnParts DEF FlowSchema
  <2>3. FlowNames["dstport"] = {"dstport", "dst_port", "dport"}
    BY DEF FlowNames
  <2>4. Keys(<<"dstport", "dst_port", "dport">>) = {"dstport", "dst_port", "dport"}
    BY DEF Keys
  <2>5. \A k \in {"dstport", "dst_port", "dport"} : k # Nothing
    BY Zenon DEF Nothing
  <2> QED  BY <2>1, <2>2, <2>3, <2>4, <2>5 DEF IsNamed
<1>6. IsNamed(FlowFields[6], FlowSchema[6], FlowNames[FlowSchema[6].name])
  <2>1. FlowFields[6].get = "str" /\ FlowFields[6].keys = <<"protocol", "proto">>
    BY FieldParts DEF FlowFields
  <2>2. FlowSchema[6].name = "protocol" /\ FlowSchema[6].type = "enum"
    BY ColumnParts DEF FlowSchema
  <2>3. FlowNames["protocol"] = {"protocol", "proto"}
    BY DEF FlowNames
  <2>4. Keys(<<"protocol", "proto">>) = {"protocol", "proto"}
    BY DEF Keys
  <2>5. \A k \in {"protocol", "proto"} : k # Nothing
    BY Zenon DEF Nothing
  <2> QED  BY <2>1, <2>2, <2>3, <2>4, <2>5 DEF IsNamed
<1>7. IsNamed(FlowFields[7], FlowSchema[7], FlowNames[FlowSchema[7].name])
  <2>1. FlowFields[7].get = "uint" /\ FlowFields[7].keys = <<"asn", "src_asn">>
    BY FieldParts DEF FlowFields
  <2>2. FlowSchema[7].name = "asn" /\ FlowSchema[7].type = "uint"
    BY ColumnParts DEF FlowSchema
  <2>3. FlowNames["asn"] = {"asn", "src_asn"}
    BY DEF FlowNames
  <2>4. Keys(<<"asn", "src_asn">>) = {"asn", "src_asn"}
    BY DEF Keys
  <2>5. \A k \in {"asn", "src_asn"} : k # Nothing
    BY Zenon DEF Nothing
  <2> QED  BY <2>1, <2>2, <2>3, <2>4, <2>5 DEF IsNamed
<1>8. IsNamed(FlowFields[8], FlowSchema[8], FlowNames[FlowSchema[8].name])
  <2>1. FlowFields[8].get = "country" /\ FlowFields[8].keys = <<"country", "geoip_country", "src_country">>
    BY FieldParts DEF FlowFields
  <2>2. FlowSchema[8].name = "country" /\ FlowSchema[8].type = "enum"
    BY ColumnParts DEF FlowSchema
  <2>3. FlowNames["country"] = {"country", "geoip_country", "src_country"}
    BY DEF FlowNames
  <2>4. Keys(<<"country", "geoip_country", "src_country">>) = {"country", "geoip_country", "src_country"}
    BY DEF Keys
  <2>5. \A k \in {"country", "geoip_country", "src_country"} : k # Nothing
    BY Zenon DEF Nothing
  <2> QED  BY <2>1, <2>2, <2>3, <2>4, <2>5 DEF IsNamed
<1>9. IsNamed(FlowFields[9], FlowSchema[9], FlowNames[FlowSchema[9].name])
  <2>1. FlowFields[9].get = "str" /\ FlowFields[9].keys = <<"eventtype", "event_type", "event">>
    BY FieldParts DEF FlowFields
  <2>2. FlowSchema[9].name = "eventtype" /\ FlowSchema[9].type = "enum"
    BY ColumnParts DEF FlowSchema
  <2>3. FlowNames["eventtype"] = {"eventtype", "event_type", "event"}
    BY DEF FlowNames
  <2>4. Keys(<<"eventtype", "event_type", "event">>) = {"eventtype", "event_type", "event"}
    BY DEF Keys
  <2>5. \A k \in {"eventtype", "event_type", "event"} : k # Nothing
    BY Zenon DEF Nothing
  <2> QED  BY <2>1, <2>2, <2>3, <2>4, <2>5 DEF IsNamed
<1>10. IsNamed(FlowFields[10], FlowSchema[10], FlowNames[FlowSchema[10].name])
  <2>1. FlowFields[10].get = "uint" /\ FlowFields[10].keys = <<"bytes", "in_bytes", "orig_bytes">>
    BY FieldParts DEF FlowFields
  <2>2. FlowSchema[10].name = "bytes" /\ FlowSchema[10].type = "uint"
    BY ColumnParts DEF FlowSchema
  <2>3. FlowNames["bytes"] = {"bytes", "in_bytes", "orig_bytes"}
    BY DEF FlowNames
  <2>4. Keys(<<"bytes", "in_bytes", "orig_bytes">>) = {"bytes", "in_bytes", "orig_bytes"}
    BY DEF Keys
  <2>5. \A k \in {"bytes", "in_bytes", "orig_bytes"} : k # Nothing
    BY Zenon DEF Nothing
  <2> QED  BY <2>1, <2>2, <2>3, <2>4, <2>5 DEF IsNamed
<1>11. IsNamed(FlowFields[11], FlowSchema[11], FlowNames[FlowSchema[11].name])
  <2>1. FlowFields[11].get = "uint" /\ FlowFields[11].keys = <<"packets", "in_pkts">>
    BY FieldParts DEF FlowFields
  <2>2. FlowSchema[11].name = "packets" /\ FlowSchema[11].type = "uint"
    BY ColumnParts DEF FlowSchema
  <2>3. FlowNames["packets"] = {"packets", "in_pkts"}
    BY DEF FlowNames
  <2>4. Keys(<<"packets", "in_pkts">>) = {"packets", "in_pkts"}
    BY DEF Keys
  <2>5. \A k \in {"packets", "in_pkts"} : k # Nothing
    BY Zenon DEF Nothing
  <2> QED  BY <2>1, <2>2, <2>3, <2>4, <2>5 DEF IsNamed
<1> QED  BY <1>1, <1>2, <1>3, <1>4, <1>5, <1>6, <1>7, <1>8, <1>9, <1>10, <1>11

\* Each field of honeypot looks for its column under the names of that column.
LEMMA HoneypotNamed ==
    \A i \in 1 .. 10 : IsNamed(HoneypotFields[i], HoneypotSchema[i], HoneypotNames[HoneypotSchema[i].name])
<1>1. IsNamed(HoneypotFields[1], HoneypotSchema[1], HoneypotNames[HoneypotSchema[1].name])
  <2>1. HoneypotFields[1].get = "time" /\ HoneypotFields[1].keys = <<"timestamp", "ts", "@timestamp", "eventtime">>
    BY FieldParts DEF HoneypotFields
  <2>2. HoneypotSchema[1].name = "timestamp" /\ HoneypotSchema[1].type = "timestamp"
    BY ColumnParts DEF HoneypotSchema
  <2>3. HoneypotNames["timestamp"] = {"timestamp", "ts", "@timestamp", "eventtime"}
    BY DEF HoneypotNames
  <2>4. Keys(<<"timestamp", "ts", "@timestamp", "eventtime">>) = {"timestamp", "ts", "@timestamp", "eventtime"}
    BY DEF Keys
  <2>5. \A k \in {"timestamp", "ts", "@timestamp", "eventtime"} : k # Nothing
    BY Zenon DEF Nothing
  <2> QED  BY <2>1, <2>2, <2>3, <2>4, <2>5 DEF IsNamed
<1>2. IsNamed(HoneypotFields[2], HoneypotSchema[2], HoneypotNames[HoneypotSchema[2].name])
  <2>1. HoneypotFields[2].get = "ip" /\ HoneypotFields[2].keys = <<"srcip", "src_ip", "peerIP", "src_host">>
    BY FieldParts DEF HoneypotFields
  <2>2. HoneypotSchema[2].name = "srcip" /\ HoneypotSchema[2].type = "ip"
    BY ColumnParts DEF HoneypotSchema
  <2>3. HoneypotNames["srcip"] = {"srcip", "src_ip", "peerIP", "src_host"}
    BY DEF HoneypotNames
  <2>4. Keys(<<"srcip", "src_ip", "peerIP", "src_host">>) = {"srcip", "src_ip", "peerIP", "src_host"}
    BY DEF Keys
  <2>5. \A k \in {"srcip", "src_ip", "peerIP", "src_host"} : k # Nothing
    BY Zenon DEF Nothing
  <2> QED  BY <2>1, <2>2, <2>3, <2>4, <2>5 DEF IsNamed
<1>3. IsNamed(HoneypotFields[3], HoneypotSchema[3], HoneypotNames[HoneypotSchema[3].name])
  <2>1. HoneypotFields[3].get = "uint" /\ HoneypotFields[3].keys = <<"srcport", "src_port", "peerPort">>
    BY FieldParts DEF HoneypotFields
  <2>2. HoneypotSchema[3].name = "srcport" /\ HoneypotSchema[3].type = "port"
    BY ColumnParts DEF HoneypotSchema
  <2>3. HoneypotNames["srcport"] = {"srcport", "src_port", "peerPort"}
    BY DEF HoneypotNames
  <2>4. Keys(<<"srcport", "src_port", "peerPort">>) = {"srcport", "src_port", "peerPort"}
    BY DEF Keys
  <2>5. \A k \in {"srcport", "src_port", "peerPort"} : k # Nothing
    BY Zenon DEF Nothing
  <2> QED  BY <2>1, <2>2, <2>3, <2>4, <2>5 DEF IsNamed
<1>4. IsNamed(HoneypotFields[4], HoneypotSchema[4], HoneypotNames[HoneypotSchema[4].name])
  <2>1. HoneypotFields[4].get = "uint" /\ HoneypotFields[4].keys = <<"dstport", "dst_port", "hostPort">>
    BY FieldParts DEF HoneypotFields
  <2>2. HoneypotSchema[4].name = "dstport" /\ HoneypotSchema[4].type = "port"
    BY ColumnParts DEF HoneypotSchema
  <2>3. HoneypotNames["dstport"] = {"dstport", "dst_port", "hostPort"}
    BY DEF HoneypotNames
  <2>4. Keys(<<"dstport", "dst_port", "hostPort">>) = {"dstport", "dst_port", "hostPort"}
    BY DEF Keys
  <2>5. \A k \in {"dstport", "dst_port", "hostPort"} : k # Nothing
    BY Zenon DEF Nothing
  <2> QED  BY <2>1, <2>2, <2>3, <2>4, <2>5 DEF IsNamed
<1>5. IsNamed(HoneypotFields[5], HoneypotSchema[5], HoneypotNames[HoneypotSchema[5].name])
  <2>1. HoneypotFields[5].get = "str" /\ HoneypotFields[5].keys = <<"protocol", "proto", "service">>
    BY FieldParts DEF HoneypotFields
  <2>2. HoneypotSchema[5].name = "protocol" /\ HoneypotSchema[5].type = "enum"
    BY ColumnParts DEF HoneypotSchema
  <2>3. HoneypotNames["protocol"] = {"protocol", "proto", "service"}
    BY DEF HoneypotNames
  <2>4. Keys(<<"protocol", "proto", "service">>) = {"protocol", "proto", "service"}
    BY DEF Keys
  <2>5. \A k \in {"protocol", "proto", "service"} : k # Nothing
    BY Zenon DEF Nothing
  <2> QED  BY <2>1, <2>2, <2>3, <2>4, <2>5 DEF IsNamed
<1>6. IsNamed(HoneypotFields[6], HoneypotSchema[6], HoneypotNames[HoneypotSchema[6].name])
  <2>1. HoneypotFields[6].get = "str" /\ HoneypotFields[6].keys = <<"eventtype", "event_type", "event">>
    BY FieldParts DEF HoneypotFields
  <2>2. HoneypotSchema[6].name = "eventtype" /\ HoneypotSchema[6].type = "enum"
    BY ColumnParts DEF HoneypotSchema
  <2>3. HoneypotNames["eventtype"] = {"eventtype", "event_type", "event"}
    BY DEF HoneypotNames
  <2>4. Keys(<<"eventtype", "event_type", "event">>) = {"eventtype", "event_type", "event"}
    BY DEF Keys
  <2>5. \A k \in {"eventtype", "event_type", "event"} : k # Nothing
    BY Zenon DEF Nothing
  <2> QED  BY <2>1, <2>2, <2>3, <2>4, <2>5 DEF IsNamed
<1>7. IsNamed(HoneypotFields[7], HoneypotSchema[7], HoneypotNames[HoneypotSchema[7].name])
  <2>1. HoneypotFields[7].get = "str" /\ HoneypotFields[7].keys = <<"username", "user">>
    BY FieldParts DEF HoneypotFields
  <2>2. HoneypotSchema[7].name = "username" /\ HoneypotSchema[7].type = "string"
    BY ColumnParts DEF HoneypotSchema
  <2>3. HoneypotNames["username"] = {"username", "user"}
    BY DEF HoneypotNames
  <2>4. Keys(<<"username", "user">>) = {"username", "user"}
    BY DEF Keys
  <2>5. \A k \in {"username", "user"} : k # Nothing
    BY Zenon DEF Nothing
  <2> QED  BY <2>1, <2>2, <2>3, <2>4, <2>5 DEF IsNamed
<1>8. IsNamed(HoneypotFields[8], HoneypotSchema[8], HoneypotNames[HoneypotSchema[8].name])
  <2>1. HoneypotFields[8].get = "str" /\ HoneypotFields[8].keys = <<"password", "pass">>
    BY FieldParts DEF HoneypotFields
  <2>2. HoneypotSchema[8].name = "password" /\ HoneypotSchema[8].type = "string"
    BY ColumnParts DEF HoneypotSchema
  <2>3. HoneypotNames["password"] = {"password", "pass"}
    BY DEF HoneypotNames
  <2>4. Keys(<<"password", "pass">>) = {"password", "pass"}
    BY DEF Keys
  <2>5. \A k \in {"password", "pass"} : k # Nothing
    BY Zenon DEF Nothing
  <2> QED  BY <2>1, <2>2, <2>3, <2>4, <2>5 DEF IsNamed
<1>9. IsNamed(HoneypotFields[9], HoneypotSchema[9], HoneypotNames[HoneypotSchema[9].name])
  <2>1. HoneypotFields[9].get = "country" /\ HoneypotFields[9].keys = <<"country", "geoip_country">>
    BY FieldParts DEF HoneypotFields
  <2>2. HoneypotSchema[9].name = "country" /\ HoneypotSchema[9].type = "enum"
    BY ColumnParts DEF HoneypotSchema
  <2>3. HoneypotNames["country"] = {"country", "geoip_country"}
    BY DEF HoneypotNames
  <2>4. Keys(<<"country", "geoip_country">>) = {"country", "geoip_country"}
    BY DEF Keys
  <2>5. \A k \in {"country", "geoip_country"} : k # Nothing
    BY Zenon DEF Nothing
  <2> QED  BY <2>1, <2>2, <2>3, <2>4, <2>5 DEF IsNamed
<1>10. IsNamed(HoneypotFields[10], HoneypotSchema[10], HoneypotNames[HoneypotSchema[10].name])
  <2>1. HoneypotFields[10].get = "uint" /\ HoneypotFields[10].keys = <<"asn", "src_asn">>
    BY FieldParts DEF HoneypotFields
  <2>2. HoneypotSchema[10].name = "asn" /\ HoneypotSchema[10].type = "uint"
    BY ColumnParts DEF HoneypotSchema
  <2>3. HoneypotNames["asn"] = {"asn", "src_asn"}
    BY DEF HoneypotNames
  <2>4. Keys(<<"asn", "src_asn">>) = {"asn", "src_asn"}
    BY DEF Keys
  <2>5. \A k \in {"asn", "src_asn"} : k # Nothing
    BY Zenon DEF Nothing
  <2> QED  BY <2>1, <2>2, <2>3, <2>4, <2>5 DEF IsNamed
<1> QED  BY <1>1, <1>2, <1>3, <1>4, <1>5, <1>6, <1>7, <1>8, <1>9, <1>10

\* One of the keys is found when there is one to be found.
LEMMA FirstKeyFound ==
    ASSUME NEW keys, DOMAIN keys \subseteq Nat, Nothing \notin Keys(keys), NEW S,
           NEW k \in S, k \in Keys(keys)
    PROVE  FirstKey(keys, S) # Nothing
<1> DEFINE has == {i \in DOMAIN keys : keys[i] \in S}
<1>1. FirstKey(keys, S) = IF has = {} THEN Nothing ELSE keys[Min(has)]
  BY DEF FirstKey
<1>2. has # {} /\ has \in SUBSET Nat
  BY DEF Keys
<1>3. Min(has) \in has
  <2> HIDE DEF has
  <2> QED  BY <1>2, MinOfNats
<1>4. keys[Min(has)] \in Keys(keys)
  BY <1>3 DEF Keys
<1> HIDE DEF has
<1> QED  BY <1>1, <1>2, <1>4

\* The keys under which an object gives anything.
Told(m, K) == {k \in DOMAIN m \cap K : m[k].kind \in Textual}

\* asString finds nothing, or the text under one of the keys.
LEMMA StringHeld ==
    ASSUME NEW m, NEW keys, DOMAIN keys \subseteq Nat, Nothing \notin Keys(keys)
    PROVE  IF Told(m, Keys(keys)) = {} THEN ~ HasString(m, keys) /\ asString(m, keys) = NoText
           ELSE /\ HasString(m, keys)
                /\ \E k \in Told(m, Keys(keys)) : asString(m, keys) = TextOf(m[k])
<1> DEFINE S == {k \in DOMAIN m : m[k].kind \in Textual}
           key == StringKey(m, keys)
           T == Told(m, Keys(keys))
<1>1. key = FirstKey(keys, S)
  BY DEF StringKey
<1>2. T = S \cap Keys(keys)
  BY DEF Told
<1>3. asString(m, keys) = IF HasString(m, keys) THEN TextOf(m[key]) ELSE NoText
  BY DEF asString
<1>4. HasString(m, keys) <=> key # Nothing
  BY DEF HasString
<1> HIDE DEF key, S, T
<1>5. CASE key = Nothing
  <2>1. T = {}
    BY <1>1, <1>2, <1>5, FirstKeyFound
  <2> QED  BY <1>3, <1>4, <1>5, <2>1 DEF T
<1>6. CASE key # Nothing
  <2>1. key \in S /\ \E i \in DOMAIN keys : key = keys[i]
    BY <1>1, <1>6, FirstKeyIs
  <2>2. key \in T
    BY <1>2, <2>1 DEF Keys
  <2> QED  BY <1>3, <1>4, <1>6, <2>2 DEF T
<1> QED  BY <1>5, <1>6

\* No number ends in more zeros than 0.
LEMMA ZerosMost == \A m : Zeros(m) <= Zeros(0)
<1> DEFINE D == {10, 100, 1000}
<1>1. \A d \in D : 0 % d = 0
  OBVIOUS
<1>2. {d \in D : 0 % d = 0} = D
  BY <1>1
<1>3. Zeros(0) = Cardinality(D)
  BY <1>2 DEF Zeros
<1>4. IsFiniteSet(D)
  <2>1. PICK n \in Nat : n = 1000
    OBVIOUS
  <2>2. IsFiniteSet(0 .. n)
    BY FS_Interval
  <2>3. D \subseteq 0 .. n
    BY <2>1
  <2> HIDE DEF D
  <2> QED  BY <2>2, <2>3, FS_Subset
<1>5. ASSUME NEW m PROVE Zeros(m) <= Cardinality(D)
  <2> DEFINE S == {d \in D : m % d = 0}
  <2>1. S \subseteq D
    OBVIOUS
  <2>2. Zeros(m) = Cardinality(S)
    BY DEF Zeros
  <2> HIDE DEF S, D
  <2> QED  BY <1>4, <2>1, <2>2, FS_Subset
<1> HIDE DEF D
<1> QED  BY <1>3, <1>5

\* 0 is written as it is.
LEMMA ZeroWritten == FormatFloat(0) = Decimal(0)
<1>1. Float(0) = 0
  <2>1. PICK n \in Nat : n = 0
    OBVIOUS
  <2>2. n <= FloatExact
    BY <2>1, Constants
  <2>3. Float(2 * n) = 2 * n
    BY <2>2, FloatExactly
  <2> QED  BY <2>1, <2>3
<1>2. Gap(0) \in Nat \ {0}
  <2>1. 0 \in Int /\ Below(0, Width) /\ Width \in 0 .. (Width + 1)
    BY RoomIs, Constants
  <2> QED  BY <2>1, FloatIs
<1> DEFINE same == {n \in (0 \div 2) - Gap(0) .. (0 \div 2) + Gap(0) : Float(2 * n) = 0}
           roundest == {n \in same : \A m \in same : Zeros(m) <= Zeros(n)}
<1>3. FormatFloat(0) = IF 0 % 2 = 1 THEN Decimal(0)
                       ELSE IF 0 \div 2 \in roundest THEN Decimal(0)
                       ELSE Decimal(2 * (CHOOSE n \in roundest : TRUE))
  BY DEF FormatFloat
<1>4. 0 \div 2 = 0 /\ 0 % 2 = 0
  OBVIOUS
<1>5. 0 \in same
  BY <1>1, <1>2, <1>4
<1>6. \A m : Zeros(m) <= Zeros(0)
  BY ZerosMost
<1>7. 0 \in roundest
  <2> HIDE DEF same
  <2> QED  BY <1>5, <1>6
<1> HIDE DEF roundest
<1> QED  BY <1>3, <1>4, <1>7

\* A whole number that a float64 holds is read and written as it is.
LEMMA CountWritten ==
    ASSUME NEW v, v.t \in Texts, IsCount(v)
    PROVE  TextOf(v) = Decimal(v.t.n) /\ Float(v.t.n) = v.t.n /\ v.t.n \in Nat
<1> DEFINE h == v.t.n
           e == h \div 2
<1>1. h \in Sizes /\ h \in Int /\ h % 2 = 0 /\ 0 <= h /\ h <= 2 * FloatExact /\ FloatExact \in Nat
  <2>1. h \in Sizes /\ h \in Int
    BY TextsReadable DEF Readable
  <2> QED  BY <2>1, RoomIs DEF IsCount
<1>2. TextOf(v) = FormatFloat(Float(h))
  BY DEF TextOf, IsCount
<1> HIDE DEF h
<1>3. e \in Nat /\ h = 2 * e /\ e <= FloatExact /\ h \in Nat
  BY <1>1
<1> HIDE DEF e
<1>4. Float(h) = h
  <2>1. Float(2 * e) = 2 * e
    BY <1>3, FloatExactly
  <2> QED  BY <1>3, <2>1
<1>5. CASE h = 0
  BY <1>2, <1>4, <1>5, ZeroWritten DEF h
<1>6. CASE h # 0
  <2>1. h > 0 /\ e > 0 /\ h < Pow2[Width]
    <3>1. 2 * FloatExact < Pow2[Width] /\ Pow2[Width] \in Nat
      BY AdapterAssumption, RoomIs
    <3> QED  BY <1>1, <1>3, <1>6, <3>1
  <2>2. PICK x \in Nat : Wrote(h, x)
    BY <1>1, <1>3, <2>1, WholeWritten
  <2>3. x = e
    <3>1. Wrote(2 * e, x)
      BY <1>3, <2>2
    <3>2. 2 * e < Pow2[Width]
      BY <1>3, <2>1
    <3> QED  BY <1>3, <2>1, <3>1, <3>2, WroteExactly
  <2>4. FormatFloat(Float(h)) = Decimal(2 * x)
    BY <2>2 DEF Wrote
  <2> QED  BY <1>2, <1>3, <1>4, <2>3, <2>4 DEF h
<1> QED  BY <1>5, <1>6

\* asUint finds nothing, or when all the keys give counters, one of those.
LEMMA UintHeld ==
    ASSUME NEW m, Object(m), NEW keys, DOMAIN keys \subseteq Nat, Nothing \notin Keys(keys)
    PROVE  LET T == Told(m, Keys(keys))
           IN  /\ T = {} => uintValue(m, keys) = NullVal
               /\ T # {} /\ (\A k \in T : IsCount(m[k]) \/ (m[k].kind = "string" /\ IsUint(m[k].t))) =>
                      \E k \in T : uintValue(m, keys) = IntVal(m[k].t.n \div 2)
<1> DEFINE S == {k \in DOMAIN m : m[k].kind = "number" \/ (m[k].kind = "string" /\ IsUint(m[k].t))}
           key == UintKey(m, keys)
           T == Told(m, Keys(keys))
<1>1. key = FirstKey(keys, S)
  BY DEF UintKey
<1>2. S \cap Keys(keys) \subseteq T
  BY DEF Told, Textual
<1>3. HasUint(m, keys) <=> (key # Nothing /\ (m[key].kind = "number" => Float(m[key].t.n) >= 0))
  BY DEF HasUint
<1>4. uintValue(m, keys) = IF HasUint(m, keys) THEN IntVal(asUint(m, keys)) ELSE NullVal
  BY DEF uintValue
<1>5. asUint(m, keys) = IF m[key].kind = "number" THEN FloatToUint(Float(m[key].t.n)) ELSE m[key].t.n \div 2
  BY DEF asUint
<1>6. key # Nothing => key \in S /\ key \in Keys(keys)
  <2> HIDE DEF key, S
  <2> QED  BY <1>1, FirstKeyIs DEF Keys
<1>7. T = {} => uintValue(m, keys) = NullVal
  <2> HIDE DEF key, S, T
  <2> QED  BY <1>2, <1>3, <1>4, <1>6
<1>8. ASSUME T # {}, \A k \in T : IsCount(m[k]) \/ (m[k].kind = "string" /\ IsUint(m[k].t))
      PROVE  \E k \in T : uintValue(m, keys) = IntVal(m[k].t.n \div 2)
  <2>1. PICK k \in T : TRUE
    BY <1>8
  <2>2. k \in S /\ k \in Keys(keys)
    BY <1>8 DEF Told, IsCount
  <2>3. key # Nothing
    <3> HIDE DEF key, S
    <3> QED  BY <1>1, <2>2, FirstKeyFound
  <2>4. key \in T /\ key \in S /\ key \in DOMAIN m
    BY <1>2, <1>6, <2>3
  <2> DEFINE v == m[key]
  <2>5. v.t \in Texts
    BY <2>4 DEF Object
  <2>6. (IsCount(v) /\ v.kind = "number") \/ (v.kind = "string" /\ IsUint(v.t))
    BY <1>8, <2>4 DEF IsCount
  <2>7. HasUint(m, keys) <=> (v.kind = "number" => Float(v.t.n) >= 0)
    BY <1>3, <2>3
  <2>8. asUint(m, keys) = IF v.kind = "number" THEN FloatToUint(Float(v.t.n)) ELSE v.t.n \div 2
    BY <1>5
  <2> HIDE DEF v
  <2>9. uintValue(m, keys) = IntVal(v.t.n \div 2)
    <3>1. CASE IsCount(v) /\ v.kind = "number"
      <4> DEFINE h == v.t.n
      <4>1. Float(h) = h /\ h \in Nat /\ h <= 2 * FloatExact
        BY <2>5, <3>1, CountWritten DEF IsCount
      <4>2. h < 2 * Pow2[Width]
        <5> HIDE DEF h
        <5> QED  BY <4>1, AdapterAssumption, RoomIs
      <4>3. FloatToUint(h) = h \div 2
        <5> HIDE DEF h
        <5>1. h \in Int /\ h >= 0
          BY <4>1
        <5> QED  BY <4>2, <5>1, UintOfFloat
      <4>4. HasUint(m, keys)
        BY <2>7, <4>1
      <4> QED  BY <1>4, <2>8, <3>1, <4>1, <4>3, <4>4
    <3>2. CASE v.kind = "string"
      BY <1>4, <2>7, <2>8, <3>2
    <3> QED  BY <2>6, <3>1, <3>2
  <2> QED  BY <2>4, <2>9 DEF v
<1> QED  BY <1>7, <1>8

\* The text that asString gives of a value that its column can hold.
LEMMA TextHeld ==
    ASSUME NEW v, v.t \in Texts, NEW c, c.type \notin IntTypes \/ c.type = "timestamp", CanHold(c, v)
    PROVE  TextOf(v) = IF v.kind = "number" THEN Decimal(v.t.n) ELSE v.t
<1>1. v.kind # "number" => TextOf(v) = v.t
  BY DEF TextOf
<1>2. v.kind = "number" => IsCount(v)
  BY DEF CanHold
<1> QED  BY <1>1, <1>2, CountWritten

\* A field has a value only when one of its names gives one, and that of one of
\* its names when the column can hold what they give.
LEMMA ValueHeld ==
    ASSUME NEW m, Object(m), NEW f, NEW c, DOMAIN f.keys \subseteq Nat, InStep(f, c),
           NEW names, IsNamed(f, c, names)
    PROVE  LET T == Told(m, names)
           IN  /\ T = {} /\ f.get # "time" => Value(f, m) = NullVal
               /\ T = {} => ~ IsTime(asString(m, f.keys))
               /\ T # {} /\ (\A k \in T : CanHold(c, m[k])) =>
                      /\ f.get = "time" => IsTime(asString(m, f.keys))
                      /\ \E k \in T : Value(f, m) = Held(c, m[k])
<1> DEFINE keys == f.keys
           T == Told(m, names)
           t == asString(m, keys)
<1>1. Keys(keys) = names /\ Nothing \notin names /\ DOMAIN keys \subseteq Nat
  BY DEF IsNamed
<1>2. /\ f.get \in {"time", "ip", "uint", "str", "country"}
      /\ f.get = "time" <=> c.type = "timestamp"
      /\ c.name = "country" <=> f.get = "country"
      /\ c.type \in IntTypes <=> f.get \in {"time", "uint"}
      /\ c.type = "ip" <=> f.get = "ip"
  BY DEF IsNamed, InStep, Getters
<1>3. Value(f, m) = IF f.get = "time" THEN IntVal(parseTimeNanos(t))
                    ELSE IF f.get = "ip" THEN ipValue(m, keys)
                    ELSE IF f.get = "uint" THEN uintValue(m, keys)
                    ELSE IF f.get = "str" THEN strValue(m, keys)
                    ELSE countryValue(m, keys)
  BY DEF Value
<1> HIDE DEF keys
<1>4. IF T = {} THEN ~ HasString(m, keys) /\ t = NoText
      ELSE HasString(m, keys) /\ \E k \in T : t = TextOf(m[k])
  BY <1>1, StringHeld
<1>5. /\ T = {} => uintValue(m, keys) = NullVal
      /\ T # {} /\ (\A k \in T : IsCount(m[k]) \/ (m[k].kind = "string" /\ IsUint(m[k].t))) =>
             \E k \in T : uintValue(m, keys) = IntVal(m[k].t.n \div 2)
  BY <1>1, UintHeld
<1>6. \A k \in T : m[k].t \in Texts
  BY DEF Told, Object
<1>7. NoText.k = "word"
  BY TextFields DEF NoText, Word
<1>8. /\ ipValue(m, keys) = IF IsIP(t) THEN BytesVal(<<NormalizeIP(t)>>) ELSE NullVal
      /\ strValue(m, keys) = IF HasString(m, keys) THEN BytesVal(<<t>>) ELSE NullVal
      /\ countryValue(m, keys) = IF HasString(m, keys) THEN BytesVal(<<upperCountry(t)>>) ELSE NullVal
  BY DEF ipValue, strValue, countryValue
<1> HIDE DEF T, t
<1>9. ASSUME T = {} PROVE (f.get # "time" => Value(f, m) = NullVal) /\ ~ IsTime(t)
  <2>1. ~ IsTime(t) /\ ~ IsIP(t)
    BY <1>4, <1>7, <1>9 DEF IsTime, IsIP
  <2> QED  BY <1>2, <1>3, <1>4, <1>5, <1>8, <1>9, <2>1
<1>10. ASSUME T # {}, \A k \in T : CanHold(c, m[k])
       PROVE  /\ f.get = "time" => IsTime(t)
              /\ \E k \in T : Value(f, m) = Held(c, m[k])
  <2>1. CASE f.get = "uint"
    <3>1. c.type \in IntTypes /\ c.type # "timestamp"
      BY <1>2, <2>1
    <3>2. \A k \in T : IsCount(m[k]) \/ (m[k].kind = "string" /\ IsUint(m[k].t))
      BY <1>10, <3>1 DEF CanHold
    <3>3. PICK k \in T : uintValue(m, keys) = IntVal(m[k].t.n \div 2)
      BY <1>5, <1>10, <3>2
    <3>4. Held(c, m[k]) = IntVal((IF m[k].kind = "number" THEN Decimal(m[k].t.n) ELSE m[k].t).n \div 2)
      BY <3>1 DEF Held
    <3>5. Held(c, m[k]) = IntVal(m[k].t.n \div 2)
      BY <3>4, DecimalFields
    <3> QED  BY <1>3, <2>1, <3>3, <3>5
  <2>2. CASE f.get # "uint"
    <3>1. PICK k \in T : t = TextOf(m[k])
      BY <1>4, <1>10
    <3> DEFINE v == m[k]
    <3>2. CanHold(c, v) /\ v.t \in Texts
      BY <1>6, <1>10
    <3>3. c.type \notin IntTypes \/ c.type = "timestamp"
      BY <1>2, <2>2
    <3> HIDE DEF v
    <3>4. t = IF v.kind = "number" THEN Decimal(v.t.n) ELSE v.t
      BY <3>1, <3>2, <3>3, TextHeld DEF v
    <3>5. Held(c, v) = IF c.type = "timestamp" THEN IntVal(ToWord(t.n))
                       ELSE IF c.type \in IntTypes THEN IntVal(t.n \div 2)
                       ELSE IF c.type = "ip" THEN BytesVal(<<NormalizeIP(t)>>)
                       ELSE IF c.name = "country" THEN BytesVal(<<upperCountry(t)>>)
                       ELSE BytesVal(<<t>>)
      BY <3>4 DEF Held
    <3>6. HasString(m, keys)
      BY <1>4, <1>10
    <3>7. CASE f.get = "time"
      <4>1. t.k = "time"
        BY <1>2, <3>2, <3>4, <3>7 DEF CanHold
      <4>2. parseTimeNanos(t) = ToWord(t.n) /\ IsTime(t)
        BY <4>1 DEF parseTimeNanos, IsTime
      <4> QED  BY <1>2, <1>3, <3>5, <3>7, <4>2 DEF v
    <3>8. CASE f.get = "ip"
      <4>1. IsIP(t)
        BY <1>2, <3>2, <3>4, <3>8 DEF CanHold, IntTypes
      <4>2. Value(f, m) = Held(c, v)
        BY <1>2, <1>3, <1>8, <3>3, <3>5, <3>8, <4>1
      <4> QED  BY <3>8, <4>2 DEF v
    <3>9. CASE f.get \in {"str", "country"}
      <4>1. Value(f, m) = Held(c, v)
        BY <1>2, <1>3, <1>8, <3>3, <3>5, <3>6, <3>9
      <4> QED  BY <3>9, <4>1 DEF v
    <3> QED  BY <1>2, <2>2, <3>7, <3>8, <3>9
  <2> QED  BY <2>1, <2>2
<1> QED  BY <1>9, <1>10 DEF T, t, keys

\* The record of a line that is an object.
LEMMA ObjectHeld ==
    ASSUME NEW s \in {"generic-flow", "honeypot"}, NEW l \in Lines[s], l.form = "object"
    PROVE  LET rec == DecodeJSON(Fields[s], l).rec
           IN  \A i \in DOMAIN Schema[s] :
                  LET c == Schema[s][i]
                      T == Told(l.m, Names[s][c.name])
                  IN  /\ T = {} => rec = <<>> \/ rec[i].null
                      /\ T # {} /\ (\A k \in T : CanHold(c, l.m[k])) =>
                             IF rec = <<>> THEN i # 1 ELSE \E k \in T : rec[i] = Held(c, l.m[k])
<1> DEFINE fields == Fields[s]
           schema == Schema[s]
           names == Names[s]
           m == l.m
           rec == DecodeJSON(fields, l).rec
           n == IF s = "generic-flow" THEN 11 ELSE 10
           time == asString(m, fields[1].keys)
<1>1. Object(m)
  BY LinesAssumption DEF Object
<1>2. /\ Listed(fields, schema, n) /\ fields \in [1 .. n -> {fields[i] : i \in 1 .. n}] /\ n \in Nat
      /\ \A i \in 1 .. n : IsNamed(fields[i], schema[i], names[schema[i].name])
  <2>1. CASE s = "generic-flow"
    <3>1. fields = FlowFields /\ schema = FlowSchema /\ names = FlowNames /\ n = 11
      BY <2>1, SourceIs DEF Names, Sources
    <3> HIDE DEF fields, schema, names, n
    <3> QED  BY <3>1, FlowListed, FlowIsTable, FlowNamed
  <2>2. CASE s = "honeypot"
    <3>1. fields = HoneypotFields /\ schema = HoneypotSchema /\ names = HoneypotNames /\ n = 10
      BY <2>2, SourceIs DEF Names, Sources
    <3> HIDE DEF fields, schema, names, n
    <3> QED  BY <3>1, HoneypotListed, HoneypotIsTable, HoneypotNamed
  <2> QED  BY <2>1, <2>2
<1>3. DOMAIN schema = 1 .. n
  <2>1. CASE s = "generic-flow"
    <3>1. schema = FlowSchema /\ DOMAIN FlowSchema = 1 .. 11
      BY <2>1, SourceIs DEF FlowSchema
    <3> QED  BY <2>1, <3>1
  <2>2. CASE s = "honeypot"
    <3>1. schema = HoneypotSchema /\ DOMAIN HoneypotSchema = 1 .. 10
      BY <2>2, SourceIs DEF HoneypotSchema
    <3> QED  BY <2>2, <3>1
  <2> QED  BY <2>1, <2>2
<1>4. /\ IsTime(time) => rec = [i \in DOMAIN fields |-> Value(fields[i], m)]
      /\ ~ IsTime(time) => rec = <<>>
  BY RecordParts DEF DecodeJSON, ErrSkip
<1> HIDE DEF fields, schema, names, m, rec, n
<1>5. 1 \in 1 .. n /\ fields[1].get = "time" /\ \A i \in 2 .. n : fields[i].get # "time"
  BY <1>2 DEF Listed
<1>6. DOMAIN fields = 1 .. n
  BY <1>2
<1>7. IsTime(time) => /\ \A i \in 1 .. n : rec[i] = Value(fields[i], m)
                      /\ rec # <<>>
  <2>1. DOMAIN <<>> = {} /\ 1 .. n # {}
    BY <1>5
  <2> QED  BY <1>4, <1>6, <2>1
<1> HIDE DEF time
<1>8. ASSUME NEW i \in 1 .. n
      PROVE  LET c == schema[i]
                 T == Told(m, names[c.name])
             IN  /\ T = {} => rec = <<>> \/ rec[i].null
                 /\ T # {} /\ (\A k \in T : CanHold(c, m[k])) =>
                        IF rec = <<>> THEN i # 1 ELSE \E k \in T : rec[i] = Held(c, m[k])
  <2> DEFINE c == schema[i]
             f == fields[i]
             T == Told(m, names[c.name])
  <2>1. DOMAIN f.keys \subseteq Nat /\ InStep(f, c) /\ IsNamed(f, c, names[c.name])
    BY <1>2 DEF Listed
  <2> HIDE DEF c, f
  <2>2. /\ T = {} /\ f.get # "time" => Value(f, m) = NullVal
        /\ T = {} => ~ IsTime(asString(m, f.keys))
        /\ T # {} /\ (\A k \in T : CanHold(c, m[k])) =>
               /\ f.get = "time" => IsTime(asString(m, f.keys))
               /\ \E k \in T : Value(f, m) = Held(c, m[k])
    BY <1>1, <2>1, ValueHeld
  <2> HIDE DEF T
  <2>3. i = 1 => f.get = "time" /\ (IsTime(time) <=> IsTime(asString(m, f.keys)))
    BY <1>5 DEF f, time
  <2>4. i # 1 => f.get # "time"
    BY <1>5 DEF f
  <2>5. IsTime(time) => rec[i] = Value(f, m) /\ rec # <<>>
    BY <1>7 DEF f
  <2>6. T = {} => rec = <<>> \/ rec[i].null
    BY <1>4, <2>2, <2>3, <2>4, <2>5, NullFields
  <2>7. ASSUME T # {}, \A k \in T : CanHold(c, m[k])
        PROVE  IF rec = <<>> THEN i # 1 ELSE \E k \in T : rec[i] = Held(c, m[k])
    BY <1>4, <2>2, <2>3, <2>5, <2>7
  <2> QED  BY <2>6, <2>7 DEF c, T
<1> QED  BY <1>3, <1>8 DEF rec, schema, names, m, fields

\* What a line gives under the names of a column is in that column, and nothing
\* else is, whatever names it uses and whatever it gives under them
\* (genericflow.go:46-71, honeypot.go:45-70).
THEOREM OneColumnPerNameAlways == Spec => []OneColumnPerName
<1>1. Init => OneColumnPerName
  BY DEF Init, OneColumnPerName
<1>2. LineOfSource /\ OneColumnPerName /\ [Next]_vars => OneColumnPerName'
  <2> SUFFICES ASSUME LineOfSource, OneColumnPerName, [Next]_vars PROVE OneColumnPerName'
    OBVIOUS
  <2>1. CASE UNCHANGED vars
    BY <2>1 DEF vars, OneColumnPerName, Decoded, Given
  <2>2. CASE Decode
    <3> SUFFICES ASSUME src' # "web-access", line'.form = "object"
                 PROVE  (\A i \in DOMAIN Schema[src] :
                            LET column == Schema[src][i]
                                given == Given(column, line.m)
                            IN  /\ given = {} => Decoded = <<>> \/ Decoded[i].null
                                /\ (given # {} /\ \A k \in given : CanHold(column, line.m[k])) =>
                                       IF Decoded = <<>> THEN i # 1
                                       ELSE \E k \in given : Decoded[i] = Held(column, line.m[k]))'
      BY DEF OneColumnPerName
    <3>1. src' = src /\ line' = line /\ src \in {"generic-flow", "honeypot"} /\ line \in Lines[src]
      BY <2>2 DEF Decode, LineOfSource, Sources
    <3>2. result' = DecodeJSON(Fields[src], line) /\ line.form = "object"
      BY <2>2, <3>1 DEF Decode
    <3> DEFINE rec == DecodeJSON(Fields[src], line).rec
    <3>3. \A i \in DOMAIN Schema[src] :
              LET c == Schema[src][i]
                  T == Told(line.m, Names[src][c.name])
              IN  /\ T = {} => rec = <<>> \/ rec[i].null
                  /\ T # {} /\ (\A k \in T : CanHold(c, line.m[k])) =>
                         IF rec = <<>> THEN i # 1 ELSE \E k \in T : rec[i] = Held(c, line.m[k])
      BY <3>1, <3>2, ObjectHeld
    <3>4. Decoded' = rec
      BY <3>2 DEF Decoded
    <3> HIDE DEF rec
    <3>5. \A c : Given(c, line.m)' = Told(line.m, Names[src][c.name])
      BY <3>1 DEF Given, Told
    <3> QED  BY <3>1, <3>3, <3>4, <3>5
  <2> QED  BY <2>1, <2>2 DEF Next
<1> QED  BY <1>1, <1>2, LineInvariant, PTL DEF Spec
=============================================================================
