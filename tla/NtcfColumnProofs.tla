-------------------------- MODULE NtcfColumnProofs --------------------------
(***************************************************************************)
(* Facts about the column builder that the proofs of the writer and of the *)
(* indexes cite.                                                           *)
(***************************************************************************)
EXTENDS NtcfColumn, SequenceTheorems, FiniteSetTheorems, NaturalsInduction,
        WellFoundedInduction, TLAPS

(***************************************************************************)
(* Extrema.                                                                *)
(***************************************************************************)

\* A set of words that is not empty has a least element (Stats, builder.go:93).
LEMMA MinOfNats ==
    ASSUME NEW S \in SUBSET Nat, S # {}
    PROVE  Min(S) \in S /\ \A y \in S : Min(S) <= y
<1> DEFINE R == {ss \in Nat \X Nat : ss[1] < ss[2]}
<1>1. IsWellFoundedOn(R, Nat)
  BY NatLessThanWellFounded DEF OpToRel
<1>2. \E x \in S : \A y \in S : ~ (<<y, x>> \in R)
  <2> HIDE DEF R
  <2> QED  BY <1>1, WFMin
<1>3. PICK x \in S : \A y \in S : ~ (<<y, x>> \in R)
  BY <1>2
<1>4. \A y \in S : x <= y
  <2> SUFFICES ASSUME NEW y \in S PROVE x <= y
    OBVIOUS
  <2>1. x \in Nat /\ y \in Nat /\ <<y, x>> \notin R
    BY <1>3
  <2>2. ~ (y < x)
    BY <2>1
  <2> QED  BY <2>1, <2>2
<1> QED  BY <1>4 DEF Min

\* A bounded one has a greatest element.
LEMMA MaxOfNats ==
    ASSUME NEW n \in Nat, NEW S \in SUBSET (0 .. n), S # {}
    PROVE  Max(S) \in S /\ \A y \in S : Max(S) >= y
<1> DEFINE T == {n - y : y \in S}
<1>1. T \in SUBSET Nat /\ T # {}
  <2>1. \A y \in S : n - y \in Nat
    OBVIOUS
  <2>2. T \in SUBSET Nat
    BY <2>1
  <2> QED  BY <2>2
<1>2. Min(T) \in T /\ \A y \in T : Min(T) <= y
  <2> HIDE DEF T
  <2> QED  BY <1>1, MinOfNats
<1>3. PICK x \in S : Min(T) = n - x
  BY <1>2
<1>4. \A y \in S : x >= y
  BY <1>2, <1>3
<1> QED  BY <1>4 DEF Max

(***************************************************************************)
(* The builder.                                                            *)
(***************************************************************************)

\* Words are naturals, and 0 is one of them.
LEMMA WordFacts == Word \subseteq Nat /\ 0 \in Word /\ Null \notin Word
  BY ColumnAssumption DEF Word

LEMMA MakeSound ==
    ASSUME NEW vals \in Seq(Word), NEW present \in Seq({0, 1}),
           Len(present) \in {0, Len(vals)}
    PROVE  Sound([vals |-> vals, present |-> present])
  BY DEF Sound, Builder, Rows

LEMMA SoundFields ==
    ASSUME NEW b, Sound(b)
    PROVE  /\ b.vals \in Seq(Word) /\ b.present \in Seq({0, 1})
           /\ Rows(b) \in Nat /\ Len(b.vals) = Rows(b)
           /\ HasNulls(b) => Len(b.present) = Rows(b)
           /\ \A i \in 1 .. Rows(b) : b.vals[i] \in Word
  BY DEF Sound, Builder, Rows, HasNulls

\* A fresh builder, and one that Reset has emptied, is sound and has no rows.
LEMMA EmptyBuilder ==
    /\ \A b : Reset(b) = NewBuilder
    /\ Sound(NewBuilder)
    /\ Rows(NewBuilder) = 0
<1>1. <<>> \in Seq(Word) /\ <<>> \in Seq({0, 1})
  OBVIOUS
<1>2. Sound(NewBuilder) /\ Rows(NewBuilder) = 0
  BY <1>1, MakeSound DEF NewBuilder, Rows
<1> QED  BY <1>2 DEF Reset, NewBuilder

\* Appending a cell keeps the builder sound, adds one row, leaves every
\* earlier cell as it was and makes the new one readable: the marks that a
\* first null materialises change nothing (builder.go:35-70).
LEMMA AppendCellFacts ==
    ASSUME NEW b, Sound(b), NEW v \in Word \cup {Null}
    PROVE  /\ Sound(AppendCell(b, v))
           /\ Rows(AppendCell(b, v)) = Rows(b) + 1
           /\ \A i \in 1 .. Rows(b) : CellAt(AppendCell(b, v), i) = CellAt(b, i)
           /\ CellAt(AppendCell(b, v), Rows(b) + 1) = v
<1> DEFINE a == AppendCell(b, v)
           w == IF v = Null THEN 0 ELSE v
           marks == IF HasNulls(b) THEN b.present ELSE [i \in 1 .. Rows(b) |-> 1]
           more == IF v = Null THEN Append(marks, 0)
                   ELSE IF HasNulls(b) THEN Append(marks, 1) ELSE <<>>
<1>1. a = [vals |-> Append(b.vals, w), present |-> more]
  BY DEF AppendCell, AppendNull, AppendValue
<1>2. w \in Word /\ Append(b.vals, w) \in Seq(Word)
      /\ Len(Append(b.vals, w)) = Rows(b) + 1
      /\ Append(b.vals, w)[Rows(b) + 1] = w
      /\ \A i \in 1 .. Rows(b) : Append(b.vals, w)[i] = b.vals[i]
  BY WordFacts, SoundFields, AppendProperties
<1>3. /\ marks \in Seq({0, 1})
      /\ Len(marks) = Rows(b)
      /\ \A i \in 1 .. Rows(b) : marks[i] = 1 <=> Present(b, i)
  <2>1. CASE HasNulls(b)
    BY <2>1, SoundFields DEF Present
  <2>2. CASE ~ HasNulls(b)
    <3>1. [i \in 1 .. Rows(b) |-> 1] \in Seq({0, 1})
      BY SoundFields
    <3> QED  BY <2>2, <3>1, SoundFields DEF Present
  <2> QED  BY <2>1, <2>2
<1>4. \A m \in {0, 1} : /\ Append(marks, m) \in Seq({0, 1})
                         /\ Append(marks, m) # <<>>
                         /\ Len(Append(marks, m)) = Rows(b) + 1
                         /\ \A i \in 1 .. Rows(b) : Append(marks, m)[i] = marks[i]
                         /\ Append(marks, m)[Rows(b) + 1] = m
  <2> SUFFICES ASSUME NEW m \in {0, 1}
               PROVE  /\ Append(marks, m) \in Seq({0, 1})
                      /\ Append(marks, m) # <<>>
                      /\ Len(Append(marks, m)) = Rows(b) + 1
                      /\ \A i \in 1 .. Rows(b) : Append(marks, m)[i] = marks[i]
                      /\ Append(marks, m)[Rows(b) + 1] = m
    OBVIOUS
  <2> HIDE DEF marks
  <2> QED  BY <1>3, AppendProperties
<1> HIDE DEF marks
<1>5. more \in Seq({0, 1}) /\ Len(more) \in {0, Rows(b) + 1}
  BY <1>4
<1>6. \A i \in 1 .. Rows(b) : (more # <<>> => more[i] = 1) <=> Present(b, i)
  BY <1>3, <1>4 DEF Present
<1>7. (more # <<>> => more[Rows(b) + 1] = 1) <=> v # Null
  BY <1>4
<1> HIDE DEF more
<1>8. Sound(a)
  BY <1>1, <1>2, <1>5, MakeSound
<1>9. a.vals = Append(b.vals, w) /\ a.present = more
  BY <1>1
<1>10. Rows(a) = Rows(b) + 1
  BY <1>2, <1>9 DEF Rows
<1> HIDE DEF a, w
<1>11. \A i \in 1 .. Rows(b) : CellAt(a, i) = CellAt(b, i)
  BY <1>2, <1>6, <1>9 DEF CellAt, Present, HasNulls
<1>12. CellAt(a, Rows(b) + 1) = v
  BY <1>2, <1>7, <1>9 DEF CellAt, Present, HasNulls, w
<1> QED  BY <1>8, <1>10, <1>11, <1>12 DEF a

\* The statistics of a sound builder are words and a count (builder.go:93).
LEMMA StatsType ==
    ASSUME NEW b, Sound(b)
    PROVE  Stats(b) \in [hasNulls : BOOLEAN, nonNull : Nat, min : Word, max : Word]
<1>1. Rows(b) \in Nat /\ PresentRows(b) \subseteq 1 .. Rows(b)
  BY SoundFields DEF PresentRows
<1>2. Cardinality(PresentRows(b)) \in Nat
  <2>1. IsFiniteSet(1 .. Rows(b))
    BY <1>1, FS_Interval
  <2>2. IsFiniteSet(PresentRows(b))
    <3> HIDE DEF PresentRows
    <3> QED  BY <1>1, <2>1, FS_Subset
  <2> QED  BY <2>2, FS_CardinalityType
<1>3. PresentValues(b) \subseteq Word
  BY SoundFields DEF PresentValues, PresentRows
<1>4. PresentValues(b) # {} => /\ Min(PresentValues(b)) \in Word
                               /\ Max(PresentValues(b)) \in Word
  <2>1. 2 * HalfWord - 1 \in Nat
    BY ColumnAssumption
  <2>2. PresentValues(b) \in SUBSET Nat /\ PresentValues(b) \in SUBSET (0 .. 2 * HalfWord - 1)
    BY <1>3, WordFacts DEF Word
  <2> QED  BY <1>3, <2>1, <2>2, MinOfNats, MaxOfNats
<1>5. HasNulls(b) \in BOOLEAN
  BY DEF HasNulls
<1> QED  BY <1>2, <1>4, <1>5, WordFacts DEF Stats

(***************************************************************************)
(* Putting the elements of a set in order.                                 *)
(***************************************************************************)

\* A strict order of the elements of a finite set, as pairs, and how many of
\* them are before one.
StrictOrder(S, R) ==
    /\ IsFiniteSet(S)
    /\ \A x \in S : <<x, x>> \notin R
    /\ \A x, y, z \in S : <<x, y>> \in R /\ <<y, z>> \in R => <<x, z>> \in R
    /\ \A x, y \in S : x = y \/ <<x, y>> \in R \/ <<y, x>> \in R

Rank(S, R, x) == Cardinality({y \in S : <<y, x>> \in R})

\* More elements are before a later one.
LEMMA RankGrows ==
    ASSUME NEW S, NEW R, StrictOrder(S, R), NEW x \in S, NEW y \in S, <<x, y>> \in R
    PROVE  Rank(S, R, x) < Rank(S, R, y)
<1> DEFINE A == {z \in S : <<z, x>> \in R}
           B == {z \in S : <<z, y>> \in R}
<1>1. A \subseteq B /\ x \in B /\ x \notin A /\ A \subseteq S /\ B \subseteq S
  BY DEF StrictOrder
<1>2. IsFiniteSet(S)
  BY DEF StrictOrder
<1> HIDE DEF A, B
<1>3. IsFiniteSet(A) /\ IsFiniteSet(B) /\ Cardinality(A) \in Nat /\ Cardinality(B) \in Nat
  BY <1>1, <1>2, FS_Subset, FS_CardinalityType
<1>4. Cardinality(A) <= Cardinality(B) /\ (Cardinality(A) = Cardinality(B) => A = B)
  BY <1>1, <1>3, FS_Subset
<1>5. Cardinality(A) # Cardinality(B)
  BY <1>1, <1>4
<1>6. Rank(S, R, x) = Cardinality(A) /\ Rank(S, R, y) = Cardinality(B)
  BY DEF Rank, A, B
<1> QED  BY <1>3, <1>4, <1>5, <1>6

\* The numbers of elements before one are 0, 1, ... up to one less than all, each
\* for one element.
LEMMA RankFacts ==
    ASSUME NEW S, NEW R, StrictOrder(S, R)
    PROVE  /\ Cardinality(S) \in Nat
           /\ \A x \in S : Rank(S, R, x) \in 0 .. Cardinality(S) - 1
           /\ \A x, y \in S : Rank(S, R, x) = Rank(S, R, y) => x = y
           /\ \A k \in 0 .. Cardinality(S) - 1 : \E x \in S : Rank(S, R, x) = k
<1> DEFINE n == Cardinality(S)
           rank(x) == Rank(S, R, x)
<1>1. IsFiniteSet(S) /\ n \in Nat
  BY FS_CardinalityType DEF StrictOrder
<1>2. ASSUME NEW x \in S PROVE rank(x) \in 0 .. n - 1
  <2> DEFINE A == {z \in S : <<z, x>> \in R}
  <2>1. A \subseteq S /\ x \notin A
    BY DEF StrictOrder
  <2> HIDE DEF A
  <2>2. /\ Cardinality(A) \in Nat /\ Cardinality(A) <= n
        /\ (n = Cardinality(A) => S = A)
    BY <1>1, <2>1, FS_Subset, FS_CardinalityType
  <2>3. Cardinality(A) # n
    BY <2>1, <2>2
  <2>4. rank(x) = Cardinality(A)
    BY DEF Rank, A
  <2> HIDE DEF n, rank
  <2> QED  BY <1>1, <2>2, <2>3, <2>4
<1>3. ASSUME NEW x \in S, NEW y \in S, rank(x) = rank(y) PROVE x = y
  <2>1. rank(x) \in Nat
    BY <1>1, <1>2
  <2>2. <<x, y>> \in R => rank(x) < rank(y)
    BY RankGrows
  <2>3. <<y, x>> \in R => rank(y) < rank(x)
    BY RankGrows
  <2>4. x = y \/ <<x, y>> \in R \/ <<y, x>> \in R
    BY DEF StrictOrder
  <2> HIDE DEF rank
  <2> QED  BY <1>3, <2>1, <2>2, <2>3, <2>4
<1>4. \A k \in 0 .. n - 1 : \E x \in S : rank(x) = k
  <2> DEFINE f == [x \in S |-> rank(x)]
             T == 0 .. n - 1
  <2> HIDE DEF n, rank
  <2>1. f \in Injection(S, T)
    <3>1. f \in [S -> T]
      BY <1>2
    <3>2. \A a, b \in S : f[a] = f[b] => a = b
      BY <1>3
    <3> HIDE DEF f, T
    <3> QED  BY <3>1, <3>2 DEF Injection, IsInjective
  <2>2. IsFiniteSet(T) /\ Cardinality(T) = n
    <3>1. n - 1 \in Int
      BY <1>1
    <3>2. /\ IsFiniteSet(T)
          /\ Cardinality(T) = IF 0 > n - 1 THEN 0 ELSE (n - 1) - 0 + 1
      BY <3>1, FS_Interval
    <3> QED  BY <1>1, <3>2
  <2>3. f \in Surjection(S, T)
    <3> HIDE DEF f, T
    <3> QED  BY <2>1, <2>2, FS_Injection DEF n
  <2>4. \A t \in T : \E s \in S : f[s] = t
    <3> HIDE DEF f, T
    <3> QED  BY <2>3 DEF Surjection
  <2> QED  BY <2>4
<1> QED  BY <1>1, <1>2, <1>3, <1>4

\* Some element is the j-th.
LEMMA SomeOfRank ==
    ASSUME NEW S, NEW R, StrictOrder(S, R), NEW j \in 1 .. Cardinality(S)
    PROVE  \E x \in S : Rank(S, R, x) = j - 1
<1>1. /\ Cardinality(S) \in Nat
      /\ \A k \in 0 .. Cardinality(S) - 1 : \E x \in S : Rank(S, R, x) = k
  BY RankFacts
<1>2. j - 1 \in 0 .. Cardinality(S) - 1
  BY <1>1
<1> QED  BY <1>1, <1>2

\* The sequence f lists S in the order R.
Listed(S, R, f) ==
    f = [k \in 1 .. Cardinality(S) |-> CHOOSE x \in S : Rank(S, R, x) = k - 1]

\* The k-th element is the one with k - 1 before it.
LEMMA ChosenByRank ==
    ASSUME NEW S, NEW R, StrictOrder(S, R), NEW f, Listed(S, R, f)
    PROVE  /\ f \in Seq(S) /\ Len(f) = Cardinality(S) /\ Cardinality(S) \in Nat
           /\ \A x \in S : /\ Rank(S, R, x) + 1 \in 1 .. Cardinality(S)
                           /\ f[Rank(S, R, x) + 1] = x
<1> DEFINE n == Cardinality(S)
<1>0. f = [k \in 1 .. n |-> CHOOSE x \in S : Rank(S, R, x) = k - 1]
  BY DEF Listed
<1>1. /\ n \in Nat
      /\ \A x \in S : Rank(S, R, x) \in 0 .. n - 1
      /\ \A x, y \in S : Rank(S, R, x) = Rank(S, R, y) => x = y
      /\ \A k \in 0 .. n - 1 : \E x \in S : Rank(S, R, x) = k
  BY RankFacts
<1> HIDE DEF n
<1>2. \A k \in 1 .. n : k - 1 \in 0 .. n - 1
  BY <1>1
<1>3. \A k \in 1 .. n : f[k] \in S
  BY <1>0, <1>1, <1>2
<1>4. f \in Seq(S) /\ Len(f) = n
  <2>1. f \in [1 .. n -> S]
    BY <1>0, <1>3
  <2> QED  BY <1>1, <2>1
<1>5. ASSUME NEW x \in S PROVE Rank(S, R, x) + 1 \in 1 .. n /\ f[Rank(S, R, x) + 1] = x
  <2> DEFINE r == Rank(S, R, x)
  <2>1. r \in 0 .. n - 1
    BY <1>1
  <2>2. (CHOOSE y \in S : Rank(S, R, y) = r) = x
    BY <1>1
  <2> HIDE DEF r
  <2>3. r + 1 \in 1 .. n /\ (r + 1) - 1 = r
    BY <1>1, <2>1
  <2>4. f[r + 1] = x
    BY <1>0, <2>2, <2>3
  <2> QED  BY <2>3, <2>4 DEF r
<1> QED  BY <1>1, <1>4, <1>5 DEF n

\* Numbers in ascending order.
LEMMA NumbersInOrder ==
    ASSUME NEW S, S \subseteq Nat, IsFiniteSet(S)
    PROVE  LET f == InOrder(S, <)
           IN  /\ f \in Seq(S) /\ Len(f) = Cardinality(S) /\ Cardinality(S) \in Nat
               /\ \A x \in S : LET r == Cardinality({y \in S : y < x})
                               IN  r + 1 \in 1 .. Cardinality(S) /\ f[r + 1] = x
<1> DEFINE R == {p \in S \X S : p[1] < p[2]}
           kth(k) == CHOOSE x \in S : Cardinality({y \in S : y < x}) = k - 1
           f == [k \in 1 .. Cardinality(S) |-> kth(k)]
<1>1. \A x, y \in S : <<x, y>> \in R <=> x < y
  OBVIOUS
<1>2. StrictOrder(S, R)
  <2>1. \A x, y, z \in S : x < y /\ y < z => x < z
    OBVIOUS
  <2>2. \A x, y \in S : x = y \/ x < y \/ y < x
    OBVIOUS
  <2>3. \A x \in S : ~ (x < x)
    OBVIOUS
  <2> HIDE DEF R
  <2> QED  BY <1>1, <2>1, <2>2, <2>3 DEF StrictOrder
<1>3. \A x \in S : Rank(S, R, x) = Cardinality({y \in S : y < x})
  <2> SUFFICES ASSUME NEW x \in S
               PROVE  {y \in S : <<y, x>> \in R} = {y \in S : y < x}
    BY DEF Rank
  <2> HIDE DEF R
  <2> QED  BY <1>1
<1> HIDE DEF R
<1>4. Listed(S, R, f)
  <2> DEFINE pick(k) == CHOOSE x \in S : Rank(S, R, x) = k - 1
  <2>1. \A k : kth(k) = pick(k)
    BY <1>3
  <2> HIDE DEF pick, kth
  <2>2. f = [k \in 1 .. Cardinality(S) |-> pick(k)]
    BY <2>1
  <2> QED  BY <2>2 DEF Listed, pick
<1> HIDE DEF f, kth
<1>5. /\ f \in Seq(S) /\ Len(f) = Cardinality(S) /\ Cardinality(S) \in Nat
      /\ \A x \in S : /\ Rank(S, R, x) + 1 \in 1 .. Cardinality(S)
                      /\ f[Rank(S, R, x) + 1] = x
  BY <1>2, <1>4, ChosenByRank
<1>6. f = InOrder(S, <)
  BY DEF f, kth, InOrder
<1> QED  BY <1>3, <1>5, <1>6

\* Each number is less than the ones after it.
LEMMA NumbersAscend ==
    ASSUME NEW S, S \subseteq Nat, IsFiniteSet(S), NEW k \in 1 .. Cardinality(S) - 1
    PROVE  InOrder(S, <)[k] < InOrder(S, <)[k + 1]
<1> DEFINE f == InOrder(S, <)
           n == Cardinality(S)
           R == {p \in S \X S : p[1] < p[2]}
           r(x) == Cardinality({y \in S : y < x})
<1>1. f \in Seq(S) /\ Len(f) = n /\ n \in Nat /\ \A x \in S : r(x) + 1 \in 1 .. n /\ f[r(x) + 1] = x
  BY NumbersInOrder
<1>2. \A x, y \in S : <<x, y>> \in R <=> x < y
  OBVIOUS
<1>3. StrictOrder(S, R)
  <2>1. \A x, y, z \in S : x < y /\ y < z => x < z
    OBVIOUS
  <2>2. \A x, y \in S : x = y \/ x < y \/ y < x
    OBVIOUS
  <2>3. \A x \in S : ~ (x < x)
    OBVIOUS
  <2> HIDE DEF R
  <2> QED  BY <1>2, <2>1, <2>2, <2>3 DEF StrictOrder
<1>4. \A x \in S : Rank(S, R, x) = r(x)
  <2> SUFFICES ASSUME NEW x \in S
               PROVE  {y \in S : <<y, x>> \in R} = {y \in S : y < x}
    BY DEF Rank
  <2> HIDE DEF R
  <2> QED  BY <1>2
<1> HIDE DEF R, f, r
<1>5. ASSUME NEW j \in 1 .. n PROVE f[j] \in S /\ r(f[j]) = j - 1
  <2>1. PICK x \in S : Rank(S, R, x) = j - 1
    BY <1>3, SomeOfRank
  <2>2. r(x) = j - 1 /\ f[r(x) + 1] = x /\ (j - 1) + 1 = j
    BY <1>1, <1>4, <2>1
  <2> QED  BY <2>2
<1>6. k \in 1 .. n /\ k + 1 \in 1 .. n /\ k - 1 < (k + 1) - 1 /\ k - 1 \in Nat /\ (k + 1) - 1 \in Nat
  BY <1>1
<1>7. f[k] \in S /\ f[k + 1] \in S /\ r(f[k]) = k - 1 /\ r(f[k + 1]) = (k + 1) - 1
  BY <1>5, <1>6
<1> DEFINE u == f[k]
           v == f[k + 1]
<1>8. u \in S /\ v \in S /\ Rank(S, R, u) < Rank(S, R, v)
  BY <1>4, <1>6, <1>7
<1> HIDE DEF u, v
<1>9. Rank(S, R, u) \in Nat /\ Rank(S, R, v) \in Nat
  BY <1>4, <1>6, <1>7, <1>8 DEF u, v
<1>10. ~ (<<v, u>> \in R)
  <2> SUFFICES ASSUME <<v, u>> \in R PROVE FALSE
    OBVIOUS
  <2>1. Rank(S, R, v) < Rank(S, R, u)
    BY <1>3, <1>8, RankGrows
  <2> QED  BY <1>8, <1>9, <2>1
<1>11. u # v
  BY <1>8, <1>9
<1>12. u < v
  BY <1>2, <1>3, <1>8, <1>10, <1>11 DEF StrictOrder
<1> QED  BY <1>12 DEF u, v, f
=============================================================================
