-------------------------- MODULE NtcfQueryProofs --------------------------
(***************************************************************************)
(* A query that answers gives the answer of its row-by-row meaning, on     *)
(* every table the writer can make a file of, and whatever was pruned by   *)
(* zone maps and Bloom filters, looked up in inverted indexes or merged    *)
(* from them, and whichever chunks are damaged.                            *)
(*                                                                         *)
(* The argument goes from one column of one segment (an equality finds     *)
(* what a scan finds) over the file (each segment holds its rows of the    *)
(* table) and one segment (an expression answers the rows it matches) to   *)
(* the loop: what it found so far is right for the segments before the one *)
(* it is at.  Folds over rows and functions on expression trees are        *)
(* recursive functions; that they satisfy their equation is proved by      *)
(* minimal counterexample on the length and on the depth.                  *)
(***************************************************************************)
EXTENDS NtcfQuery, NtcfColumnProofs, FunctionTheorems, SequenceTheorems

\* A present value lies within the bounds of its column (builder.go:93).
LEMMA ZoneMapBounds ==
    ASSUME NEW b, Sound(b), NEW v \in PresentValues(b)
    PROVE  ~ ZoneExcludes(Stats(b), v)
<1> DEFINE S == PresentValues(b)
<1>1. S \in SUBSET (0 .. 2 * HalfWord - 1) /\ S \in SUBSET Nat /\ 2 * HalfWord - 1 \in Nat
  BY SoundFields, WordFacts, ColumnAssumption DEF PresentValues, PresentRows, Word
<1>2. S # {}
  OBVIOUS
<1>3. \A y \in S : Min(S) <= y /\ Max(S) >= y
  <2> HIDE DEF S
  <2> QED  BY <1>1, <1>2, MinOfNats, MaxOfNats
<1>4. Min(S) \in Nat /\ Max(S) \in Nat /\ v \in Nat
  <2> HIDE DEF S
  <2>1. Min(S) \in S /\ Max(S) \in S
    BY <1>1, <1>2, MinOfNats, MaxOfNats
  <2>2. v \in S
    BY DEF S
  <2> QED  BY <1>1, <2>1, <2>2
<1>5. Stats(b).min = Min(S) /\ Stats(b).max = Max(S)
  BY <1>2 DEF Stats
<1> QED  BY <1>3, <1>4, <1>5 DEF ZoneExcludes

\* A Bloom filter never denies a value it was built from (bloom.go:74-101).
LEMMA BloomHasNoFalseNegative ==
    ASSUME NEW b, NEW v \in PresentValues(b)
    PROVE  MayContain(BuildBloom(b), v)
  BY DEF MayContain, BuildBloom

\* A posting list is the rows that a scan for its value finds (inverted.go:29-78).
LEMMA LookupIsScan ==
    ASSUME NEW b, NEW v
    PROVE  Lookup(BuildInverted(b), v) = {i \in PresentRows(b) : b.vals[i] = v}
  BY DEF Lookup, BuildInverted, PresentValues

\* The rows of one equality on one segment are the non-null rows whose value
\* the literal stands for, and no others, with and without a blob, with and
\* without an inverted index (exec.go:187-229).
THEOREM EqualityIsScan ==
    ASSUME NEW s, NEW c \in Cols, NEW l, NEW b, Sound(b),
           file[s].columns[c] = ColumnOf(b, c),
           c \in EvalEquality(s, c, l).cols => <<s, c>> \notin damaged
    PROVE  EvalEquality(s, c, l).rows = {i \in PresentRows(b) : b.vals[i] \in Norm(c, l)}
<1> DEFINE cd == ColumnOf(b, c)
           V  == {v \in Norm(c, l) : /\ ~ ZoneExcludes(cd.stats, v)
                                     /\ cd.index.bloom => MayContain(cd.index.filter, v)}
           Hits == {i \in PresentRows(b) : b.vals[i] \in Norm(c, l)}
<1>1. cd.data = b /\ cd.stats = Stats(b)
  BY DEF ColumnOf
<1>2. /\ cd.index.bloom => cd.index.filter = BuildBloom(b)
      /\ cd.index.inverted => cd.index.postings = BuildInverted(b)
  BY DEF ColumnOf, BuildColumn, NoIndex
<1>3. \A v \in Norm(c, l) : v \in PresentValues(b) => v \in V
  BY <1>1, <1>2, ZoneMapBounds, BloomHasNoFalseNegative
<1>4. Hits = {i \in PresentRows(b) : b.vals[i] \in V}
  <2>1. \A i \in PresentRows(b) : b.vals[i] \in PresentValues(b)
    BY DEF PresentValues
  <2>2. \A v \in V : v \in Norm(c, l)
    OBVIOUS
  <2> HIDE DEF V
  <2> QED  BY <1>3, <2>1, <2>2
<1>5. <<s, c>> \notin damaged => ColumnData(s, c) = b
  BY <1>1 DEF ColumnData
<1>6. EvalEquality(s, c, l) =
         IF V = {} THEN Nothing
         ELSE IF cd.index.inverted
              THEN [rows |-> UNION {Lookup(cd.index.postings, v) : v \in V}, cols |-> {}]
              ELSE Scan(s, c, "=", V)
  BY DEF EvalEquality
<1> HIDE DEF cd, V
<1>7. CASE V = {}
  <2>1. EvalEquality(s, c, l).rows = {}
    BY <1>6, <1>7 DEF Nothing
  <2> QED  BY <1>4, <1>7, <2>1
<1>8. CASE V # {} /\ cd.index.inverted
  <2>1. EvalEquality(s, c, l).rows = UNION {Lookup(BuildInverted(b), v) : v \in V}
    BY <1>2, <1>6, <1>8
  <2>2. UNION {Lookup(BuildInverted(b), v) : v \in V}
           = UNION {{i \in PresentRows(b) : b.vals[i] = v} : v \in V}
    BY LookupIsScan
  <2> QED  BY <1>4, <2>1, <2>2
<1>9. CASE V # {} /\ ~ cd.index.inverted
  <2>1. EvalEquality(s, c, l) = Scan(s, c, "=", V)
    BY <1>6, <1>9
  <2>2. <<s, c>> \notin damaged
    BY <2>1 DEF Scan
  <2>3. Scan(s, c, "=", V).rows = {i \in PresentRows(b) : \E v \in V : b.vals[i] = v}
    BY <1>5, <2>2 DEF Scan, Compare
  <2> QED  BY <1>4, <2>1, <2>3
<1> QED  BY <1>7, <1>8, <1>9 DEF Hits

\* The parts of a fold over the rows 1 .. n, and the function it is the value of.
FoldParts(n, V, base, G) == n \in Nat /\ base \in V /\ G \in [(1 .. n) \X V -> V]

IsFoldOf(n, V, base, G, h) ==
    /\ h \in [SUBSET (1 .. n) -> V]
    /\ \A s \in SUBSET (1 .. n) :
          h[s] = IF s = {} THEN base ELSE G[<<Max(s), h[s \ {Max(s)}]>>]

\* A fold over the first n rows has a value: the least number of rows without one
\* would be one more than a number with one.
LEMMA FoldExists ==
    ASSUME NEW n, NEW V, NEW base, NEW G, FoldParts(n, V, base, G)
    PROVE  \E h : IsFoldOf(n, V, base, G, h)
<1> USE DEF FoldParts
<1> DEFINE Step(m, h) == [s \in SUBSET (1 .. m) |->
                             IF s = {} THEN base ELSE G[<<Max(s), h[s \ {Max(s)}]>>]]
           P(m) == \E h \in [SUBSET (1 .. m) -> V] : h = Step(m, h)
           Bad == {m \in 0 .. n : ~ P(m)}
<1>0. \A m \in 0 .. n : \A s \in SUBSET (1 .. m) :
         s # {} => Max(s) \in s /\ \A y \in s : Max(s) >= y
  <2> SUFFICES ASSUME NEW m \in 0 .. n, NEW s \in SUBSET (1 .. m), s # {}
               PROVE  Max(s) \in s /\ \A y \in s : Max(s) >= y
    OBVIOUS
  <2>1. m \in Nat /\ s \in SUBSET (0 .. m)
    OBVIOUS
  <2> QED  BY <2>1, MaxOfNats
<1>1. ASSUME NEW m \in 0 .. n, P(m), m + 1 \in 0 .. n PROVE P(m + 1)
  <2>1. PICK h \in [SUBSET (1 .. m) -> V] : h = Step(m, h)
    BY <1>1
  <2> DEFINE g == Step(m + 1, h)
  <2>2. ASSUME NEW s \in SUBSET (1 .. m + 1), s # {}
        PROVE  /\ s \ {Max(s)} \in SUBSET (1 .. m)
               /\ Max(s) \in 1 .. n
    <3>1. Max(s) \in s /\ \A y \in s : Max(s) >= y
      BY <1>0, <1>1, <2>2
    <3>5. m \in Nat /\ m + 1 <= n
      BY <1>1
    <3>6. Max(s) \in 1 .. m + 1
      BY <2>2, <3>1
    <3>2. Max(s) \in 1 .. m + 1 /\ m \in Nat /\ m + 1 <= n
      BY <3>5, <3>6
    <3>3. ASSUME NEW y \in s, y # Max(s) PROVE y \in 1 .. m
      <4>1. y \in 1 .. m + 1 /\ Max(s) >= y
        BY <2>2, <3>1
      <4> HIDE DEF Bad
      <4> QED  BY <3>2, <3>3, <4>1
    <3>4. Max(s) \in 1 .. n
      BY <3>2
    <3> QED  BY <3>3, <3>4
  <2>3. g \in [SUBSET (1 .. m + 1) -> V]
    <3> SUFFICES ASSUME NEW s \in SUBSET (1 .. m + 1), s # {}
                 PROVE  G[<<Max(s), h[s \ {Max(s)}]>>] \in V
      OBVIOUS
    <3>1. h[s \ {Max(s)}] \in V /\ Max(s) \in 1 .. n
      BY <2>1, <2>2
    <3> QED  BY <3>1
  <2>4. \A s \in SUBSET (1 .. m) : g[s] = h[s]
    <3> SUFFICES ASSUME NEW s \in SUBSET (1 .. m) PROVE g[s] = h[s]
      OBVIOUS
    <3>1. s \in SUBSET (1 .. m + 1)
      BY <1>1
    <3>2. h[s] = Step(m, h)[s]
      BY <2>1
    <3> QED  BY <3>1, <3>2
  <2>5. g = Step(m + 1, g)
    <3> SUFFICES ASSUME NEW s \in SUBSET (1 .. m + 1), s # {}
                 PROVE  h[s \ {Max(s)}] = g[s \ {Max(s)}]
      OBVIOUS
    <3> HIDE DEF g
    <3> QED  BY <2>2, <2>4
  <2> HIDE DEF Step, g
  <2> QED  BY <2>3, <2>5
<1>2. P(0)
  <2> DEFINE h == [s \in SUBSET (1 .. 0) |-> base]
  <2>1. \A s \in SUBSET (1 .. 0) : s = {}
    OBVIOUS
  <2>2. h \in [SUBSET (1 .. 0) -> V] /\ h = Step(0, h)
    BY <2>1
  <2> HIDE DEF h, Step
  <2> QED  BY <2>2
<1>3. Bad = {}
  <2> SUFFICES ASSUME Bad # {} PROVE FALSE
    OBVIOUS
  <2>1. Bad \in SUBSET Nat
    OBVIOUS
  <2> DEFINE k == Min(Bad)
  <2>2. k \in Bad /\ \A y \in Bad : k <= y
    <3> HIDE DEF Bad
    <3> QED  BY <2>1, MinOfNats
  <2> HIDE DEF k, P
  <2>3. k # 0 /\ k \in 0 .. n
    BY <1>2, <2>2
  <2>4. k - 1 \in 0 .. n /\ k - 1 \notin Bad
    BY <2>2, <2>3
  <2>5. P((k - 1) + 1)
    <3>1. P(k - 1)
      BY <2>4
    <3>2. (k - 1) + 1 \in 0 .. n
      BY <2>3
    <3> QED  BY <1>1, <2>4, <3>1, <3>2
  <2>6. (k - 1) + 1 = k
    BY <2>3
  <2> QED  BY <2>2, <2>5, <2>6
<1>4. P(n)
  <2> HIDE DEF P
  <2> QED  BY <1>3
<1>5. PICK h \in [SUBSET (1 .. n) -> V] : h = Step(n, h)
  BY <1>4
<1>6. IsFoldOf(n, V, base, G, h)
  BY <1>5 DEF IsFoldOf
<1> QED  BY <1>6

Row == [Cols -> Word \cup {Null}]

\* The builder of a column holds the cells that were appended to it, row by row
\* (writer.go:140-153, builder.go:35-70).
LEMMA BuilderHolds ==
    ASSUME NEW recs \in Seq(Row), NEW c \in Cols
    PROVE  /\ Sound(BuilderOf(recs, c))
           /\ Rows(BuilderOf(recs, c)) = Len(recs)
           /\ \A i \in 1 .. Len(recs) : CellAt(BuilderOf(recs, c), i) = recs[i][c]
<1> DEFINE n == Len(recs)
           V == {b \in Builder : Sound(b)}
           G == [x \in (1 .. n) \X V |-> AppendCell(x[2], recs[x[1]][c])]
           Eq(h) == [s \in SUBSET (1 .. n) |->
                        IF s = {} THEN NewBuilder
                        ELSE AppendCell(h[s \ {Max(s)}], recs[Max(s)][c])]
<1>1. n \in Nat /\ DOMAIN recs = 1 .. n /\ \A i \in 1 .. n : recs[i][c] \in Word \cup {Null}
  BY DEF Row
<1>2. NewBuilder \in V /\ Rows(NewBuilder) = 0
  BY EmptyBuilder DEF Sound
<1>3. FoldParts(n, V, NewBuilder, G)
  <2>1. \A i \in 1 .. n : \A b \in V : AppendCell(b, recs[i][c]) \in V
    <3> SUFFICES ASSUME NEW i \in 1 .. n, NEW b \in V PROVE AppendCell(b, recs[i][c]) \in V
      OBVIOUS
    <3>1. Sound(AppendCell(b, recs[i][c]))
      BY <1>1, AppendCellFacts
    <3> QED  BY <3>1 DEF Sound
  <2>2. G \in [(1 .. n) \X V -> V]
    <3> HIDE DEF V, n
    <3> QED  BY <2>1
  <2> HIDE DEF G, V
  <2> QED  BY <1>1, <1>2, <2>2 DEF FoldParts
<1>4. PICK g : IsFoldOf(n, V, NewBuilder, G, g)
  <2> HIDE DEF V, G, n
  <2> QED  BY <1>3, FoldExists
<1>5. \A s \in SUBSET (1 .. n) : s # {} => Max(s) \in s /\ \A y \in s : Max(s) >= y
  <2> SUFFICES ASSUME NEW s \in SUBSET (1 .. n), s # {}
               PROVE  Max(s) \in s /\ \A y \in s : Max(s) >= y
    OBVIOUS
  <2>1. s \in SUBSET (0 .. n)
    BY <1>1
  <2> HIDE DEF n
  <2> QED  BY <1>1, <2>1, MaxOfNats
<1>6. g = Eq(g)
  <2>1. g = [s \in SUBSET (1 .. n) |-> g[s]] /\ \A s \in SUBSET (1 .. n) : g[s] \in V
    <3> HIDE DEF V, G, n
    <3> QED  BY <1>4 DEF IsFoldOf
  <2> SUFFICES ASSUME NEW s \in SUBSET (1 .. n) PROVE g[s] = Eq(g)[s]
    <3> HIDE DEF V, G, n
    <3> QED  BY <2>1
  <2>2. CASE s = {}
    <3> HIDE DEF V, G, n
    <3> QED  BY <1>4, <2>2 DEF IsFoldOf
  <2>3. CASE s # {}
    <3>1. Max(s) \in 1 .. n /\ g[s \ {Max(s)}] \in V
      <4>1. s \ {Max(s)} \in SUBSET (1 .. n)
        OBVIOUS
      <4> HIDE DEF V, G, n
      <4> QED  BY <1>5, <2>1, <2>3, <4>1
    <3>2. g[s] = G[<<Max(s), g[s \ {Max(s)}]>>]
      <4> HIDE DEF V, G, n
      <4> QED  BY <1>4, <2>3 DEF IsFoldOf
    <3> HIDE DEF V, n
    <3> QED  BY <2>3, <3>1, <3>2
  <2> QED  BY <2>2, <2>3
<1>7. BuilderOf(recs, c) = (CHOOSE h : h = Eq(h))[1 .. n]
  <2>1. BuilderOf(recs, c) =
           (CHOOSE h : h = [s \in SUBSET (DOMAIN recs) |->
                              IF s = {} THEN NewBuilder
                              ELSE AppendCell(h[s \ {Max(s)}], recs[Max(s)][c])])[DOMAIN recs]
    BY DEF BuilderOf, FoldLeft, MapThenFoldSet
  <2> HIDE DEF V, G, n
  <2> QED  BY <1>1, <2>1
<1> DEFINE f == CHOOSE h : h = Eq(h)
<1>8. f = Eq(f)
  <2> HIDE DEF Eq
  <2> QED  BY <1>6
<1>9. BuilderOf(recs, c) = f[1 .. n]
  <2> HIDE DEF Eq, n
  <2> QED  BY <1>7
<1> HIDE DEF f
<1>10. /\ f[1 .. 0] = NewBuilder
       /\ \A k \in 1 .. n : f[1 .. k] = AppendCell(f[1 .. (k - 1)], recs[k][c])
  <2> HIDE DEF n
  <2>1. 1 .. 0 = {} /\ {} \in SUBSET (1 .. n)
    OBVIOUS
  <2>2. f[{}] = NewBuilder
    BY <1>8, <2>1
  <2>3. ASSUME NEW k \in 1 .. n
        PROVE  f[1 .. k] = AppendCell(f[1 .. (k - 1)], recs[k][c])
    <3>1. (1 .. k) \in SUBSET (1 .. n) /\ (1 .. k) # {} /\ k \in 1 .. k
      <4>1. k \in Nat /\ 1 <= k /\ k <= n
        BY <1>1
      <4>2. k \in 1 .. k
        BY <4>1
      <4>3. \A i \in 1 .. k : i \in 1 .. n
        BY <1>1, <4>1
      <4> QED  BY <4>2, <4>3
    <3>2. Max(1 .. k) \in 1 .. k /\ Max(1 .. k) >= k
      BY <1>5, <3>1
    <3>3. Max(1 .. k) = k
      BY <3>2
    <3>4. (1 .. k) \ {k} = 1 .. (k - 1)
      OBVIOUS
    <3>5. f[1 .. k] = AppendCell(f[(1 .. k) \ {Max(1 .. k)}], recs[Max(1 .. k)][c])
      BY <1>8, <3>1
    <3> QED  BY <3>3, <3>4, <3>5
  <2> QED  BY <2>1, <2>2, <2>3
<1> DEFINE Good(k) == /\ Sound(f[1 .. k])
                      /\ Rows(f[1 .. k]) = k
                      /\ \A i \in 1 .. k : CellAt(f[1 .. k], i) = recs[i][c]
           Bad == {k \in 0 .. n : ~ Good(k)}
<1>11. Good(0)
  <2>1. 1 .. 0 = {}
    OBVIOUS
  <2> QED  BY <1>10, <2>1, EmptyBuilder
<1>12. ASSUME NEW k \in 1 .. n, Good(k - 1) PROVE Good(k)
  <2> DEFINE b == f[1 .. (k - 1)]
             a == f[1 .. k]
             v == recs[k][c]
  <2>1. v \in Word \cup {Null} /\ k \in Nat /\ (k - 1) + 1 = k
    BY <1>1
  <2>2. a = AppendCell(b, v)
    BY <1>10
  <2>3. Sound(b) /\ Rows(b) = k - 1 /\ \A i \in 1 .. (k - 1) : CellAt(b, i) = recs[i][c]
    BY <1>12
  <2> HIDE DEF a, b, v, n
  <2>4. /\ Sound(a) /\ Rows(a) = k
        /\ \A i \in 1 .. (k - 1) : CellAt(a, i) = CellAt(b, i)
        /\ CellAt(a, k) = v
    BY <2>1, <2>2, <2>3, AppendCellFacts
  <2>5. \A i \in 1 .. k : CellAt(a, i) = recs[i][c]
    <3> SUFFICES ASSUME NEW i \in 1 .. k PROVE CellAt(a, i) = recs[i][c]
      OBVIOUS
    <3>1. i \in 1 .. (k - 1) \/ i = k
      BY <2>1
    <3> QED  BY <2>3, <2>4, <3>1 DEF v
  <2> QED  BY <2>4, <2>5 DEF a
<1>13. Bad = {}
  <2> SUFFICES ASSUME Bad # {} PROVE FALSE
    OBVIOUS
  <2> HIDE DEF n, Good
  <2>1. Bad \in SUBSET Nat
    BY <1>1
  <2> DEFINE k == Min(Bad)
  <2>2. k \in Bad /\ \A y \in Bad : k <= y
    <3> HIDE DEF Bad
    <3> QED  BY <2>1, MinOfNats
  <2> HIDE DEF k
  <2>3. k # 0 /\ k \in 0 .. n
    BY <1>11, <2>2
  <2>4. k \in 1 .. n /\ k - 1 \in 0 .. n /\ ~ (k <= k - 1)
    BY <1>1, <2>3
  <2>5. Good(k - 1)
    BY <2>2, <2>4
  <2> QED  BY <1>12, <2>2, <2>4, <2>5
<1>14. Good(n)
  <2> HIDE DEF Good, n
  <2>1. n \in 0 .. n
    BY <1>1
  <2> QED  BY <1>13, <2>1
<1> QED  BY <1>9, <1>14

\* The parts of a definition by recursion on finite trees, and the function it
\* defines.
TreeParts(E, depth, I, l, r, V, leaf, G) ==
    /\ depth \in [E -> Nat]
    /\ I \in SUBSET E /\ l \in [I -> E] /\ r \in [I -> E]
    /\ \A e \in I : depth[l[e]] < depth[e] /\ depth[r[e]] < depth[e]
    /\ leaf \in [E -> V]
    /\ G \in [E \X V \X V -> V]

TreeFunction(E, I, l, r, V, leaf, G, h) ==
    /\ h \in [E -> V]
    /\ \A e \in E : h[e] = IF e \in I THEN G[<<e, h[l[e]], h[r[e]]>>] ELSE leaf[e]

\* Such a function exists: the least depth at which there is none would be one more
\* than a depth at which there is one.
LEMMA TreeExists ==
    ASSUME NEW E, NEW depth, NEW I, NEW l, NEW r, NEW V, NEW leaf, NEW G,
           TreeParts(E, depth, I, l, r, V, leaf, G)
    PROVE  \E h : TreeFunction(E, I, l, r, V, leaf, G, h)
<1> USE DEF TreeParts
<1> DEFINE Under(n) == {e \in E : depth[e] < n}
           Value(h, e) == IF e \in I THEN G[<<e, h[l[e]], h[r[e]]>>] ELSE leaf[e]
           Fits(n, h) == h \in [Under(n) -> V] /\ \A e \in Under(n) : h[e] = Value(h, e)
           P(n) == \E h : Fits(n, h)
           Bad == {n \in Nat : ~ P(n)}
<1>1. ASSUME NEW n \in Nat, NEW e \in Under(n + 1), e \in I
      PROVE  l[e] \in Under(n) /\ r[e] \in Under(n)
  <2>1. depth[e] < n + 1 /\ depth[l[e]] < depth[e] /\ depth[r[e]] < depth[e]
    BY <1>1
  <2>2. /\ l[e] \in E /\ r[e] \in E /\ depth[e] \in Nat
        /\ depth[l[e]] \in Nat /\ depth[r[e]] \in Nat
    BY <1>1
  <2>3. depth[l[e]] < n /\ depth[r[e]] < n
    BY <2>1, <2>2
  <2> QED  BY <2>2, <2>3
<1>2. ASSUME NEW n \in Nat, NEW h, Fits(n, h)
      PROVE  LET g == [e \in Under(n + 1) |-> Value(h, e)]
             IN  Fits(n + 1, g) /\ \A e \in Under(n) : g[e] = h[e]
  <2> DEFINE g == [e \in Under(n + 1) |-> Value(h, e)]
  <2>1. \A e \in Under(n) : e \in Under(n + 1)
    BY <1>2
  <2>2. \A e \in Under(n) : g[e] = h[e]
    BY <1>2, <2>1
  <2>3. \A e \in Under(n + 1) : Value(h, e) \in V
    <3> SUFFICES ASSUME NEW e \in Under(n + 1) PROVE Value(h, e) \in V
      OBVIOUS
    <3>1. CASE e \in I
      <4>1. h[l[e]] \in V /\ h[r[e]] \in V
        BY <1>1, <1>2, <3>1
      <4> QED  BY <3>1, <4>1
    <3>2. CASE e \notin I
      BY <3>2
    <3> QED  BY <3>1, <3>2
  <2>4. \A e \in Under(n + 1) : Value(g, e) = Value(h, e)
    <3> HIDE DEF g, Under
    <3> QED  BY <1>1, <2>2
  <2> HIDE DEF Value, Under
  <2> QED  BY <2>2, <2>3, <2>4
<1>3. ASSUME NEW n \in Nat, P(n) PROVE P(n + 1)
  <2> HIDE DEF Fits
  <2> QED  BY <1>2, <1>3
<1>4. P(0)
  <2>1. Under(0) = {}
    OBVIOUS
  <2>2. Fits(0, [e \in Under(0) |-> leaf[e]])
    BY <2>1
  <2> HIDE DEF Fits, Under
  <2> QED  BY <2>2
<1>5. Bad = {}
  <2> SUFFICES ASSUME Bad # {} PROVE FALSE
    OBVIOUS
  <2>1. Bad \in SUBSET Nat
    OBVIOUS
  <2> DEFINE k == Min(Bad)
  <2>2. k \in Bad /\ \A y \in Bad : k <= y
    <3> HIDE DEF Bad
    <3> QED  BY <2>1, MinOfNats
  <2> HIDE DEF k, P
  <2>3. k # 0 /\ k \in Nat
    BY <1>4, <2>2
  <2>4. k - 1 \in Nat /\ k - 1 \notin Bad
    BY <2>2, <2>3
  <2>5. P((k - 1) + 1)
    <3>1. P(k - 1)
      BY <2>4
    <3> QED  BY <1>3, <2>4, <3>1
  <2>6. (k - 1) + 1 = k
    BY <2>3
  <2> QED  BY <2>2, <2>5, <2>6
<1> DEFINE F(n) == CHOOSE h : Fits(n, h)
<1>6. \A n \in Nat : Fits(n, F(n))
  <2>1. \A n \in Nat : P(n)
    <3> HIDE DEF P
    <3> QED  BY <1>5
  <2> HIDE DEF Fits
  <2> QED  BY <2>1
<1>7. \A n \in Nat : \A h, g : Fits(n, h) /\ Fits(n + 1, g) =>
         \A e \in Under(n) : h[e] = g[e]
  <2> SUFFICES ASSUME NEW n \in Nat, NEW h, NEW g, Fits(n, h), Fits(n + 1, g)
               PROVE  \A e \in Under(n) : h[e] = g[e]
    <3> HIDE DEF Fits, Under
    <3> QED  OBVIOUS
  <2> DEFINE Off == {m \in Nat : \E e \in Under(n) : depth[e] = m /\ h[e] # g[e]}
  <2>1. Off \in SUBSET Nat
    OBVIOUS
  <2>2. ASSUME Off # {} PROVE FALSE
    <3> DEFINE m == Min(Off)
    <3>1. m \in Off /\ \A y \in Off : m <= y
      <4> HIDE DEF Off
      <4> QED  BY <2>1, <2>2, MinOfNats
    <3>2. PICK e \in Under(n) : depth[e] = m /\ h[e] # g[e]
      BY <3>1
    <3>3. e \in Under(n + 1) /\ m \in Nat
      <4>1. depth[e] \in Nat /\ depth[e] < n
        OBVIOUS
      <4>2. depth[e] < n + 1
        BY <4>1
      <4> QED  BY <3>1, <4>2
    <3>4. h[e] = Value(h, e) /\ g[e] = Value(g, e)
      BY <3>3
    <3>5. CASE e \in I
      <4>1. l[e] \in Under(n) /\ r[e] \in Under(n)
        BY <1>1, <3>3, <3>5
      <4>2. depth[l[e]] \in Nat /\ depth[r[e]] \in Nat /\ depth[l[e]] < m /\ depth[r[e]] < m
        BY <3>2, <3>5
      <4>3. depth[l[e]] \notin Off /\ depth[r[e]] \notin Off
        <5> HIDE DEF m, Off
        <5> QED  BY <3>1, <3>3, <4>2
      <4>4. h[l[e]] = g[l[e]] /\ h[r[e]] = g[r[e]]
        BY <4>1, <4>2, <4>3
      <4> QED  BY <3>2, <3>4, <3>5, <4>4
    <3>6. CASE e \notin I
      BY <3>2, <3>4, <3>6
    <3> QED  BY <3>5, <3>6
  <2>3. \A e \in Under(n) : depth[e] \in Nat
    OBVIOUS
  <2> QED  BY <2>2, <2>3
<1> HIDE DEF F
<1> DEFINE h == [e \in E |-> F(depth[e] + 1)[e]]
<1>8. \A n \in Nat : \A e \in Under(n) : F(n)[e] = h[e]
  <2> DEFINE Diff == {n \in Nat : \E e \in Under(n) : F(n)[e] # h[e]}
  <2>1. Diff \in SUBSET Nat
    OBVIOUS
  <2>2. ASSUME Diff # {} PROVE FALSE
    <3> DEFINE k == Min(Diff)
    <3>1. k \in Diff /\ \A y \in Diff : k <= y
      <4> HIDE DEF Diff
      <4> QED  BY <2>1, <2>2, MinOfNats
    <3>2. PICK e \in Under(k) : F(k)[e] # h[e]
      BY <3>1
    <3> HIDE DEF k
    <3>3. k \in Nat /\ depth[e] \in Nat /\ depth[e] < k
      BY <3>1
    <3>4. k - 1 \in Nat /\ (k - 1) + 1 = k /\ k # depth[e] + 1
      <4>1. k # depth[e] + 1
        BY <3>2, <3>3
      <4> QED  BY <3>3, <4>1
    <3>5. e \in Under(k - 1)
      BY <3>3, <3>4
    <3>6. k - 1 \notin Diff
      BY <3>1, <3>4
    <3>7. F(k - 1)[e] = h[e]
      BY <3>4, <3>5, <3>6
    <3>8. F(k - 1)[e] = F(k)[e]
      <4>1. Fits(k - 1, F(k - 1)) /\ Fits((k - 1) + 1, F(k))
        <5> HIDE DEF Fits
        <5> QED  BY <1>6, <3>3, <3>4
      <4> HIDE DEF Fits, Under
      <4> QED  BY <1>7, <3>4, <3>5, <4>1
    <3> QED  BY <3>2, <3>7, <3>8
  <2> QED  BY <2>2
<1>9. h \in [E -> V]
  <2>1. \A e \in E : depth[e] + 1 \in Nat /\ e \in Under(depth[e] + 1)
    OBVIOUS
  <2>2. \A e \in E : F(depth[e] + 1)[e] \in V
    BY <1>6, <2>1
  <2> QED  BY <2>2
<1>10. ASSUME NEW e \in E PROVE h[e] = Value(h, e)
  <2> DEFINE n == depth[e] + 1
  <2>1. n \in Nat /\ e \in Under(n) /\ Under(n) \subseteq Under(n + 1)
    OBVIOUS
  <2>2. F(n)[e] = Value(F(n), e)
    BY <1>6, <2>1
  <2>3. e \in I => l[e] \in Under(n) /\ r[e] \in Under(n)
    BY <1>1, <2>1
  <2> HIDE DEF n, h, Under, Fits
  <2> QED  BY <1>8, <2>1, <2>2, <2>3
<1> HIDE DEF h
<1> QED  BY <1>9, <1>10 DEF TreeFunction

Inner == {e \in Exprs : e.op \in {"and", "or"}}
Left == [e \in Inner |-> e.l]
Right == [e \in Inner |-> e.r]

\* AND and OR have smaller expressions for parts, so anything may be defined
\* along them.
LEMMA ExprTree ==
    ASSUME NEW depth, ParsedExprs(depth), NEW V, NEW leaf \in [Exprs -> V],
           NEW G \in [Exprs \X V \X V -> V]
    PROVE  \E h : TreeFunction(Exprs, Inner, Left, Right, V, leaf, G, h)
<1>1. \A e \in Inner : e.l \in Exprs /\ e.r \in Exprs
  BY QueryAssumption DEF Inner
<1>2. \A e \in Inner : depth[e.l] < depth[e] /\ depth[e.r] < depth[e]
  BY DEF Inner, ParsedExprs
<1>3. TreeParts(Exprs, depth, Inner, Left, Right, V, leaf, G)
  BY <1>1, <1>2 DEF TreeParts, Inner, Left, Right, ParsedExprs
<1> QED  BY <1>3, TreeExists

\* The value of a tree in terms of its parts' values (exec.go:125-160).
LEMMA TreeEquation ==
    ASSUME NEW V, NEW leaf, NEW G, NEW h,
           TreeFunction(Exprs, Inner, Left, Right, V, leaf, G, h), NEW e \in Exprs
    PROVE  /\ DOMAIN h = Exprs /\ h[e] \in V
           /\ e \in Inner => /\ e.l \in Exprs /\ h[e.l] \in V
                             /\ e.r \in Exprs /\ h[e.r] \in V
                             /\ h[e] = G[<<e, h[e.l], h[e.r]>>]
           /\ e \notin Inner => h[e] = leaf[e]
<1>1. \A x \in Inner : x.l \in Exprs /\ x.r \in Exprs
  BY QueryAssumption DEF Inner
<1> QED  BY <1>1 DEF TreeFunction, Left, Right

\* The columns of an expression are those of its parts (exec.go:77-99).
LEMMA ColumnsRecursion ==
    ASSUME NEW depth, ParsedExprs(depth), NEW e \in Exprs
    PROVE  ExprColumns[e] = IF e.op = "all" THEN {}
                            ELSE IF e.op \in {"and", "or"}
                                 THEN ExprColumns[e.l] \cup ExprColumns[e.r]
                                 ELSE {e.col}
<1> DEFINE Eq(h) == [x \in Exprs |->
                        IF x.op = "all" THEN {}
                        ELSE IF x.op \in {"and", "or"} THEN h[x.l] \cup h[x.r]
                        ELSE {x.col}]
           V == SUBSET {x.col : x \in Exprs}
           leaf == [x \in Exprs |-> IF x.op = "all" THEN {} ELSE {x.col}]
           G == [x \in Exprs \X V \X V |-> x[2] \cup x[3]]
<1>1. leaf \in [Exprs -> V] /\ G \in [Exprs \X V \X V -> V]
  OBVIOUS
<1>2. PICK h : TreeFunction(Exprs, Inner, Left, Right, V, leaf, G, h)
  <2> HIDE DEF leaf, G, V
  <2> QED  BY <1>1, ExprTree
<1>3. \A x \in Exprs : /\ DOMAIN h = Exprs
                       /\ x \in Inner => /\ h[x.l] \in V /\ h[x.r] \in V
                                         /\ h[x] = G[<<x, h[x.l], h[x.r]>>]
                       /\ x \notin Inner => h[x] = leaf[x]
  <2> HIDE DEF leaf, G, V
  <2> QED  BY <1>2, TreeEquation
<1>4. h = Eq(h)
  <2>1. h = [x \in Exprs |-> h[x]]
    BY <1>2 DEF TreeFunction
  <2> SUFFICES ASSUME NEW x \in Exprs PROVE h[x] = Eq(h)[x]
    BY <2>1
  <2> QED  BY <1>3 DEF Inner
<1>5. ExprColumns = (CHOOSE g : g = Eq(g))
  BY DEF ExprColumns
<1>6. ExprColumns = Eq(ExprColumns)
  <2> HIDE DEF Eq
  <2> QED  BY <1>4, <1>5
<1> QED  BY <1>6

\* A segment is evaluated part by part (exec.go:125-160).
LEMMA EvalRecursion ==
    ASSUME NEW depth, ParsedExprs(depth), NEW s, NEW e \in Exprs
    PROVE  EvalSegment(s, e) =
              IF e.op = "all" THEN [rows |-> 1 .. file[s].rows, cols |-> {}]
              ELSE IF e.op = "and"
                   THEN [rows |-> EvalSegment(s, e.l).rows \cap EvalSegment(s, e.r).rows,
                         cols |-> EvalSegment(s, e.l).cols \cup EvalSegment(s, e.r).cols]
              ELSE IF e.op = "or"
                   THEN [rows |-> EvalSegment(s, e.l).rows \cup EvalSegment(s, e.r).rows,
                         cols |-> EvalSegment(s, e.l).cols \cup EvalSegment(s, e.r).cols]
              ELSE EvalCmp(s, e)
<1> DEFINE Whole == [rows |-> 1 .. file[s].rows, cols |-> {}]
           Meet(a, b) == [rows |-> a.rows \cap b.rows, cols |-> a.cols \cup b.cols]
           Join(a, b) == [rows |-> a.rows \cup b.rows, cols |-> a.cols \cup b.cols]
           Eq(h) == [x \in Exprs |->
                        IF x.op = "all" THEN Whole
                        ELSE IF x.op = "and" THEN Meet(h[x.l], h[x.r])
                        ELSE IF x.op = "or" THEN Join(h[x.l], h[x.r])
                        ELSE EvalCmp(s, x)]
           leaf == [x \in Exprs |-> IF x.op = "all" THEN Whole ELSE EvalCmp(s, x)]
           L == {leaf[x] : x \in Exprs}
           R == UNION {v.rows : v \in L}
           C == UNION {v.cols : v \in L}
           V == L \cup [rows : SUBSET R, cols : SUBSET C]
           G == [x \in Exprs \X V \X V |->
                   IF x[1].op = "and" THEN Meet(x[2], x[3]) ELSE Join(x[2], x[3])]
<1>1. leaf \in [Exprs -> V] /\ G \in [Exprs \X V \X V -> V]
  <2>1. \A v \in V : v.rows \subseteq R /\ v.cols \subseteq C
    <3> HIDE DEF leaf
    <3> QED  OBVIOUS
  <2>2. \A a, b \in V : Meet(a, b) \in V /\ Join(a, b) \in V
    <3> SUFFICES ASSUME NEW a \in V, NEW b \in V PROVE Meet(a, b) \in V /\ Join(a, b) \in V
      OBVIOUS
    <3>1. /\ a.rows \cap b.rows \in SUBSET R /\ a.rows \cup b.rows \in SUBSET R
          /\ a.cols \cup b.cols \in SUBSET C
      <4> HIDE DEF R, C, V
      <4> QED  BY <2>1
    <3> HIDE DEF L, R, C
    <3> QED  BY <3>1
  <2>3. \A x \in Exprs : leaf[x] \in V
    <3>1. \A x \in Exprs : leaf[x] \in L
      <4> HIDE DEF leaf
      <4> QED  OBVIOUS
    <3> HIDE DEF leaf, L, R, C
    <3> QED  BY <3>1
  <2>4. leaf \in [Exprs -> V]
    <3>1. leaf = [x \in Exprs |-> leaf[x]]
      OBVIOUS
    <3> HIDE DEF leaf, V
    <3> QED  BY <2>3, <3>1
  <2> HIDE DEF V, Meet, Join, leaf
  <2> QED  BY <2>2, <2>4
<1>2. PICK h : TreeFunction(Exprs, Inner, Left, Right, V, leaf, G, h)
  <2> HIDE DEF leaf, G, V
  <2> QED  BY <1>1, ExprTree
<1>3. \A x \in Exprs : /\ DOMAIN h = Exprs
                       /\ x \in Inner => /\ h[x.l] \in V /\ h[x.r] \in V
                                         /\ h[x] = G[<<x, h[x.l], h[x.r]>>]
                       /\ x \notin Inner => h[x] = leaf[x]
  <2> HIDE DEF leaf, G, V
  <2> QED  BY <1>2, TreeEquation
<1>4. h = Eq(h)
  <2>1. h = [x \in Exprs |-> h[x]]
    <3> HIDE DEF leaf, G, V
    <3> QED  BY <1>2 DEF TreeFunction
  <2> SUFFICES ASSUME NEW x \in Exprs PROVE h[x] = Eq(h)[x]
    <3> HIDE DEF Meet, Join, Whole
    <3> QED  BY <2>1
  <2> HIDE DEF V, Meet, Join, Whole
  <2>2. CASE x \in Inner
    BY <1>3, <2>2 DEF Inner
  <2>3. CASE x \notin Inner
    BY <1>3, <2>3 DEF Inner
  <2> QED  BY <2>2, <2>3
<1>5. \A x : EvalSegment(s, x) = (CHOOSE g : g = Eq(g))[x]
  BY DEF EvalSegment
<1> DEFINE ev == CHOOSE g : g = Eq(g)
<1>6. ev = Eq(ev)
  <2> HIDE DEF Eq
  <2> QED  BY <1>4
<1>7. \A x : EvalSegment(s, x) = ev[x]
  <2> HIDE DEF Eq
  <2> QED  BY <1>5
<1> HIDE DEF ev
<1>8. ev[e] = Eq(ev)[e]
  BY <1>6
<1> QED  BY <1>7, <1>8

\* What a comparison says of a row (exec.go:162-183, docs/QueryEngine.md).
CmpMatches(row, e) ==
    /\ row[e.col] # Null
    /\ \E l \in ToSet(e.vals) : \E v \in Norm(e.col, l) :
          Holds(e.col, IF e.op = "in" THEN "=" ELSE e.op, row[e.col], v)

\* A row is matched part by part.
LEMMA MatchRecursion ==
    ASSUME NEW depth, ParsedExprs(depth), NEW row, NEW e \in Exprs
    PROVE  /\ e.op = "all" => Matches(row, e)
           /\ e.op = "and" => (Matches(row, e) <=> Matches(row, e.l) /\ Matches(row, e.r))
           /\ e.op = "or" => (Matches(row, e) <=> Matches(row, e.l) \/ Matches(row, e.r))
           /\ e.op \notin {"all", "and", "or"} => (Matches(row, e) <=> CmpMatches(row, e))
<1> DEFINE Eq(h) == [x \in Exprs |->
                        IF x.op = "all" THEN TRUE
                        ELSE IF x.op = "and" THEN h[x.l] /\ h[x.r]
                        ELSE IF x.op = "or" THEN h[x.l] \/ h[x.r]
                        ELSE CmpMatches(row, x)]
           V == BOOLEAN
           leaf == [x \in Exprs |-> IF x.op = "all" THEN TRUE ELSE CmpMatches(row, x)]
           G == [x \in Exprs \X V \X V |->
                   IF x[1].op = "and" THEN x[2] /\ x[3] ELSE x[2] \/ x[3]]
<1>1. leaf \in [Exprs -> V] /\ G \in [Exprs \X V \X V -> V]
  BY DEF CmpMatches
<1>2. PICK h : TreeFunction(Exprs, Inner, Left, Right, V, leaf, G, h)
  <2> HIDE DEF leaf, G, V
  <2> QED  BY <1>1, ExprTree
<1>3. \A x \in Exprs : /\ DOMAIN h = Exprs
                       /\ x \in Inner => /\ h[x.l] \in V /\ h[x.r] \in V
                                         /\ h[x] = G[<<x, h[x.l], h[x.r]>>]
                       /\ x \notin Inner => h[x] = leaf[x]
  <2> HIDE DEF leaf, G, V
  <2> QED  BY <1>2, TreeEquation
<1>4. h = Eq(h)
  <2>1. h = [x \in Exprs |-> h[x]]
    <3> HIDE DEF leaf, G, V
    <3> QED  BY <1>2 DEF TreeFunction
  <2> SUFFICES ASSUME NEW x \in Exprs PROVE h[x] = Eq(h)[x]
    BY <2>1
  <2>2. CASE x \in Inner
    BY <1>3, <2>2 DEF Inner
  <2>3. CASE x \notin Inner
    BY <1>3, <2>3 DEF Inner
  <2> QED  BY <2>2, <2>3
<1>5. \A x : Matches(row, x) = (CHOOSE g : g = Eq(g))[x]
  BY DEF Matches, CmpMatches
<1> DEFINE match == CHOOSE g : g = Eq(g)
<1>6. match = Eq(match)
  <2> HIDE DEF Eq
  <2> QED  BY <1>4
<1>7. \A x : Matches(row, x) = match[x]
  <2> HIDE DEF Eq
  <2> QED  BY <1>5
<1> HIDE DEF match
<1>8. match[e] = Eq(match)[e]
  BY <1>6
<1> QED  BY <1>7, <1>8

(***************************************************************************)
(* The segments of a file.                                                 *)
(***************************************************************************)
Parts == (Len(table) + SegmentRows - 1) \div SegmentRows
Offset(s) == (s - 1) * SegmentRows
Size(s) == (IF s * SegmentRows < Len(table) THEN s * SegmentRows ELSE Len(table)) - Offset(s)

\* The rows of the table that segment s holds.
RowsOf(s) == {i \in 1 .. Len(table) : SegmentOfRow(i) = s}

FileFits == table \in Tables /\ file = Segments(table) /\ stmt \in Stmts

\* A table is a sequence of rows (writer.go:115-160).
LEMMA TableType ==
    ASSUME FileFits
    PROVE  table \in Seq(Row) /\ Len(table) \in Nat /\ SegmentRows \in Nat \ {0}
  BY QueryAssumption DEF FileFits, Row

\* The segments follow each other without gaps, each of them has rows, and only
\* the last has fewer than SegmentRows (writer.go:154-158).
LEMMA SegmentBounds ==
    ASSUME FileFits, NEW s \in 1 .. Parts
    PROVE  /\ Offset(s) \in Nat /\ Size(s) \in Nat \ {0}
           /\ Offset(s) + Size(s) <= Len(table)
           /\ \A i \in 1 .. Len(table) :
                 SegmentOfRow(i) = s <=> i \in Offset(s) + 1 .. Offset(s) + Size(s)
<1> DEFINE n == Len(table)
           S == SegmentRows
           p == (s - 1) * S
<1>1. n \in Nat /\ S \in Nat \ {0}
  BY TableType
<1> HIDE DEF n, S
<1>2. s \in Nat /\ 1 <= s /\ s <= (n + S - 1) \div S
  BY <1>1 DEF Parts, n, S
<1>3. p \in Nat /\ s * S = p + S
  BY <1>1, <1>2
<1>4. p < n
  <2>1. ((n + S - 1) \div S) * S <= n + S - 1 /\ (n + S - 1) \div S \in Nat
    BY <1>1
  <2>2. s * S <= ((n + S - 1) \div S) * S
    BY <1>1, <1>2, <2>1
  <2> DEFINE q == ((n + S - 1) \div S) * S
             t == s * S
  <2>3. q \in Nat /\ t \in Nat
    BY <1>1, <1>2, <2>1
  <2> HIDE DEF p, q, t
  <2>4. t <= q /\ q <= n + S - 1 /\ t = p + S
    BY <1>3, <2>1, <2>2 DEF q, t
  <2> QED  BY <1>1, <1>3, <2>3, <2>4
<1>5. Offset(s) = p /\ Size(s) = (IF p + S < n THEN p + S ELSE n) - p
  BY <1>3 DEF Offset, Size, n, S
<1>6. \A i \in 1 .. n : (i - 1) \div S + 1 = s <=> i \in p + 1 .. p + S
  <2> SUFFICES ASSUME NEW i \in 1 .. n
               PROVE  (i - 1) \div S + 1 = s <=> i \in p + 1 .. p + S
    OBVIOUS
  <2>1. i - 1 \in Nat
    OBVIOUS
  <2> DEFINE q == (i - 1) \div S
  <2>2. q \in Nat /\ q * S <= i - 1 /\ i - 1 < q * S + S
    BY <1>1, <2>1
  <2>3. ASSUME q + 1 = s PROVE i \in p + 1 .. p + S
    <3>1. q = s - 1
      BY <1>2, <2>2, <2>3
    <3> QED  BY <1>1, <1>3, <2>1, <2>2, <3>1
  <2>4. ASSUME i \in p + 1 .. p + S PROVE q + 1 = s
    <3>1. p <= i - 1 /\ i - 1 < p + S
      BY <1>1, <1>3, <2>1, <2>4
    <3>2. (s - 1) * S < q * S + S /\ q * S < (s - 1) * S + S
      BY <1>1, <1>2, <2>1, <2>2, <3>1
    <3> HIDE DEF q
    <3>3. (s - 1) < q + 1 /\ q < (s - 1) + 1
      <4>1. (q + 1) * S = q * S + S /\ ((s - 1) + 1) * S = (s - 1) * S + S
        BY <1>1, <1>2, <2>2
      <4>2. \A a, b \in Nat : a * S < b * S => a < b
        BY <1>1
      <4> QED  BY <1>2, <2>2, <3>2, <4>1, <4>2
    <3> QED  BY <1>2, <2>2, <3>3
  <2> QED  BY <2>3, <2>4
<1> HIDE DEF p
<1>7. Offset(s) \in Nat /\ Size(s) \in Nat \ {0} /\ Offset(s) + Size(s) <= n
  BY <1>1, <1>3, <1>4, <1>5
<1>8. \A i \in 1 .. n : SegmentOfRow(i) = s <=> i \in p + 1 .. p + S
  BY <1>6 DEF SegmentOfRow, S
<1>9. \A i \in 1 .. n : i \in p + 1 .. p + S <=> i \in Offset(s) + 1 .. Offset(s) + Size(s)
  BY <1>1, <1>3, <1>4, <1>5
<1> QED  BY <1>7, <1>8, <1>9 DEF n

\* Every row is in one of them.
LEMMA RowHasSegment ==
    ASSUME FileFits, NEW i \in 1 .. Len(table)
    PROVE  SegmentOfRow(i) \in 1 .. Parts
<1> DEFINE n == Len(table)
           S == SegmentRows
           q == (i - 1) \div S
           m == (n + S - 1) \div S
<1>1. n \in Nat /\ S \in Nat \ {0} /\ i - 1 \in Nat /\ i <= n
  BY TableType
<1> HIDE DEF n, S
<1>2. q \in Nat /\ q * S <= i - 1
  BY <1>1
<1>3. m \in Nat /\ n + S - 1 < m * S + S
  BY <1>1
<1> HIDE DEF q, m
<1>4. q < m
  <2>1. q * S \in Nat /\ m * S \in Nat
    BY <1>1, <1>2, <1>3
  <2>2. q * S < m * S
    BY <1>1, <1>2, <1>3, <2>1
  <2>3. \A a, b \in Nat : a * S < b * S => a < b
    BY <1>1
  <2> QED  BY <1>2, <1>3, <2>2, <2>3
<1> QED  BY <1>2, <1>3, <1>4 DEF SegmentOfRow, Parts, q, m, n, S

\* A row is present where its cell is not null, and its value is the cell.
LEMMA PresentCellsOf ==
    ASSUME NEW b, Sound(b)
    PROVE  /\ PresentRows(b) = {k \in 1 .. Rows(b) : CellAt(b, k) # Null}
           /\ \A k \in PresentRows(b) : b.vals[k] = CellAt(b, k)
<1>1. \A k \in 1 .. Rows(b) : b.vals[k] # Null
  BY SoundFields, WordFacts
<1> QED  BY <1>1 DEF PresentRows, CellAt

\* What a segment holds of the table (writer.go:200-276).
Holding(s) ==
    /\ file[s].rows = Size(s)
    /\ \A c \in Cols :
          LET b == file[s].columns[c].data
          IN  /\ Sound(b)
              /\ Rows(b) = Size(s)
              /\ file[s].columns[c] = ColumnOf(b, c)
              /\ \A k \in 1 .. Size(s) : CellAt(b, k) = table[Offset(s) + k][c]

\* Every segment of a file holds its rows of the table, cell by cell
\* (writer.go:200-276).
LEMMA SegmentHolds ==
    ASSUME FileFits
    PROVE  Len(file) = Parts /\ Parts \in Nat /\ \A s \in 1 .. Parts : Holding(s)
<1>1. Parts \in Nat
  BY TableType DEF Parts
<1>2. file = [i \in 1 .. Parts |->
                SegmentOf(SubSeq(table, (i - 1) * SegmentRows + 1,
                                 IF i * SegmentRows < Len(table)
                                 THEN i * SegmentRows ELSE Len(table)))]
  BY DEF FileFits, Segments, Parts
<1>3. Len(file) = Parts
  BY <1>1, <1>2
<1>4. ASSUME NEW s \in 1 .. Parts PROVE Holding(s)
  <2> DEFINE from == Offset(s)
             n == Size(s)
             recs == SubSeq(table, from + 1, from + n)
  <2>1. /\ from \in Nat /\ n \in Nat \ {0} /\ from + n <= Len(table)
        /\ table \in Seq(Row)
    BY <1>4, SegmentBounds, TableType
  <2>2. file[s] = SegmentOf(recs)
    <3>1. from + n = IF s * SegmentRows < Len(table) THEN s * SegmentRows ELSE Len(table)
      BY <1>4, <2>1, TableType DEF Size
    <3> QED  BY <1>2, <1>4, <3>1 DEF Offset
  <2>3. /\ recs \in Seq(Row) /\ Len(recs) = n
        /\ \A k \in 1 .. n : recs[k] = table[from + k]
    <3> HIDE DEF from, n
    <3>1. from + 1 \in 1 .. Len(table) + 1 /\ from + n \in from .. Len(table)
      BY <2>1
    <3>2. \A k \in from + 1 .. from + n : k \in 1 .. Len(table)
      BY <2>1
    <3>3. recs \in Seq(Row) /\ Len(recs) = n
      BY <2>1, <3>1, <3>2, SubSeqProperties
    <3>6. from + 1 \in Int /\ from + n \in Int /\ (from + n) - (from + 1) + 1 = n
      BY <2>1
    <3>7. \A k \in from + 1 .. from + n : table[k] \in Row
      BY <2>1, <3>2
    <3>8. \A k \in 1 .. (from + n) - (from + 1) + 1 : recs[k] = table[(from + 1) + k - 1]
      BY <3>6, <3>7, SubSeqProperties
    <3>4. \A k \in 1 .. n : recs[k] = table[(from + 1) + k - 1]
      BY <3>6, <3>8
    <3>5. \A k \in 1 .. n : (from + 1) + k - 1 = from + k
      BY <2>1
    <3> QED  BY <3>3, <3>4, <3>5
  <2> HIDE DEF recs, n, from
  <2>4. file[s].rows = n
    BY <2>2, <2>3 DEF SegmentOf
  <2>5. ASSUME NEW c \in Cols
        PROVE  LET b == file[s].columns[c].data
               IN  /\ Sound(b) /\ Rows(b) = n
                   /\ file[s].columns[c] = ColumnOf(b, c)
                   /\ \A k \in 1 .. n : CellAt(b, k) = table[from + k][c]
    <3> DEFINE b == BuilderOf(recs, c)
    <3>1. Sound(b) /\ Rows(b) = n /\ \A k \in 1 .. n : CellAt(b, k) = recs[k][c]
      BY <2>3, BuilderHolds
    <3>2. file[s].columns[c] = ColumnOf(b, c)
      BY <2>2 DEF SegmentOf
    <3>3. ColumnOf(b, c).data = b
      BY DEF ColumnOf
    <3> HIDE DEF b
    <3> QED  BY <2>3, <3>1, <3>2, <3>3
  <2> QED  BY <2>4, <2>5 DEF Holding, n, from
<1> QED  BY <1>1, <1>3, <1>4

(***************************************************************************)
(* What a segment answers.                                                 *)
(***************************************************************************)

Comparison(e) == e.op \in {"in", "=", "!=", "<", ">"}

\* The rows of segment s, counted in it, that an expression matches.
MatchesIn(s, e) == {k \in 1 .. Size(s) : Matches(table[Offset(s) + k], e)}

\* The literal of a time is a word (exec.go:321-340).
LEMMA TimesAreWords ==
    ASSUME NEW depth, ParsedExprs(depth), NEW e \in Exprs, Comparison(e),
           e.col \in Cols, Types[e.col] = "timestamp", NEW l \in ToSet(e.vals)
    PROVE  Norm(e.col, l) \subseteq Word
<1>1. l.time \subseteq Int /\ l.num \subseteq Word
  BY DEF ParsedExprs, Comparison
<1>2. \A x \in Int : x % (2 * HalfWord) \in Word
  <2>1. 2 * HalfWord \in Nat \ {0}
    BY ColumnAssumption
  <2> QED  BY <2>1 DEF Word
<1>3. {x % (2 * HalfWord) : x \in l.time} \subseteq Word
  BY <1>1, <1>2
<1>4. Norm(e.col, l) = IF l.time # {} THEN {x % (2 * HalfWord) : x \in l.time} ELSE l.num
  BY DEF Norm, NormInt, IntTypes
<1> QED  BY <1>1, <1>3, <1>4

\* Two words are equal as words when they are equal as times, and compare alike
\* when both are times after 1970 (exec.go:295-305).
LEMMA SignedCompare ==
    ASSUME NEW a \in Word, NEW b \in Word
    PROVE  /\ AsInt64(a) = AsInt64(b) <=> a = b
           /\ a < HalfWord /\ b < HalfWord => AsInt64(a) = a /\ AsInt64(b) = b
<1>1. a \in Int /\ b \in Int /\ HalfWord \in Int /\ 0 <= a /\ a < 2 * HalfWord
      /\ 0 <= b /\ b < 2 * HalfWord
  BY ColumnAssumption DEF Word
<1> QED  BY <1>1 DEF AsInt64

\* The cells of a comparison's column hold what it is said of.
LEMMA HoldsIsCompare ==
    ASSUME NEW depth, ParsedExprs(depth), RangesAfterEpoch, FileFits,
           NEW e \in Exprs, Comparison(e), e.col \in Cols, NEW l \in ToSet(e.vals),
           NEW i \in 1 .. Len(table), table[i][e.col] # Null, NEW v \in Norm(e.col, l)
    PROVE  LET op == IF e.op = "in" THEN "=" ELSE e.op
           IN  Holds(e.col, op, table[i][e.col], v) <=> Compare(op, table[i][e.col], v)
<1> DEFINE op == IF e.op = "in" THEN "=" ELSE e.op
           a == table[i][e.col]
<1>1. CASE Types[e.col] # "timestamp"
  BY <1>1 DEF Holds
<1>2. CASE Types[e.col] = "timestamp"
  <2>1. v \in Word
    BY <1>2, TimesAreWords
  <2>2. a \in Word
    BY TableType DEF Row
  <2>3. op \in {"<", ">"} => a < HalfWord /\ v < HalfWord
    <3> SUFFICES ASSUME op \in {"<", ">"} PROVE a < HalfWord /\ v < HalfWord
      OBVIOUS
    <3>1. e.op \in {"<", ">"}
      OBVIOUS
    <3>2. l = e.vals[1]
      BY <3>1 DEF ParsedExprs, Comparison, ToSet
    <3> QED  BY <1>2, <3>1, <3>2 DEF RangesAfterEpoch, FileFits
  <2>4. op \in {"=", "!=", "<", ">"}
    BY DEF Comparison
  <2> HIDE DEF op, a
  <2>5. Holds(e.col, op, a, v) <=> Compare(op, AsInt64(a), AsInt64(v))
    BY <1>2 DEF Holds
  <2>6. /\ AsInt64(a) = AsInt64(v) <=> a = v
        /\ a < HalfWord /\ v < HalfWord => AsInt64(a) = a /\ AsInt64(v) = v
    BY <2>1, <2>2, SignedCompare
  <2>7. ASSUME op \in {"<", ">"} PROVE Holds(e.col, op, a, v) <=> Compare(op, a, v)
    <3>1. AsInt64(a) = a /\ AsInt64(v) = v
      BY <2>3, <2>6, <2>7
    <3> QED  BY <2>5, <3>1
  <2>8. ASSUME op \in {"=", "!="} PROVE Holds(e.col, op, a, v) <=> Compare(op, a, v)
    <3>1. op = "=" => \A x, y : Compare(op, x, y) <=> x = y
      BY DEF Compare
    <3>2. op = "!=" => \A x, y : Compare(op, x, y) <=> x # y
      BY DEF Compare
    <3>3. Compare(op, AsInt64(a), AsInt64(v)) <=> Compare(op, a, v)
      BY <2>6, <2>8, <3>1, <3>2
    <3> QED  BY <2>5, <3>3
  <2> QED  BY <2>4, <2>7, <2>8 DEF op, a
<1> QED  BY <1>1, <1>2

\* An equality answers from its own column, or from its index.
LEMMA EqualityColumns ==
    ASSUME NEW s, NEW c, NEW l
    PROVE  EvalEquality(s, c, l).cols \in {{}, {c}}
  BY DEF EvalEquality, Nothing, Scan

\* A comparison decodes its column or none, and answers the rows that a look at
\* each cell finds, unless what it decoded is damaged (exec.go:162-293).
LEMMA CmpIsScan ==
    ASSUME NEW depth, ParsedExprs(depth), RangesAfterEpoch, FileFits,
           NEW s \in 1 .. Parts, NEW e \in Exprs, Comparison(e), e.col \in Cols
    PROVE  /\ EvalCmp(s, e).cols \subseteq {e.col}
           /\ (\A c \in EvalCmp(s, e).cols : <<s, c>> \notin damaged) =>
                 EvalCmp(s, e).rows =
                    {k \in 1 .. Size(s) : CmpMatches(table[Offset(s) + k], e)}
<1> DEFINE c == e.col
           b == file[s].columns[c].data
           cell(k) == table[Offset(s) + k][c]
           op == IF e.op = "in" THEN "=" ELSE e.op
           Wanted == {k \in 1 .. Size(s) : CmpMatches(table[Offset(s) + k], e)}
<1>1. /\ Sound(b) /\ Rows(b) = Size(s) /\ file[s].columns[c] = ColumnOf(b, c)
      /\ \A k \in 1 .. Size(s) : CellAt(b, k) = cell(k)
  BY SegmentHolds DEF Holding
<1>2. /\ PresentRows(b) = {k \in 1 .. Size(s) : cell(k) # Null}
      /\ \A k \in PresentRows(b) : b.vals[k] = cell(k)
  <2> HIDE DEF b, cell
  <2>1. /\ PresentRows(b) = {k \in 1 .. Rows(b) : CellAt(b, k) # Null}
        /\ \A k \in PresentRows(b) : b.vals[k] = CellAt(b, k)
    BY <1>1, PresentCellsOf
  <2> QED  BY <1>1, <2>1
<1>3. \A k \in 1 .. Size(s) : Offset(s) + k \in 1 .. Len(table)
  <2>1. Offset(s) \in Nat /\ Size(s) \in Nat /\ Offset(s) + Size(s) <= Len(table)
        /\ Len(table) \in Nat
    BY SegmentBounds, TableType
  <2> QED  BY <2>1
<1>4. Wanted = {k \in PresentRows(b) :
                   \E l \in ToSet(e.vals) : \E v \in Norm(c, l) : Compare(op, b.vals[k], v)}
  <2>1. ASSUME NEW k \in 1 .. Size(s), cell(k) # Null, NEW l \in ToSet(e.vals),
               NEW v \in Norm(c, l)
        PROVE  Holds(c, op, cell(k), v) <=> Compare(op, cell(k), v)
    BY <1>3, <2>1, HoldsIsCompare
  <2>2. \A k \in 1 .. Size(s) : CmpMatches(table[Offset(s) + k], e) <=>
           /\ cell(k) # Null
           /\ \E l \in ToSet(e.vals) : \E v \in Norm(c, l) : Holds(c, op, cell(k), v)
    BY DEF CmpMatches
  <2> HIDE DEF b, cell, op, c
  <2> QED  BY <1>2, <2>1, <2>2
<1>5. ASSUME NEW l, c \in EvalEquality(s, c, l).cols => <<s, c>> \notin damaged
      PROVE  EvalEquality(s, c, l).rows = {k \in PresentRows(b) : b.vals[k] \in Norm(c, l)}
  <2> HIDE DEF b
  <2> QED  BY <1>1, <1>5, EqualityIsScan
<1> HIDE DEF b, cell, Wanted
<1>6. CASE e.op = "in"
  <2> DEFINE R == {EvalEquality(s, c, l) : l \in ToSet(e.vals)}
  <2>1. EvalCmp(s, e) = [rows |-> UNION {r.rows : r \in R}, cols |-> UNION {r.cols : r \in R}]
    BY <1>6 DEF EvalCmp
  <2>2. \A r \in R : r.cols \subseteq {c}
    BY EqualityColumns
  <2>3. ASSUME \A d \in EvalCmp(s, e).cols : <<s, d>> \notin damaged
        PROVE  EvalCmp(s, e).rows = Wanted
    <3>1. \A l \in ToSet(e.vals) : EvalEquality(s, c, l).cols \subseteq EvalCmp(s, e).cols
      <4> HIDE DEF c
      <4> QED  BY <2>1
    <3>2. \A l \in ToSet(e.vals) :
             EvalEquality(s, c, l).rows = {k \in PresentRows(b) : b.vals[k] \in Norm(c, l)}
      BY <1>5, <2>3, <3>1
    <3>3. EvalCmp(s, e).rows = UNION {EvalEquality(s, c, l).rows : l \in ToSet(e.vals)}
      <4> HIDE DEF c
      <4> QED  BY <2>1
    <3>4. op = "="
      BY <1>6
    <3> HIDE DEF c, op
    <3> QED  BY <1>4, <3>2, <3>3, <3>4 DEF Compare
  <2> QED  BY <2>1, <2>2, <2>3 DEF Wanted
<1>7. CASE e.op # "in"
  <2>1. ToSet(e.vals) = {e.vals[1]} /\ op = e.op
    BY <1>7 DEF ParsedExprs, Comparison, ToSet
  <2>2. CASE e.op = "="
    <3>1. EvalCmp(s, e) = EvalEquality(s, c, e.vals[1])
      BY <2>2 DEF EvalCmp
    <3>2. EvalCmp(s, e).cols \subseteq {c}
      BY <3>1, EqualityColumns
    <3>3. ASSUME \A d \in EvalCmp(s, e).cols : <<s, d>> \notin damaged
          PROVE  EvalCmp(s, e).rows = Wanted
      <4>1. EvalCmp(s, e).rows = {k \in PresentRows(b) : b.vals[k] \in Norm(c, e.vals[1])}
        BY <1>5, <3>1, <3>3
      <4> HIDE DEF c
      <4> QED  BY <1>4, <2>1, <2>2, <4>1 DEF Compare
    <3> QED  BY <3>2, <3>3 DEF Wanted
  <2>3. CASE e.op # "="
    <3>1. EvalCmp(s, e) = Scan(s, c, e.op, Norm(c, e.vals[1]))
      BY <1>7, <2>3 DEF EvalCmp
    <3>2. EvalCmp(s, e).cols = {c}
      BY <3>1 DEF Scan
    <3>3. ASSUME <<s, c>> \notin damaged PROVE EvalCmp(s, e).rows = Wanted
      <4>1. ColumnData(s, c) = b
        BY <3>3 DEF ColumnData, b
      <4>2. EvalCmp(s, e).rows =
               {k \in PresentRows(b) : \E v \in Norm(c, e.vals[1]) : Compare(op, b.vals[k], v)}
        BY <2>1, <3>1, <4>1 DEF Scan
      <4> HIDE DEF c, op
      <4> QED  BY <1>4, <2>1, <4>2
    <3> QED  BY <3>2, <3>3 DEF Wanted
  <2> QED  BY <2>2, <2>3
<1> QED  BY <1>6, <1>7

\* The meaning of an expression on a segment: it decodes none but its columns,
\* and answers the rows it matches unless what it decoded is damaged
\* (exec.go:125-160).
Means(s, e) ==
    LET r == EvalSegment(s, e)
    IN  /\ r.cols \subseteq ExprColumns[e]
        /\ (\A c \in r.cols : <<s, c>> \notin damaged) => r.rows = MatchesIn(s, e)

\* AND intersects and OR unites what the two sides answer (exec.go:133-160).
LEMMA MeaningOfParts ==
    ASSUME NEW depth, ParsedExprs(depth), NEW s, file[s].rows = Size(s), NEW e \in Exprs,
           e.op \in {"and", "or"}, Means(s, e.l), Means(s, e.r)
    PROVE  Means(s, e)
<1> DEFINE r == EvalSegment(s, e)
           a == EvalSegment(s, e.l)
           b == EvalSegment(s, e.r)
<1>1. r.cols = a.cols \cup b.cols
  BY EvalRecursion
<1>2. ExprColumns[e] = ExprColumns[e.l] \cup ExprColumns[e.r]
  BY ColumnsRecursion
<1>3. /\ e.op = "and" => r.rows = a.rows \cap b.rows
      /\ e.op = "or" => r.rows = a.rows \cup b.rows
  BY EvalRecursion
<1>4. /\ e.op = "and" => MatchesIn(s, e) = MatchesIn(s, e.l) \cap MatchesIn(s, e.r)
      /\ e.op = "or" => MatchesIn(s, e) = MatchesIn(s, e.l) \cup MatchesIn(s, e.r)
  <2>1. ASSUME e.op = "and" PROVE MatchesIn(s, e) = MatchesIn(s, e.l) \cap MatchesIn(s, e.r)
    <3>1. \A row : Matches(row, e) <=> Matches(row, e.l) /\ Matches(row, e.r)
      BY <2>1, MatchRecursion
    <3> QED  BY <3>1 DEF MatchesIn
  <2>2. ASSUME e.op = "or" PROVE MatchesIn(s, e) = MatchesIn(s, e.l) \cup MatchesIn(s, e.r)
    <3>1. \A row : Matches(row, e) <=> Matches(row, e.l) \/ Matches(row, e.r)
      BY <2>2, MatchRecursion
    <3> QED  BY <3>1 DEF MatchesIn
  <2> QED  BY <2>1, <2>2
<1>5. /\ a.cols \subseteq ExprColumns[e.l] /\ b.cols \subseteq ExprColumns[e.r]
      /\ (\A c \in a.cols : <<s, c>> \notin damaged) => a.rows = MatchesIn(s, e.l)
      /\ (\A c \in b.cols : <<s, c>> \notin damaged) => b.rows = MatchesIn(s, e.r)
  BY DEF Means
<1> HIDE DEF r, a, b
<1>6. r.cols \subseteq ExprColumns[e]
  BY <1>1, <1>2, <1>5
<1>7. ASSUME \A c \in r.cols : <<s, c>> \notin damaged
      PROVE  r.rows = MatchesIn(s, e)
  <2>1. a.rows = MatchesIn(s, e.l) /\ b.rows = MatchesIn(s, e.r)
    BY <1>1, <1>5, <1>7
  <2> QED  BY <1>3, <1>4, <2>1
<1> QED  BY <1>6, <1>7 DEF Means, r

\* Every expression over columns that exist has its meaning on every segment: one
\* of least depth without it would have parts with it (exec.go:125-293).
LEMMA SegmentMeaning ==
    ASSUME NEW depth, ParsedExprs(depth), RangesAfterEpoch, FileFits,
           NEW s \in 1 .. Parts
    PROVE  \A e \in Exprs : ExprColumns[e] \subseteq Cols => Means(s, e)
<1> DEFINE Fails1(e) == ExprColumns[e] \subseteq Cols /\ ~ Means(s, e)
           Bad == {n \in Nat : \E e \in Exprs : depth[e] = n /\ Fails1(e)}
<1>0. file[s].rows = Size(s)
  BY SegmentHolds DEF Holding
<1>1. ASSUME Bad # {} PROVE FALSE
  <2>1. Bad \in SUBSET Nat
    OBVIOUS
  <2> DEFINE n == Min(Bad)
  <2>2. n \in Bad /\ \A m \in Bad : n <= m
    <3> HIDE DEF Bad
    <3> QED  BY <1>1, <2>1, MinOfNats
  <2> HIDE DEF n, Fails1
  <2>3. PICK e \in Exprs : depth[e] = n /\ Fails1(e)
    BY <2>2
  <2>4. \A x \in Exprs : depth[x] \in Nat /\ depth[x] < n => ~ Fails1(x)
    BY <2>2
  <2> USE DEF Fails1
  <2>5. CASE e.op = "all"
    <3>1. EvalSegment(s, e) = [rows |-> 1 .. file[s].rows, cols |-> {}]
      BY <2>5, EvalRecursion
    <3>2. \A row : Matches(row, e)
      BY <2>5, MatchRecursion
    <3>3. Means(s, e)
      BY <1>0, <3>1, <3>2 DEF Means, MatchesIn
    <3> QED  BY <2>3, <3>3
  <2>6. CASE e.op \in {"and", "or"}
    <3>1. /\ e.l \in Exprs /\ e.r \in Exprs
          /\ depth[e.l] \in Nat /\ depth[e.l] < n /\ depth[e.r] \in Nat /\ depth[e.r] < n
      BY <2>3, <2>6, QueryAssumption DEF ParsedExprs
    <3>2. ExprColumns[e.l] \subseteq Cols /\ ExprColumns[e.r] \subseteq Cols
      BY <2>3, <2>6, ColumnsRecursion
    <3>3. Means(s, e.l) /\ Means(s, e.r)
      BY <2>4, <3>1, <3>2
    <3>4. Means(s, e)
      BY <1>0, <2>6, <3>3, MeaningOfParts
    <3> QED  BY <2>3, <3>4
  <2>7. CASE Comparison(e)
    <3>1. ExprColumns[e] = {e.col}
      BY <2>7, ColumnsRecursion DEF Comparison
    <3>2. e.col \in Cols
      BY <2>3, <3>1
    <3>3. EvalSegment(s, e) = EvalCmp(s, e)
      BY <2>7, EvalRecursion DEF Comparison
    <3>4. \A row : Matches(row, e) <=> CmpMatches(row, e)
      BY <2>7, MatchRecursion DEF Comparison
    <3>5. MatchesIn(s, e) = {k \in 1 .. Size(s) : CmpMatches(table[Offset(s) + k], e)}
      BY <3>4 DEF MatchesIn
    <3>6. /\ EvalCmp(s, e).cols \subseteq {e.col}
          /\ (\A c \in EvalCmp(s, e).cols : <<s, c>> \notin damaged) =>
                EvalCmp(s, e).rows =
                   {k \in 1 .. Size(s) : CmpMatches(table[Offset(s) + k], e)}
      BY <2>7, <3>2, CmpIsScan
    <3>7. Means(s, e)
      BY <3>1, <3>3, <3>5, <3>6 DEF Means
    <3> QED  BY <2>3, <3>7
  <2> QED  BY <2>5, <2>6, <2>7 DEF ParsedExprs, Comparison
<1>2. \A e \in Exprs : depth[e] \in Nat
  BY DEF ParsedExprs
<1> HIDE DEF Fails1
<1>3. \A e \in Exprs : ~ Fails1(e)
  BY <1>1, <1>2
<1> QED  BY <1>3 DEF Fails1

(***************************************************************************)
(* The loop over the segments.                                             *)
(***************************************************************************)

\* Nothing is found before the loop starts.
Fresh == phase = "new" => seg = 1 /\ hist = NoHist /\ rows = <<>> /\ count = 0

\* Where the loop stands: a segment is tallied and its columns are decoded when
\* the loop is at it, and a segment that cannot be decoded ends the query.
LoopFits ==
    /\ FileFits
    /\ seg \in 1 .. Parts + 1
    /\ phase \in {"new", "run", "done", "failed"}
    /\ phase \in {"run", "done"} => Valid(stmt)
    /\ Fresh
    /\ pruned \subseteq 1 .. seg - 1 /\ scanned \subseteq 1 .. seg - 1
    /\ \A d \in decoded : /\ d \in (1 .. Parts) \X Cols
                          /\ d[1] <= seg
                          /\ d[1] = seg => phase = "failed"

\* What was decoded was needed, and what was pruned has nothing to find.
TallyFits ==
    /\ pruned \cap scanned = {}
    /\ \A s \in pruned : ~ HasMatch(s) /\ \A c \in Cols : <<s, c>> \notin decoded
    /\ OnlyNeededColumns

\* One segment of one of the three loops (exec.go:400-411, 449-474, 530-563).
Visit(r, cols) ==
    /\ phase = "run" /\ seg <= Len(file)
    /\ r = EvalSegment(seg, stmt.where)
    /\ r.cols \subseteq cols /\ cols \subseteq r.cols \cup Selected(stmt)
    /\ r.rows = {} \/ Fails(r.cols) => cols = r.cols
    /\ Decode(cols)
    /\ IF Fails(cols) THEN Abort ELSE Tally(r) /\ NextSegment
    /\ UNCHANGED <<table, file, damaged, stmt>>

\* The output columns are fetched after the rows are known.
LEMMA OutputColumns ==
    ASSUME NEW r, NEW C, NEW cols, cols = WithOutput(r, C), C = Selected(stmt)
    PROVE  /\ r.cols \subseteq cols /\ cols \subseteq r.cols \cup Selected(stmt)
           /\ r.rows = {} \/ Fails(r.cols) => cols = r.cols
  BY DEF WithOutput

\* The three loops visit a segment in the same way.
LEMMA LoopVisits ==
    ASSUME CountSegment \/ TopSegment \/ RowsSegment
    PROVE  \E r, cols : Visit(r, cols)
<1> DEFINE r == EvalSegment(seg, stmt.where)
<1>1. CASE CountSegment
  <2>1. Visit(r, r.cols)
    <3> HIDE DEF r
    <3>1. r = EvalSegment(seg, stmt.where)
      BY DEF r
    <3>2. /\ phase = "run" /\ seg <= Len(file)
          /\ Decode(r.cols)
          /\ IF Fails(r.cols) THEN Abort ELSE Tally(r) /\ NextSegment
          /\ UNCHANGED <<table, file, damaged, stmt>>
      BY <1>1 DEF CountSegment, AtSegment, r
    <3> QED  BY <3>1, <3>2 DEF Visit
  <2> QED  BY <2>1
<1>2. CASE TopSegment
  <2> DEFINE cols == WithOutput(r, {stmt.col})
  <2>1. Visit(r, cols)
    <3> HIDE DEF r, cols
    <3>1. r = EvalSegment(seg, stmt.where) /\ cols = WithOutput(r, {stmt.col})
      BY DEF r, cols
    <3>2. /\ phase = "run" /\ seg <= Len(file) /\ stmt.kind = "top"
          /\ Decode(cols)
          /\ IF Fails(cols) THEN Abort ELSE Tally(r) /\ NextSegment
          /\ UNCHANGED <<table, file, damaged, stmt>>
      BY <1>2 DEF TopSegment, AtSegment, r, cols
    <3>3. {stmt.col} = Selected(stmt)
      BY <3>2 DEF Selected
    <3>4. /\ r.cols \subseteq cols /\ cols \subseteq r.cols \cup Selected(stmt)
          /\ r.rows = {} \/ Fails(r.cols) => cols = r.cols
      BY <3>1, <3>3, OutputColumns
    <3> QED  BY <3>1, <3>2, <3>4 DEF Visit
  <2> QED  BY <2>1
<1>3. CASE RowsSegment
  <2> DEFINE cols == WithOutput(r, ToSet(stmt.cols))
  <2>1. Visit(r, cols)
    <3> HIDE DEF r, cols
    <3>1. r = EvalSegment(seg, stmt.where) /\ cols = WithOutput(r, ToSet(stmt.cols))
      BY DEF r, cols
    <3>2. /\ phase = "run" /\ seg <= Len(file) /\ stmt.kind = "rows"
          /\ Decode(cols)
          /\ IF Fails(cols) THEN Abort ELSE Tally(r) /\ NextSegment
          /\ UNCHANGED <<table, file, damaged, stmt>>
      BY <1>3 DEF RowsSegment, AtSegment, r, cols
    <3>3. ToSet(stmt.cols) = Selected(stmt)
      BY <3>2 DEF Selected
    <3>4. /\ r.cols \subseteq cols /\ cols \subseteq r.cols \cup Selected(stmt)
          /\ r.rows = {} \/ Fails(r.cols) => cols = r.cols
      BY <3>1, <3>3, OutputColumns
    <3> QED  BY <3>1, <3>2, <3>4 DEF Visit
  <2> QED  BY <2>1
<1> QED  BY <1>1, <1>2, <1>3

\* The rows of a segment that match are the rows of the table that do.
LEMMA SegmentMatches ==
    ASSUME FileFits, NEW s \in 1 .. Parts, NEW e
    PROVE  {i \in RowsOf(s) : Matches(table[i], e)} = {Offset(s) + k : k \in MatchesIn(s, e)}
<1>1. /\ Offset(s) \in Nat /\ Size(s) \in Nat
      /\ Len(table) \in Nat /\ Offset(s) + Size(s) <= Len(table)
      /\ \A i \in 1 .. Len(table) :
            SegmentOfRow(i) = s <=> i \in Offset(s) + 1 .. Offset(s) + Size(s)
  BY SegmentBounds, TableType
<1>2. RowsOf(s) = {Offset(s) + k : k \in 1 .. Size(s)}
  <2> DEFINE o == Offset(s)
             n == Size(s)
  <2>1. RowsOf(s) = {i \in 1 .. Len(table) : i \in o + 1 .. o + n}
    BY <1>1 DEF RowsOf
  <2> HIDE DEF o, n
  <2>2. \A i \in 1 .. Len(table) : i \in o + 1 .. o + n => i - o \in 1 .. n /\ i = o + (i - o)
    BY <1>1 DEF o, n
  <2>3. \A k \in 1 .. n : o + k \in 1 .. Len(table) /\ o + k \in o + 1 .. o + n
    BY <1>1 DEF o, n
  <2> QED  BY <2>1, <2>2, <2>3 DEF o, n
<1> QED  BY <1>2 DEF MatchesIn

\* A segment that is visited stands in the file, and its columns in the schema.
LEMMA VisitFacts ==
    ASSUME NEW depth, ParsedExprs(depth), RangesAfterEpoch, LoopFits,
           NEW r, NEW cols, Visit(r, cols)
    PROVE  /\ seg \in 1 .. Parts /\ Parts \in Nat
           /\ cols \subseteq Cols
           /\ r.cols \subseteq ExprColumns[stmt.where]
           /\ (\A c \in r.cols : <<seg, c>> \notin damaged) =>
                 /\ r.rows = MatchesIn(seg, stmt.where)
                 /\ r.rows = {} <=> ~ HasMatch(seg)
<1>1. FileFits /\ Valid(stmt) /\ stmt.where \in Exprs
  BY QueryAssumption DEF LoopFits, FileFits, Visit
<1>2. seg \in 1 .. Parts /\ Parts \in Nat
  <2>1. Parts \in Nat /\ Len(file) = Parts
    BY <1>1, SegmentHolds
  <2> QED  BY <2>1 DEF LoopFits, Visit
<1>3. Selected(stmt) \subseteq Cols /\ ExprColumns[stmt.where] \subseteq Cols
  BY <1>1 DEF Valid
<1>4. Means(seg, stmt.where)
  BY <1>1, <1>2, <1>3, SegmentMeaning
<1>5. /\ r.cols \subseteq ExprColumns[stmt.where]
      /\ (\A c \in r.cols : <<seg, c>> \notin damaged) => r.rows = MatchesIn(seg, stmt.where)
  BY <1>4 DEF Means, Visit
<1>6. MatchesIn(seg, stmt.where) = {} <=> ~ HasMatch(seg)
  <2>1. {i \in RowsOf(seg) : Matches(table[i], stmt.where)}
           = {Offset(seg) + k : k \in MatchesIn(seg, stmt.where)}
    BY <1>1, <1>2, SegmentMatches
  <2>2. HasMatch(seg) <=> {i \in RowsOf(seg) : Matches(table[i], stmt.where)} # {}
    BY DEF HasMatch, RowsOf
  <2> QED  BY <2>1, <2>2
<1>7. cols \subseteq Cols
  BY <1>3, <1>5 DEF Visit
<1> QED  BY <1>2, <1>5, <1>6, <1>7

\* Nothing that a visit leaves alone changes what the file and the statement say.
LEMMA SameFile ==
    ASSUME UNCHANGED <<table, file, stmt>>
    PROVE  /\ FileFits => FileFits'
           /\ Parts' = Parts /\ (Valid(stmt))' = Valid(stmt)
           /\ \A s : HasMatch(s)' <=> HasMatch(s)
           /\ MatchingRows' = MatchingRows
  BY DEF FileFits, Parts, Valid, HasMatch, MatchingRows

\* A visit moves the loop on by one segment, or ends it (exec.go:400-411).
LEMMA VisitKeepsLoop ==
    ASSUME NEW depth, ParsedExprs(depth), RangesAfterEpoch, LoopFits,
           NEW r, NEW cols, Visit(r, cols)
    PROVE  LoopFits'
<1>1. seg \in 1 .. Parts /\ Parts \in Nat /\ cols \subseteq Cols
  BY VisitFacts
<1>2. /\ FileFits' /\ Parts' = Parts /\ Valid(stmt) /\ Valid(stmt)' /\ phase = "run"
      /\ decoded' = decoded \cup {<<seg, c>> : c \in cols}
  BY SameFile DEF LoopFits, Visit, Decode
<1>3. \A d \in decoded : d \in (1 .. Parts) \X Cols /\ d[1] < seg
  <2> SUFFICES ASSUME NEW d \in decoded PROVE d \in (1 .. Parts) \X Cols /\ d[1] < seg
    OBVIOUS
  <2>1. d \in (1 .. Parts) \X Cols /\ d[1] <= seg /\ d[1] # seg
    BY <1>2 DEF LoopFits
  <2>2. d[1] \in 1 .. Parts
    BY <2>1
  <2> QED  BY <1>1, <2>1, <2>2
<1>4. \A d \in decoded' : d \in (1 .. Parts) \X Cols /\ d[1] <= seg
  <2> SUFFICES ASSUME NEW d \in decoded' PROVE d \in (1 .. Parts) \X Cols /\ d[1] <= seg
    OBVIOUS
  <2>1. CASE d \in decoded
    <3>1. d \in (1 .. Parts) \X Cols /\ d[1] < seg /\ d[1] \in 1 .. Parts
      BY <1>3, <2>1
    <3> QED  BY <1>1, <3>1
  <2>2. CASE d \in {<<seg, c>> : c \in cols}
    BY <1>1, <2>2
  <2> QED  BY <1>2, <2>1, <2>2
<1>5. pruned \subseteq 1 .. seg - 1 /\ scanned \subseteq 1 .. seg - 1
  BY DEF LoopFits
<1>6. CASE Fails(cols)
  <2>1. phase' = "failed" /\ seg' = seg /\ pruned' = pruned /\ scanned' = scanned
    BY <1>6 DEF Visit, Abort, result
  <2> QED  BY <1>1, <1>2, <1>4, <1>5, <2>1 DEF LoopFits, Fresh
<1>7. CASE ~ Fails(cols)
  <2>1. phase' = "run" /\ seg' = seg + 1 /\ Tally(r)
    BY <1>2, <1>7 DEF Visit, NextSegment
  <2>2. pruned' \subseteq pruned \cup {seg} /\ scanned' \subseteq scanned \cup {seg}
    BY <2>1 DEF Tally
  <2>3. pruned' \subseteq 1 .. seg' - 1 /\ scanned' \subseteq 1 .. seg' - 1
    <3>1. seg' - 1 = seg /\ seg \in Nat \ {0}
      BY <1>1, <2>1
    <3>2. \A s \in 1 .. seg - 1 : s \in 1 .. seg' - 1
      BY <3>1
    <3>3. seg \in 1 .. seg' - 1
      BY <3>1
    <3> QED  BY <1>5, <2>2, <3>2, <3>3
  <2>4. \A d \in decoded' : d[1] <= seg' /\ d[1] # seg'
    <3> SUFFICES ASSUME NEW d \in decoded' PROVE d[1] <= seg' /\ d[1] # seg'
      OBVIOUS
    <3>1. d[1] \in 1 .. Parts /\ d[1] <= seg
      BY <1>4
    <3> QED  BY <1>1, <2>1, <3>1
  <2>5. seg' \in 1 .. Parts + 1
    BY <1>1, <2>1
  <2> QED  BY <1>2, <1>4, <2>1, <2>3, <2>4, <2>5 DEF LoopFits, Fresh
<1> QED  BY <1>6, <1>7

\* A visit that decoded nothing and found nothing is tallied as pruned, and
\* rightly so; the output columns are decoded for a match only (exec.go:567-575).
LEMMA VisitKeepsTally ==
    ASSUME NEW depth, ParsedExprs(depth), RangesAfterEpoch, LoopFits, TallyFits,
           NEW r, NEW cols, Visit(r, cols)
    PROVE  TallyFits'
<1>1. /\ seg \in 1 .. Parts /\ Parts \in Nat
      /\ cols \subseteq Cols /\ r.cols \subseteq ExprColumns[stmt.where]
      /\ (\A c \in r.cols : <<seg, c>> \notin damaged) => (r.rows = {} <=> ~ HasMatch(seg))
  BY VisitFacts
<1>2. /\ \A s : HasMatch(s)' <=> HasMatch(s)
      /\ stmt' = stmt
      /\ decoded' = decoded \cup {<<seg, c>> : c \in cols}
      /\ phase = "run"
  BY SameFile DEF Visit, Decode
<1>3. \A d \in decoded : d[1] < seg
  <2> SUFFICES ASSUME NEW d \in decoded PROVE d[1] < seg
    OBVIOUS
  <2>1. d \in (1 .. Parts) \X Cols /\ d[1] <= seg /\ d[1] # seg
    BY <1>2 DEF LoopFits
  <2>2. d[1] \in 1 .. Parts
    BY <2>1
  <2> QED  BY <1>1, <2>1, <2>2
<1>4. /\ r.cols \subseteq cols /\ cols \subseteq r.cols \cup Selected(stmt)
      /\ r.rows = {} \/ Fails(r.cols) => cols = r.cols
  BY DEF Visit
<1>5. OnlyNeededColumns'
  <2> SUFFICES ASSUME NEW d \in decoded'
               PROVE  \/ d[2] \in ExprColumns[stmt.where]
                      \/ d[2] \in Selected(stmt) /\ HasMatch(d[1])
    BY <1>2 DEF OnlyNeededColumns, Selected
  <2>1. CASE d \in decoded
    BY <2>1 DEF TallyFits, OnlyNeededColumns
  <2>2. CASE d \in {<<seg, c>> : c \in cols}
    <3>1. PICK c \in cols : d = <<seg, c>>
      BY <2>2
    <3>2. d[1] = seg /\ d[2] = c
      BY <3>1
    <3>3. CASE c \in r.cols
      BY <1>1, <3>2, <3>3
    <3>4. CASE c \notin r.cols
      <4>1. c \in Selected(stmt) /\ r.rows # {} /\ ~ Fails(r.cols)
        BY <1>4, <3>1, <3>4
      <4>2. HasMatch(seg)
        BY <1>1, <4>1 DEF Fails
      <4> QED  BY <3>2, <4>1, <4>2
    <3> QED  BY <3>3, <3>4
  <2> QED  BY <1>2, <2>1, <2>2
<1>6. pruned \subseteq 1 .. seg - 1 /\ scanned \subseteq 1 .. seg - 1
  BY DEF LoopFits
<1>7. \A s \in pruned : s < seg
  BY <1>1, <1>6
<1>8. ASSUME NEW s \in pruned, NEW c \in Cols PROVE ~ HasMatch(s) /\ <<s, c>> \notin decoded'
  <2>1. ~ HasMatch(s) /\ <<s, c>> \notin decoded /\ s # seg
    BY <1>1, <1>7, <1>8 DEF TallyFits
  <2> QED  BY <1>2, <2>1
<1>9. CASE Fails(cols)
  <2>1. pruned' = pruned /\ scanned' = scanned
    BY <1>9 DEF Visit, Abort, result
  <2>2. \A s \in pruned : ~ HasMatch(s)
    BY DEF TallyFits
  <2> QED  BY <1>2, <1>5, <1>8, <2>1, <2>2 DEF TallyFits
<1>10. CASE ~ Fails(cols) /\ ~ (r.rows = {} /\ r.cols = {})
  <2>1. pruned' = pruned /\ scanned' = scanned \cup {seg}
    BY <1>10 DEF Visit, Tally
  <2>2. pruned' \cap scanned' = {}
    BY <1>7, <1>1, <2>1 DEF TallyFits
  <2>3. \A s \in pruned : ~ HasMatch(s)
    BY DEF TallyFits
  <2> QED  BY <1>2, <1>5, <1>8, <2>1, <2>2, <2>3 DEF TallyFits
<1>11. CASE ~ Fails(cols) /\ r.rows = {} /\ r.cols = {}
  <2>1. pruned' = pruned \cup {seg} /\ scanned' = scanned
    BY <1>11 DEF Visit, Tally
  <2>2. pruned' \cap scanned' = {}
    <3>1. seg \notin scanned
      BY <1>1, <1>6
    <3> QED  BY <2>1, <3>1 DEF TallyFits
  <2>3. ~ HasMatch(seg)
    BY <1>1, <1>11
  <2>4. \A c \in Cols : <<seg, c>> \notin decoded'
    <3> SUFFICES ASSUME NEW c \in Cols, <<seg, c>> \in decoded' PROVE FALSE
      OBVIOUS
    <3>1. cols = {}
      BY <1>4, <1>11
    <3>2. <<seg, c>> \in decoded
      BY <1>2, <3>1
    <3>3. <<seg, c>>[1] < seg
      BY <1>3, <3>2
    <3> QED  BY <1>1, <3>3
  <2>5. \A s \in pruned : ~ HasMatch(s)
    BY DEF TallyFits
  <2> QED  BY <1>2, <1>5, <1>8, <2>1, <2>2, <2>3, <2>4, <2>5 DEF TallyFits
<1> QED  BY <1>9, <1>10, <1>11

\* The loop's place and tallies before a query starts (exec.go:380-396).
LEMMA StartFits ==
    ASSUME Init
    PROVE  LoopFits /\ TallyFits
<1>1. FileFits /\ seg = 1 /\ phase = "new" /\ pruned = {} /\ scanned = {} /\ decoded = {}
      /\ hist = NoHist /\ rows = <<>> /\ count = 0
  BY DEF Init, FileFits
<1>2. Parts \in Nat
  BY <1>1, SegmentHolds
<1>3. seg \in 1 .. Parts + 1
  BY <1>1, <1>2
<1> QED  BY <1>1, <1>3 DEF LoopFits, Fresh, TallyFits, OnlyNeededColumns

\* The steps that look at no segment.
LEMMA OtherKeepsFits ==
    ASSUME LoopFits, TallyFits,
           Execute \/ TopFromIndex \/ Finish \/ UNCHANGED vars
    PROVE  LoopFits' /\ TallyFits'
<1>1. /\ FileFits' /\ Parts' = Parts /\ (Valid(stmt))' = Valid(stmt)
      /\ \A s : HasMatch(s)' <=> HasMatch(s)
      /\ UNCHANGED <<stmt, pruned, scanned, decoded>>
  <2>1. UNCHANGED <<table, file, stmt, pruned, scanned, decoded>>
    BY DEF Execute, TopFromIndex, Finish, vars
  <2> QED  BY <2>1, SameFile DEF LoopFits
<1>2. TallyFits'
  BY <1>1 DEF TallyFits, OnlyNeededColumns, Selected
<1>3. FileFits /\ Parts \in Nat /\ Len(file) = Parts
  BY SegmentHolds DEF LoopFits
<1>4. CASE Execute \/ Finish \/ UNCHANGED vars
  <2>1. seg' = seg
    BY <1>4 DEF Execute, Finish, vars
  <2>2. /\ phase' \in {"new", "run", "done", "failed"}
        /\ phase' \in {"run", "done"} => Valid(stmt)
        /\ phase = "failed" => phase' = "failed"
        /\ phase' = "new" =>
              phase = "new" /\ hist' = hist /\ rows' = rows /\ count' = count
    <3>1. CASE Execute
      BY <3>1 DEF Execute
    <3>2. CASE Finish
      BY <3>2 DEF Finish, LoopFits
    <3>3. CASE UNCHANGED vars
      BY <3>3 DEF vars, LoopFits
    <3> QED  BY <1>4, <3>1, <3>2, <3>3
  <2>3. (\A d \in decoded : /\ d \in (1 .. Parts) \X Cols
                            /\ d[1] <= seg
                            /\ d[1] = seg => phase = "failed")'
    BY <1>1, <2>1, <2>2 DEF LoopFits
  <2>4. (/\ seg \in 1 .. Parts + 1
         /\ pruned \subseteq 1 .. seg - 1 /\ scanned \subseteq 1 .. seg - 1)'
    BY <1>1, <2>1 DEF LoopFits
  <2>5. Fresh'
    BY <2>1, <2>2 DEF LoopFits, Fresh, NoHist, Word
  <2>6. (phase \in {"run", "done"} => Valid(stmt))'
    BY <1>1, <2>2
  <2>7. FileFits' /\ phase' \in {"new", "run", "done", "failed"}
    BY <1>1, <2>2
  <2>8. LoopFits'
    BY <2>3, <2>4, <2>5, <2>6, <2>7 DEF LoopFits
  <2> QED  BY <1>2, <2>8
<1>5. CASE TopFromIndex
  <2>1. seg' = seg + 1 /\ phase = "run" /\ phase' = "run" /\ seg <= Parts
    BY <1>3, <1>5 DEF TopFromIndex, NextSegment, AtSegment
  <2>2. seg \in 1 .. Parts
    BY <1>3, <2>1 DEF LoopFits
  <2>3. seg' \in 1 .. Parts + 1
    BY <1>3, <2>1, <2>2
  <2>4. pruned' \subseteq 1 .. seg' - 1 /\ scanned' \subseteq 1 .. seg' - 1
    <3>1. \A s \in 1 .. seg - 1 : s \in 1 .. seg' - 1
      BY <2>1, <2>2
    <3> QED  BY <1>1, <3>1 DEF LoopFits
  <2>5. \A d \in decoded : d[1] <= seg' /\ d[1] # seg'
    <3> SUFFICES ASSUME NEW d \in decoded PROVE d[1] <= seg' /\ d[1] # seg'
      OBVIOUS
    <3>1. d \in (1 .. Parts) \X Cols /\ d[1] <= seg
      BY DEF LoopFits
    <3>2. d[1] \in 1 .. Parts
      BY <3>1
    <3> QED  BY <1>3, <2>1, <2>2, <3>1, <3>2
  <2>6. \A d \in decoded' : d \in (1 .. Parts') \X Cols /\ d[1] <= seg' /\ d[1] # seg'
    BY <1>1, <2>5 DEF LoopFits
  <2>7. seg' \in 1 .. Parts' + 1 /\ Valid(stmt)'
    BY <1>1, <2>1, <2>3 DEF LoopFits
  <2> QED  BY <1>1, <1>2, <2>1, <2>4, <2>6, <2>7 DEF LoopFits, Fresh
<1> QED  BY <1>2, <1>4, <1>5

\* Every step keeps the place and the tallies.
LEMMA StepKeepsFits ==
    ASSUME NEW depth, ParsedExprs(depth), RangesAfterEpoch, LoopFits, TallyFits, [Next]_vars
    PROVE  LoopFits' /\ TallyFits'
<1>1. CASE CountSegment \/ TopSegment \/ RowsSegment
  <2>1. PICK r, cols : Visit(r, cols)
    BY <1>1, LoopVisits
  <2> QED  BY <2>1, VisitKeepsLoop, VisitKeepsTally
<1>2. CASE Execute \/ TopFromIndex \/ Finish \/ UNCHANGED vars
  BY <1>2, OtherKeepsFits
<1> QED  BY <1>1, <1>2 DEF Next

\* The loop keeps its place, and its tallies say what they mean, in every run.
THEOREM LoopAlwaysFits ==
    ASSUME NEW CONSTANT depth, ParsedExprs(depth), RangesAfterEpoch
    PROVE  Spec => [](LoopFits /\ TallyFits)
<1>1. Init => LoopFits /\ TallyFits
  BY StartFits
<1>2. LoopFits /\ TallyFits /\ [Next]_vars => LoopFits' /\ TallyFits'
  BY StepKeepsFits
<1> QED  BY <1>1, <1>2, PTL DEF Spec

\* A segment reported as pruned has no matching row, none of its columns was
\* decoded, and none is reported twice (exec.go:29-31, 567-575).
THEOREM PrunedNeverMatches ==
    ASSUME NEW CONSTANT depth, ParsedExprs(depth), RangesAfterEpoch
    PROVE  Spec => []PrunedHasNoMatch
<1>1. Spec => [](LoopFits /\ TallyFits)
  BY LoopAlwaysFits
<1>2. TallyFits => PrunedHasNoMatch
  BY DEF TallyFits, PrunedHasNoMatch
<1> QED  BY <1>1, <1>2, PTL

\* Only columns that a predicate names are decoded, and selected ones where a row
\* matches (Architecture.md:86).
THEOREM DecodesOnlyWhatIsNeeded ==
    ASSUME NEW CONSTANT depth, ParsedExprs(depth), RangesAfterEpoch
    PROVE  Spec => []OnlyNeededColumns
<1>1. Spec => [](LoopFits /\ TallyFits)
  BY LoopAlwaysFits
<1>2. TallyFits => OnlyNeededColumns
  BY DEF TallyFits
<1> QED  BY <1>1, <1>2, PTL

(***************************************************************************)
(* Counting rows, and putting them in order.                               *)
(***************************************************************************)

\* Rows counted in a segment are as many as those rows of the table.
LEMMA ShiftedCard ==
    ASSUME NEW o \in Nat, NEW S, S \subseteq Nat, IsFiniteSet(S)
    PROVE  /\ IsFiniteSet({o + k : k \in S})
           /\ Cardinality({o + k : k \in S}) = Cardinality(S)
<1> DEFINE T == {o + k : k \in S}
           f == [k \in S |-> o + k]
<1>1. f \in Injection(S, T)
  <2>1. f \in [S -> T]
    OBVIOUS
  <2>2. \A a, b \in S : f[a] = f[b] => a = b
    OBVIOUS
  <2> HIDE DEF f, T
  <2> QED  BY <2>1, <2>2 DEF Injection, IsInjective
<1>2. f \in Surjection(S, T)
  BY DEF Surjection
<1>3. ExistsBijection(S, T)
  <2> HIDE DEF f, T
  <2> QED  BY <1>1, <1>2 DEF ExistsBijection, Bijection
<1> HIDE DEF T
<1>4. IsFiniteSet(T) /\ Cardinality(T) = Cardinality(S)
  BY <1>3, FS_Bijection
<1> QED  BY <1>4 DEF T

\* A union of sets that share no element has as many as both.
LEMMA DisjointCard ==
    ASSUME NEW S, NEW T, IsFiniteSet(S), IsFiniteSet(T), S \cap T = {}
    PROVE  /\ IsFiniteSet(S \cup T)
           /\ Cardinality(S \cup T) = Cardinality(S) + Cardinality(T)
           /\ Cardinality(S) \in Nat /\ Cardinality(T) \in Nat
<1>1. /\ IsFiniteSet(S \cup T)
      /\ Cardinality(S \cup T) = Cardinality(S) + Cardinality(T) - Cardinality(S \cap T)
  BY FS_Union
<1>2. Cardinality(S \cap T) = 0
  BY FS_EmptySet
<1>3. Cardinality(S) \in Nat /\ Cardinality(T) \in Nat
  BY FS_CardinalityType
<1> QED  BY <1>1, <1>2, <1>3

\* The items of a top-N, most frequent first (exec.go:490-495).
LEMMA ItemsInOrder ==
    ASSUME NEW h \in [Word -> Nat], NEW S, S \subseteq Word, TextsDiffer
    PROVE  LET f == InOrder(S, LAMBDA a, b : Before(h, a, b))
           IN  /\ f \in Seq(S) /\ Len(f) = Cardinality(S) /\ Cardinality(S) \in Nat
               /\ \A x \in S : LET r == Cardinality({y \in S : Before(h, y, x)})
                               IN  r + 1 \in 1 .. Cardinality(S) /\ f[r + 1] = x
<1> DEFINE R == {p \in S \X S : Before(h, p[1], p[2])}
           kth(k) == CHOOSE x \in S : Cardinality({y \in S : Before(h, y, x)}) = k - 1
           f == [k \in 1 .. Cardinality(S) |-> kth(k)]
<1>1. \A x, y \in S : <<x, y>> \in R <=> Before(h, x, y)
  OBVIOUS
<1>2. StrictOrder(S, R)
  <2>1. \A x \in S : h[x] \in Nat /\ TextRank[x] \in Nat
    BY QueryAssumption
  <2>2. IsFiniteSet(S)
    <3>1. IsFiniteSet(Word)
      BY ColumnAssumption, FS_Interval DEF Word
    <3> QED  BY <3>1, FS_Subset
  <2>3. \A x, y, z \in S : Before(h, x, y) /\ Before(h, y, z) => Before(h, x, z)
    <3> SUFFICES ASSUME NEW x \in S, NEW y \in S, NEW z \in S,
                        Before(h, x, y), Before(h, y, z)
                 PROVE  Before(h, x, z)
      OBVIOUS
    <3> QED  BY <2>1 DEF Before
  <2>4. \A x, y \in S : x = y \/ Before(h, x, y) \/ Before(h, y, x)
    <3> SUFFICES ASSUME NEW x \in S, NEW y \in S, x # y
                 PROVE  Before(h, x, y) \/ Before(h, y, x)
      OBVIOUS
    <3>1. TextRank[x] # TextRank[y]
      BY DEF TextsDiffer
    <3> QED  BY <2>1, <3>1 DEF Before
  <2>5. \A x \in S : ~ Before(h, x, x)
    BY <2>1 DEF Before
  <2> HIDE DEF R
  <2> QED  BY <1>1, <2>2, <2>3, <2>4, <2>5 DEF StrictOrder
<1>3. \A x \in S : Rank(S, R, x) = Cardinality({y \in S : Before(h, y, x)})
  <2> SUFFICES ASSUME NEW x \in S
               PROVE  {y \in S : <<y, x>> \in R} = {y \in S : Before(h, y, x)}
    BY DEF Rank
  <2> HIDE DEF R
  <2> QED  BY <1>1
<1> HIDE DEF R
<1>4. Listed(S, R, f)
  <2> DEFINE pick(k) == CHOOSE x \in S : Rank(S, R, x) = k - 1
  <2>1. \A k : kth(k) = pick(k)
    BY <1>3
  <2> HIDE DEF pick, kth
  <2>2. f = [k \in 1 .. Cardinality(S) |-> pick(k)]
    BY <2>1
  <2> QED  BY <2>2 DEF Listed, pick
<1> HIDE DEF f, kth
<1>5. /\ f \in Seq(S) /\ Len(f) = Cardinality(S) /\ Cardinality(S) \in Nat
      /\ \A x \in S : /\ Rank(S, R, x) + 1 \in 1 .. Cardinality(S)
                      /\ f[Rank(S, R, x) + 1] = x
  BY <1>2, <1>4, ChosenByRank
<1>6. f = InOrder(S, LAMBDA a, b : Before(h, a, b))
  BY DEF f, kth, InOrder
<1> QED  BY <1>3, <1>5, <1>6

(***************************************************************************)
(* What the loop has found.                                                *)
(***************************************************************************)

\* The matching rows of the segments before the one the loop is at.
SoFar == {i \in MatchingRows : SegmentOfRow(i) < seg}

CountFits ==
    IF stmt.kind = "count" /\ Valid(stmt)
    THEN count = IF phase = "done" THEN Cardinality(MatchingRows) ELSE Cardinality(SoFar)
    ELSE count = 0

HistFits ==
    /\ hist \in [Word -> Nat]
    /\ stmt.kind = "top" /\ Valid(stmt) =>
          \A v \in Word : hist[v] = Cardinality({i \in SoFar : table[i][stmt.col] = v})

\* The text of row i, and its place among the matching rows.
Printed(i) == [k \in DOMAIN stmt.cols |-> FormatCell(stmt.cols[k], table[i][stmt.cols[k]])]

Place(i) == Cardinality({j \in MatchingRows : j <= i})

RowsFit ==
    stmt.kind = "rows" =>
    IF ~ Valid(stmt) THEN rows = <<>>
    ELSE
        /\ rows \in Seq({Printed(i) : i \in 1 .. Len(table)})
        /\ Len(rows) = IF Cardinality(SoFar) < Limit THEN Cardinality(SoFar) ELSE Limit
        /\ \A i \in SoFar : Place(i) <= Limit => rows[Place(i)] = Printed(i)

\* The loop ends when it has seen every segment, or has rows enough.
EndFits ==
    phase = "done" =>
        /\ stmt.kind = "top" => SoFar = MatchingRows /\ rows = TopItems(hist, stmt.col, stmt.n)
        /\ stmt.kind = "rows" => SoFar = MatchingRows \/ Len(rows) >= Limit

FoundFits == CountFits /\ HistFits /\ RowsFit /\ EndFits

\* The rows before a segment are those of the segments before it.
LEMMA RowsBefore ==
    ASSUME FileFits, NEW s \in 1 .. Parts + 1, NEW i \in 1 .. Len(table)
    PROVE  /\ SegmentOfRow(i) \in Nat \ {0}
           /\ SegmentOfRow(i) < s <=> i <= Offset(s)
           /\ Offset(s) \in Nat
<1> DEFINE S == SegmentRows
           q == (i - 1) \div S
           p == (s - 1) * S
<1>1. S \in Nat \ {0} /\ i - 1 \in Nat /\ i \in Nat
  BY TableType
<1> HIDE DEF S
<1>2. q \in Nat /\ q * S <= i - 1 /\ i - 1 < q * S + S
  BY <1>1
<1>3. Parts \in Nat /\ s - 1 \in Nat
  BY SegmentHolds
<1>4. p \in Nat
  BY <1>1, <1>3
<1> HIDE DEF q
<1>5. \A a, b \in Nat : a * S < b * S => a < b
  BY <1>1
<1>6. (q + 1) * S = q * S + S /\ q * S \in Nat
  BY <1>1, <1>2
<1>7. ASSUME q < s - 1 PROVE i - 1 < p
  <2>1. q + 1 <= s - 1
    BY <1>2, <1>3, <1>7
  <2>2. (q + 1) * S <= p
    BY <1>1, <1>2, <1>3, <2>1
  <2> HIDE DEF p
  <2> QED  BY <1>1, <1>2, <1>4, <1>6, <2>2
<1>8. ASSUME i - 1 < p PROVE q < s - 1
  <2>1. q * S < p
    <3> HIDE DEF p
    <3> QED  BY <1>1, <1>2, <1>4, <1>6, <1>8
  <2> QED  BY <1>2, <1>3, <1>5, <2>1
<1>9. SegmentOfRow(i) = q + 1 /\ Offset(s) = p
  BY DEF SegmentOfRow, Offset, q, S
<1> HIDE DEF p
<1>10. i - 1 < p <=> i <= p
  BY <1>1, <1>4
<1>11. q + 1 < s <=> q < s - 1
  BY <1>2, <1>3
<1> QED  BY <1>2, <1>4, <1>7, <1>8, <1>9, <1>10, <1>11

\* The matching rows are finitely many.
LEMMA MatchingFinite ==
    ASSUME FileFits
    PROVE  /\ Len(table) \in Nat
           /\ MatchingRows \subseteq 1 .. Len(table) /\ MatchingRows \subseteq Nat
           /\ IsFiniteSet(MatchingRows)
           /\ Cardinality(MatchingRows) \in 0 .. Len(table)
           /\ \A S \in SUBSET MatchingRows :
                 /\ IsFiniteSet(S)
                 /\ Cardinality(S) \in 0 .. Len(table)
                 /\ Cardinality(S) <= Cardinality(MatchingRows)
<1>1. Len(table) \in Nat /\ MatchingRows \subseteq 1 .. Len(table)
  BY TableType DEF MatchingRows
<1>2. IsFiniteSet(1 .. Len(table)) /\ Cardinality(1 .. Len(table)) = Len(table)
  BY <1>1, FS_Interval
<1>3. ASSUME NEW S \in SUBSET (1 .. Len(table))
      PROVE  IsFiniteSet(S) /\ Cardinality(S) \in 0 .. Len(table)
  <2>1. IsFiniteSet(S) /\ Cardinality(S) <= Cardinality(1 .. Len(table))
    BY <1>2, FS_Subset
  <2>2. Cardinality(S) \in Nat
    BY <2>1, FS_CardinalityType
  <2> QED  BY <1>1, <1>2, <2>1, <2>2
<1>4. IsFiniteSet(MatchingRows) /\ Cardinality(MatchingRows) \in 0 .. Len(table)
  BY <1>1, <1>3
<1>5. ASSUME NEW S \in SUBSET MatchingRows
      PROVE  /\ IsFiniteSet(S) /\ Cardinality(S) \in 0 .. Len(table)
             /\ Cardinality(S) <= Cardinality(MatchingRows)
  BY <1>1, <1>3, <1>4, FS_Subset
<1>6. MatchingRows \subseteq Nat
  BY <1>1
<1> QED  BY <1>1, <1>4, <1>5, <1>6

\* The matching rows of segment s, as rows of the table.
FoundIn(s) == {Offset(s) + k : k \in MatchesIn(s, stmt.where)}

\* A segment adds its matching rows, behind all found before.
LEMMA FoundGrows ==
    ASSUME FileFits, seg \in 1 .. Parts
    PROVE  /\ {i \in MatchingRows : SegmentOfRow(i) < seg + 1} = SoFar \cup FoundIn(seg)
           /\ SoFar \cap FoundIn(seg) = {}
           /\ \A i \in SoFar : i <= Offset(seg)
           /\ \A i \in MatchingRows : i <= Offset(seg) => i \in SoFar
           /\ FoundIn(seg) \subseteq MatchingRows
           /\ MatchesIn(seg, stmt.where) \subseteq Nat \ {0}
           /\ IsFiniteSet(MatchesIn(seg, stmt.where))
           /\ Offset(seg) \in Nat
<1>1. Parts \in Nat /\ seg \in 1 .. Parts + 1 /\ seg \in Nat
  BY SegmentHolds
<1>2. Offset(seg) \in Nat /\ Size(seg) \in Nat
  BY SegmentBounds
<1>3. FoundIn(seg) = {i \in 1 .. Len(table) :
                         SegmentOfRow(i) = seg /\ Matches(table[i], stmt.where)}
  BY SegmentMatches DEF FoundIn, RowsOf
<1>4. \A i \in 1 .. Len(table) :
         SegmentOfRow(i) \in Nat /\ (SegmentOfRow(i) < seg <=> i <= Offset(seg))
  BY <1>1, RowsBefore
<1>5. MatchingRows \subseteq 1 .. Len(table)
  BY DEF MatchingRows
<1>6. FoundIn(seg) = {i \in MatchingRows : SegmentOfRow(i) = seg}
  BY <1>3 DEF MatchingRows
<1>7. \A i \in 1 .. Len(table) :
         SegmentOfRow(i) < seg + 1 <=> SegmentOfRow(i) < seg \/ SegmentOfRow(i) = seg
  BY <1>1, <1>4
<1>8. \A i \in 1 .. Len(table) : ~ (SegmentOfRow(i) < seg /\ SegmentOfRow(i) = seg)
  BY <1>1, <1>4
<1>9. /\ MatchesIn(seg, stmt.where) \subseteq 1 .. Size(seg)
      /\ IsFiniteSet(1 .. Size(seg))
  BY <1>2, FS_Interval DEF MatchesIn
<1>10. /\ IsFiniteSet(MatchesIn(seg, stmt.where))
       /\ MatchesIn(seg, stmt.where) \subseteq Nat \ {0}
  BY <1>2, <1>9, FS_Subset
<1>11. {i \in MatchingRows : SegmentOfRow(i) < seg + 1} = SoFar \cup FoundIn(seg)
  BY <1>5, <1>6, <1>7 DEF SoFar
<1>12. SoFar \cap FoundIn(seg) = {}
  BY <1>5, <1>6, <1>8 DEF SoFar
<1>13. \A i \in MatchingRows : i \in SoFar <=> i <= Offset(seg)
  BY <1>4, <1>5 DEF SoFar
<1> QED  BY <1>2, <1>6, <1>10, <1>11, <1>12, <1>13 DEF SoFar

\* With every segment seen, every matching row is found.
LEMMA AllFound ==
    ASSUME FileFits, seg \in 1 .. Parts + 1, seg > Len(file)
    PROVE  SoFar = MatchingRows
<1>1. Parts \in Nat /\ seg = Parts + 1
  BY SegmentHolds
<1>2. \A i \in 1 .. Len(table) : SegmentOfRow(i) \in 1 .. Parts
  BY RowHasSegment
<1>3. \A i \in 1 .. Len(table) : SegmentOfRow(i) < seg
  BY <1>1, <1>2
<1> QED  BY <1>3 DEF SoFar, MatchingRows

\* Before the first segment nothing is found.
LEMMA NothingFound ==
    ASSUME FileFits, seg = 1
    PROVE  SoFar = {}
<1>1. Parts \in Nat /\ seg \in 1 .. Parts + 1
  BY SegmentHolds
<1>2. \A i \in 1 .. Len(table) : SegmentOfRow(i) \in Nat \ {0}
  BY <1>1, RowsBefore
<1> QED  BY <1>2 DEF SoFar, MatchingRows

\* Nothing found is lost or counted again by a step that finds nothing.
LEMMA SameFound ==
    ASSUME FoundFits, UNCHANGED <<table, file, stmt, seg, hist, rows, count>>,
           phase' = "done" <=> phase = "done"
    PROVE  FoundFits'
<1>1. /\ MatchingRows' = MatchingRows /\ SoFar' = SoFar
      /\ Valid(stmt)' = Valid(stmt) /\ Limit' = Limit
  BY DEF MatchingRows, SoFar, SegmentOfRow, Valid, Limit
<1>8. TopItems(hist, stmt.col, stmt.n)' = TopItems(hist, stmt.col, stmt.n)
  OBVIOUS
<1>2. \A i : Printed(i)' = Printed(i) /\ Place(i)' = Place(i)
  BY <1>1 DEF Printed, Place
<1>3. {Printed(i) : i \in 1 .. Len(table)}' = {Printed(i) : i \in 1 .. Len(table)}
  BY <1>2
<1>4. CountFits'
  BY <1>1 DEF FoundFits, CountFits
<1>5. HistFits'
  BY <1>1 DEF FoundFits, HistFits
<1>6. RowsFit'
  BY <1>1, <1>2, <1>3 DEF FoundFits, RowsFit
<1>7. EndFits'
  BY <1>1, <1>8 DEF FoundFits, EndFits
<1> QED  BY <1>4, <1>5, <1>6, <1>7 DEF FoundFits

\* Before the loop nothing is found, which is right.
LEMMA StartFound ==
    ASSUME Init
    PROVE  FoundFits
<1>1. FileFits /\ seg = 1 /\ hist = NoHist /\ rows = <<>> /\ count = 0 /\ phase = "new"
  BY DEF Init, FileFits
<1>2. SoFar = {} /\ Cardinality(SoFar) = 0
  BY <1>1, NothingFound, FS_EmptySet
<1>3. CountFits /\ EndFits
  BY <1>1, <1>2 DEF CountFits, EndFits
<1>4. HistFits
  <2>1. hist \in [Word -> Nat] /\ \A v \in Word : hist[v] = 0
    BY <1>1 DEF NoHist
  <2>2. \A v \in Word : Cardinality({i \in SoFar : table[i][stmt.col] = v}) = 0
    <3>1. \A v \in Word : {i \in SoFar : table[i][stmt.col] = v} = {}
      BY <1>2
    <3> QED  BY <3>1, FS_EmptySet
  <2> QED  BY <2>1, <2>2 DEF HistFits
<1>5. RowsFit
  <2>1. stmt \in Stmts
    BY <1>1 DEF FileFits
  <2>2. stmt.kind = "rows" => Limit \in Nat \ {0}
    BY <2>1, QueryAssumption DEF Limit
  <2> QED  BY <1>1, <1>2, <2>2 DEF RowsFit
<1> QED  BY <1>3, <1>4, <1>5 DEF FoundFits

\* A visit of a segment that decodes finds its matching rows.
LEMMA VisitFinds ==
    ASSUME NEW depth, ParsedExprs(depth), RangesAfterEpoch, LoopFits,
           NEW r, NEW cols, Visit(r, cols), ~ Fails(cols)
    PROVE  /\ r.rows = MatchesIn(seg, stmt.where)
           /\ seg' = seg + 1 /\ phase' = "run"
           /\ FileFits /\ seg \in 1 .. Parts /\ Valid(stmt)
           /\ SoFar' = SoFar \cup FoundIn(seg)
           /\ MatchingRows' = MatchingRows
<1>1. \A c \in r.cols : <<seg, c>> \notin damaged
  BY DEF Visit, Fails
<1>2. r.rows = MatchesIn(seg, stmt.where) /\ seg \in 1 .. Parts
  BY <1>1, VisitFacts
<1>3. seg' = seg + 1 /\ phase' = "run" /\ UNCHANGED <<table, file, stmt>>
  BY DEF Visit, NextSegment
<1>4. FileFits /\ Valid(stmt)
  BY DEF LoopFits, Visit
<1>5. MatchingRows' = MatchingRows
  BY <1>3, SameFile
<1>6. SoFar' = {i \in MatchingRows : SegmentOfRow(i) < seg + 1}
  BY <1>3, <1>5 DEF SoFar, SegmentOfRow
<1> QED  BY <1>2, <1>3, <1>4, <1>5, <1>6, FoundGrows

\* A query that fails keeps what it had found.
LEMMA AbortKeepsFound ==
    ASSUME FoundFits, phase = "run", Abort, UNCHANGED <<table, file, stmt>>
    PROVE  FoundFits'
<1>1. UNCHANGED <<table, file, stmt, seg, hist, rows, count>> /\ phase' = "failed"
  BY DEF Abort, result
<1> QED  BY <1>1, SameFound

\* Each matching row is counted once (exec.go:400-411).
LEMMA CountKeepsFound ==
    ASSUME NEW depth, ParsedExprs(depth), RangesAfterEpoch, LoopFits, FoundFits, CountSegment
    PROVE  FoundFits'
<1> DEFINE r == EvalSegment(seg, stmt.where)
<1>1. /\ phase = "run" /\ seg <= Len(file) /\ stmt.kind = "count"
      /\ Decode(r.cols)
      /\ IF Fails(r.cols)
         THEN Abort
         ELSE count' = count + Cardinality(r.rows) /\ Tally(r) /\ NextSegment
              /\ UNCHANGED <<hist, rows>>
      /\ UNCHANGED <<table, file, damaged, stmt>>
  BY DEF CountSegment, AtSegment
<1>2. r = EvalSegment(seg, stmt.where)
  OBVIOUS
<1> HIDE DEF r
<1>3. CASE Fails(r.cols)
  BY <1>1, <1>3, AbortKeepsFound
<1>4. CASE ~ Fails(r.cols)
  <2>1. Visit(r, r.cols)
    BY <1>1, <1>2 DEF Visit
  <2>2. /\ r.rows = MatchesIn(seg, stmt.where) /\ phase' = "run"
        /\ FileFits /\ seg \in 1 .. Parts /\ Valid(stmt)
        /\ SoFar' = SoFar \cup FoundIn(seg)
    BY <1>4, <2>1, VisitFinds
  <2>3. Cardinality(SoFar') = Cardinality(SoFar) + Cardinality(r.rows)
    <3>1. /\ SoFar \cap FoundIn(seg) = {} /\ MatchesIn(seg, stmt.where) \subseteq Nat
          /\ IsFiniteSet(MatchesIn(seg, stmt.where)) /\ Offset(seg) \in Nat
      BY <2>2, FoundGrows
    <3>2. IsFiniteSet(SoFar)
      BY <2>2, MatchingFinite DEF SoFar
    <3>3. /\ IsFiniteSet(FoundIn(seg))
          /\ Cardinality(FoundIn(seg)) = Cardinality(MatchesIn(seg, stmt.where))
      BY <3>1, ShiftedCard DEF FoundIn
    <3> QED  BY <2>2, <3>1, <3>2, <3>3, DisjointCard
  <2>4. count = Cardinality(SoFar)
    BY <1>1, <2>2 DEF FoundFits, CountFits
  <2>5. count' = Cardinality(SoFar)'
    BY <1>1, <1>4, <2>3, <2>4
  <2>6. CountFits' /\ EndFits'
    BY <1>1, <2>2, <2>5 DEF CountFits, EndFits, Valid, Selected
  <2>7. HistFits' /\ RowsFit'
    BY <1>1, <1>4 DEF FoundFits, HistFits, RowsFit
  <2> QED  BY <2>6, <2>7 DEF FoundFits
<1> QED  BY <1>3, <1>4

\* The present rows of a column of a segment, and their values.
LEMMA PresentInSegment ==
    ASSUME FileFits, NEW s \in 1 .. Parts, NEW c \in Cols
    PROVE  LET b == file[s].columns[c].data
           IN  /\ PresentRows(b) = {k \in 1 .. Size(s) : table[Offset(s) + k][c] # Null}
               /\ \A k \in PresentRows(b) : b.vals[k] = table[Offset(s) + k][c]
               /\ file[s].columns[c] = ColumnOf(b, c)
<1> DEFINE b == file[s].columns[c].data
           cell(k) == table[Offset(s) + k][c]
<1>1. /\ Sound(b) /\ Rows(b) = Size(s) /\ file[s].columns[c] = ColumnOf(b, c)
      /\ \A k \in 1 .. Size(s) : CellAt(b, k) = cell(k)
  BY SegmentHolds DEF Holding
<1> HIDE DEF b, cell
<1>2. /\ PresentRows(b) = {k \in 1 .. Rows(b) : CellAt(b, k) # Null}
      /\ \A k \in PresentRows(b) : b.vals[k] = CellAt(b, k)
  BY <1>1, PresentCellsOf
<1>3. /\ PresentRows(b) = {k \in 1 .. Size(s) : cell(k) # Null}
      /\ \A k \in PresentRows(b) : b.vals[k] = cell(k)
  BY <1>1, <1>2
<1> QED  BY <1>1, <1>3 DEF b, cell

\* The rows of a value grow by those of the segment.
LEMMA ValueGrows ==
    ASSUME FileFits, seg \in 1 .. Parts, NEW c, NEW v
    PROVE  Cardinality({i \in SoFar \cup FoundIn(seg) : table[i][c] = v})
              = Cardinality({i \in SoFar : table[i][c] = v})
                + Cardinality({k \in MatchesIn(seg, stmt.where) :
                                  table[Offset(seg) + k][c] = v})
<1> DEFINE M == MatchesIn(seg, stmt.where)
           A == {i \in SoFar : table[i][c] = v}
           N == {k \in M : table[Offset(seg) + k][c] = v}
           B == {Offset(seg) + k : k \in N}
<1>1. /\ SoFar \cap FoundIn(seg) = {} /\ M \subseteq Nat
      /\ IsFiniteSet(M) /\ Offset(seg) \in Nat
  BY FoundGrows
<1>2. B = {i \in FoundIn(seg) : table[i][c] = v}
  BY DEF FoundIn
<1>3. A \in SUBSET MatchingRows
  BY DEF SoFar
<1>4. A \cap B = {}
  BY <1>1, <1>2
<1>5. {i \in SoFar \cup FoundIn(seg) : table[i][c] = v} = A \cup B
  BY <1>2
<1>6. N \subseteq Nat /\ N \in SUBSET M
  BY <1>1
<1> HIDE DEF A, N, M
<1>7. IsFiniteSet(A)
  BY <1>3, MatchingFinite
<1>8. IsFiniteSet(N)
  BY <1>1, <1>6, FS_Subset
<1>9. IsFiniteSet(B) /\ Cardinality(B) = Cardinality(N)
  BY <1>1, <1>6, <1>8, ShiftedCard
<1> HIDE DEF B
<1>10. Cardinality(A \cup B) = Cardinality(A) + Cardinality(B)
  BY <1>4, <1>7, <1>9, DisjointCard
<1> QED  BY <1>5, <1>9, <1>10 DEF A, N, M

\* A step that adds a segment to the counts of values.
LEMMA HistStep ==
    ASSUME FileFits, FoundFits, seg \in 1 .. Parts, stmt.kind = "top", Valid(stmt),
           UNCHANGED <<table, file, stmt, rows, count>>, phase' = "run",
           SoFar' = SoFar \cup FoundIn(seg),
           hist' = [v \in Word |-> hist[v] +
                      Cardinality({k \in MatchesIn(seg, stmt.where) :
                                      table[Offset(seg) + k][stmt.col] = v})]
    PROVE  FoundFits'
<1> DEFINE added(v) == Cardinality({k \in MatchesIn(seg, stmt.where) :
                                       table[Offset(seg) + k][stmt.col] = v})
<1>1. hist \in [Word -> Nat]
      /\ \A v \in Word : hist[v] = Cardinality({i \in SoFar : table[i][stmt.col] = v})
  BY DEF FoundFits, HistFits
<1>2. \A v \in Word : hist'[v] = hist[v] + added(v)
  OBVIOUS
<1>3. \A v \in Word : added(v) \in Nat
  <2> SUFFICES ASSUME NEW v \in Word PROVE added(v) \in Nat
    OBVIOUS
  <2> DEFINE N == {k \in MatchesIn(seg, stmt.where) : table[Offset(seg) + k][stmt.col] = v}
  <2>1. IsFiniteSet(MatchesIn(seg, stmt.where)) /\ N \in SUBSET MatchesIn(seg, stmt.where)
    BY FoundGrows
  <2> HIDE DEF N
  <2>2. Cardinality(N) \in Nat
    BY <2>1, FS_Subset, FS_CardinalityType
  <2> QED  BY <2>2 DEF N
<1>4. \A v \in Word : Cardinality({i \in SoFar \cup FoundIn(seg) : table[i][stmt.col] = v})
                        = Cardinality({i \in SoFar : table[i][stmt.col] = v}) + added(v)
  <2> DEFINE c == stmt.col
  <2> HIDE DEF c
  <2>1. \A v : Cardinality({i \in SoFar \cup FoundIn(seg) : table[i][c] = v})
                 = Cardinality({i \in SoFar : table[i][c] = v})
                   + Cardinality({k \in MatchesIn(seg, stmt.where) :
                                     table[Offset(seg) + k][c] = v})
    BY ValueGrows
  <2> QED  BY <2>1 DEF c
<1> HIDE DEF added
<1>5. hist' \in [Word -> Nat]
  <2>1. \A v \in Word : hist[v] + added(v) \in Nat
    BY <1>1, <1>3
  <2> QED  BY <2>1 DEF added
<1>6. \A v \in Word : hist'[v] = Cardinality({i \in SoFar' : table'[i][stmt'.col] = v})
  BY <1>1, <1>2, <1>4
<1>7. HistFits'
  BY <1>5, <1>6 DEF HistFits
<1>8. CountFits'
  BY DEF FoundFits, CountFits
<1>9. RowsFit' /\ EndFits'
  BY DEF RowsFit, EndFits
<1> QED  BY <1>7, <1>8, <1>9 DEF FoundFits

\* A decoded column adds the values of the matching rows (exec.go:455-474).
LEMMA TopKeepsFound ==
    ASSUME NEW depth, ParsedExprs(depth), RangesAfterEpoch, LoopFits, FoundFits, TopSegment
    PROVE  FoundFits'
<1> DEFINE r == EvalSegment(seg, stmt.where)
           c == stmt.col
           cols == WithOutput(r, {c})
           d == ColumnData(seg, c)
           M == MatchesIn(seg, stmt.where)
           cell(k) == table[Offset(seg) + k][c]
<1>1. /\ phase = "run" /\ seg <= Len(file) /\ stmt.kind = "top"
      /\ Decode(cols)
      /\ IF Fails(cols)
         THEN Abort
         ELSE /\ hist' = [v \in Word |-> hist[v] +
                            Cardinality({i \in r.rows \cap PresentRows(d) : d.vals[i] = v})]
              /\ Tally(r) /\ NextSegment
              /\ UNCHANGED <<rows, count>>
      /\ UNCHANGED <<table, file, damaged, stmt>>
  BY DEF TopSegment, AtSegment
<1>2. r = EvalSegment(seg, stmt.where) /\ cols = WithOutput(r, {c}) /\ d = ColumnData(seg, c)
  OBVIOUS
<1> HIDE DEF r, cols, d
<1>3. CASE Fails(cols)
  BY <1>1, <1>3, AbortKeepsFound
<1>4. CASE ~ Fails(cols)
  <2>1. Visit(r, cols)
    <3>1. {c} = Selected(stmt)
      BY <1>1 DEF Selected
    <3>2. /\ r.cols \subseteq cols /\ cols \subseteq r.cols \cup Selected(stmt)
          /\ r.rows = {} \/ Fails(r.cols) => cols = r.cols
      BY <1>2, <3>1, OutputColumns
    <3> HIDE DEF c
    <3> QED  BY <1>1, <1>2, <3>2 DEF Visit
  <2>2. /\ r.rows = M /\ phase' = "run"
        /\ FileFits /\ seg \in 1 .. Parts /\ Valid(stmt)
        /\ SoFar' = SoFar \cup FoundIn(seg)
    BY <1>4, <2>1, VisitFinds
  <2>3. c \in Cols
    BY <1>1, <2>2 DEF Valid, Selected
  <2>4. ASSUME NEW v \in Word
        PROVE  {i \in r.rows \cap PresentRows(d) : d.vals[i] = v} = {k \in M : cell(k) = v}
    <3>1. CASE r.rows = {}
      BY <2>2, <3>1
    <3>2. CASE r.rows # {}
      <4>1. <<seg, c>> \notin damaged
        BY <1>2, <1>4, <3>2 DEF WithOutput, Fails
      <4>2. d = file[seg].columns[c].data
        BY <1>2, <4>1 DEF ColumnData
      <4>3. /\ PresentRows(d) = {k \in 1 .. Size(seg) : cell(k) # Null}
            /\ \A k \in PresentRows(d) : d.vals[k] = cell(k)
        BY <2>2, <2>3, <4>2, PresentInSegment
      <4>4. M \subseteq 1 .. Size(seg)
        BY DEF MatchesIn
      <4>5. v # Null
        BY WordFacts
      <4> HIDE DEF M, cell
      <4> QED  BY <2>2, <4>3, <4>4, <4>5
    <3> QED  BY <3>1, <3>2
  <2>5. hist' = [v \in Word |-> hist[v] + Cardinality({k \in M : cell(k) = v})]
    <3>1. hist' = [v \in Word |-> hist[v] +
                     Cardinality({i \in r.rows \cap PresentRows(d) : d.vals[i] = v})]
      BY <1>1, <1>4
    <3> HIDE DEF M, cell
    <3> QED  BY <2>4, <3>1
  <2>6. UNCHANGED <<table, file, stmt, rows, count>>
    BY <1>1, <1>4
  <2> QED  BY <1>1, <2>2, <2>5, <2>6, HistStep
<1> QED  BY <1>3, <1>4

\* An inverted index adds the same counts without decoding (exec.go:449-454).
LEMMA IndexKeepsFound ==
    ASSUME NEW depth, ParsedExprs(depth), LoopFits, FoundFits, TopFromIndex
    PROVE  FoundFits'
<1> DEFINE c == stmt.col
           b == file[seg].columns[c].data
           post == file[seg].columns[c].index.postings
           h == Histogram(post)
           M == MatchesIn(seg, stmt.where)
           cell(k) == table[Offset(seg) + k][c]
<1>1. /\ phase = "run" /\ phase' = "run" /\ seg <= Len(file) /\ stmt.kind = "top"
      /\ seg' = seg + 1
      /\ stmt.where = All /\ file[seg].columns[c].index.inverted
      /\ hist' = [v \in Word |-> hist[v] + (IF v \in DOMAIN h THEN h[v] ELSE 0)]
      /\ UNCHANGED <<table, file, stmt, rows, count>>
  BY DEF TopFromIndex, AtSegment, HasHistogram, NextSegment
<1>2. FileFits /\ Valid(stmt) /\ Len(file) = Parts /\ Parts \in Nat /\ seg \in 1 .. Parts + 1
  BY <1>1, SegmentHolds DEF LoopFits
<1>3. seg \in 1 .. Parts
  BY <1>1, <1>2
<1>4. c \in Cols
  BY <1>1, <1>2 DEF Valid, Selected
<1>5. /\ PresentRows(b) = {k \in 1 .. Size(seg) : cell(k) # Null}
      /\ \A k \in PresentRows(b) : b.vals[k] = cell(k)
      /\ file[seg].columns[c] = ColumnOf(b, c)
  BY <1>2, <1>3, <1>4, PresentInSegment
<1>6. post = BuildInverted(b)
  <2>1. file[seg].columns[c].index = IF c \in Indexed THEN BuildColumn(b) ELSE NoIndex
    BY <1>5 DEF ColumnOf
  <2>2. file[seg].columns[c].index = BuildColumn(b)
    BY <1>1, <2>1 DEF NoIndex
  <2> HIDE DEF b
  <2> QED  BY <1>1, <2>2 DEF BuildColumn
<1>7. M = 1 .. Size(seg)
  <2>1. stmt.where \in Exprs /\ stmt.where.op = "all"
    BY <1>1, <1>2, QueryAssumption DEF FileFits, All
  <2>2. \A row : Matches(row, stmt.where)
    BY <2>1, MatchRecursion
  <2> QED  BY <2>2 DEF MatchesIn
<1> HIDE DEF b, post, M, cell
<1>8. ASSUME NEW v \in Word
      PROVE  (IF v \in DOMAIN h THEN h[v] ELSE 0) = Cardinality({k \in M : cell(k) = v})
  <2>1. {k \in M : cell(k) = v} = {k \in PresentRows(b) : b.vals[k] = v}
    BY <1>5, <1>7, WordFacts
  <2>2. DOMAIN h = PresentValues(b)
    BY <1>6 DEF Histogram, BuildInverted
  <2>3. CASE v \in PresentValues(b)
    <3>1. h[v] = Cardinality({k \in PresentRows(b) : b.vals[k] = v})
      BY <1>6, <2>3 DEF Histogram, BuildInverted
    <3> HIDE DEF h
    <3> QED  BY <2>1, <2>2, <2>3, <3>1
  <2>4. CASE v \notin PresentValues(b)
    <3>1. {k \in PresentRows(b) : b.vals[k] = v} = {}
      BY <2>4 DEF PresentValues
    <3> HIDE DEF h
    <3> QED  BY <2>1, <2>2, <2>4, <3>1, FS_EmptySet
  <2> QED  BY <2>3, <2>4
<1> HIDE DEF h
<1>9. hist' = [v \in Word |-> hist[v] + Cardinality({k \in M : cell(k) = v})]
  BY <1>1, <1>8
<1>10. SoFar' = SoFar \cup FoundIn(seg)
  <2>1. MatchingRows' = MatchingRows
    BY <1>1, SameFile
  <2>2. SoFar' = {i \in MatchingRows : SegmentOfRow(i) < seg + 1}
    BY <1>1, <2>1 DEF SoFar, SegmentOfRow
  <2> QED  BY <1>2, <1>3, <2>2, FoundGrows
<1> QED  BY <1>1, <1>2, <1>3, <1>9, <1>10, HistStep DEF M, cell

\* A row found before keeps its place, and those of the segment follow in order.
LEMMA PlaceFacts ==
    ASSUME FileFits, seg \in 1 .. Parts
    PROVE  /\ Cardinality(SoFar) \in Nat
           /\ \A i \in SoFar : Place(i) \in 1 .. Cardinality(SoFar)
           /\ \A k \in MatchesIn(seg, stmt.where) :
                 Place(Offset(seg) + k) =
                    Cardinality(SoFar)
                    + (Cardinality({y \in MatchesIn(seg, stmt.where) : y < k}) + 1)
<1> DEFINE M == MatchesIn(seg, stmt.where)
           o == Offset(seg)
<1>1. /\ {i \in MatchingRows : SegmentOfRow(i) < seg + 1} = SoFar \cup FoundIn(seg)
      /\ SoFar \cap FoundIn(seg) = {}
      /\ \A i \in SoFar : i <= o
      /\ \A i \in MatchingRows : i <= o => i \in SoFar
      /\ FoundIn(seg) \subseteq MatchingRows
      /\ M \subseteq Nat \ {0} /\ IsFiniteSet(M) /\ o \in Nat
  BY FoundGrows
<1>2. SoFar \in SUBSET MatchingRows /\ MatchingRows \subseteq Nat
  BY MatchingFinite DEF SoFar
<1>3. IsFiniteSet(SoFar) /\ Cardinality(SoFar) \in Nat
  BY <1>2, MatchingFinite, FS_CardinalityType
<1>4. FoundIn(seg) = {o + k : k \in M}
  BY DEF FoundIn
<1> HIDE DEF o, M
<1>5. ASSUME NEW i \in SoFar PROVE Place(i) \in 1 .. Cardinality(SoFar)
  <2> DEFINE P == {j \in MatchingRows : j <= i}
  <2>1. \A j \in P : j <= o
    BY <1>1, <1>2
  <2>2. P \in SUBSET SoFar /\ i \in P
    <3>1. i \in MatchingRows /\ i <= i
      BY <1>2
    <3>2. \A j \in P : j \in SoFar
      BY <1>1, <2>1
    <3> QED  BY <3>1, <3>2
  <2> HIDE DEF P
  <2>3. IsFiniteSet(P) /\ Cardinality(P) <= Cardinality(SoFar)
    BY <1>3, <2>2, FS_Subset
  <2>4. Cardinality(P) \in Nat /\ Cardinality(P) # 0
    BY <2>2, <2>3, FS_CardinalityType, FS_EmptySet
  <2>5. Place(i) = Cardinality(P)
    BY DEF Place, P
  <2> QED  BY <1>3, <2>3, <2>4, <2>5
<1>6. ASSUME NEW k \in M
      PROVE  Place(o + k) = Cardinality(SoFar) + (Cardinality({y \in M : y < k}) + 1)
  <2> DEFINE P == {j \in MatchingRows : j <= o + k}
             L == {y \in M : y < k}
             Q == {o + y : y \in L \cup {k}}
  <2>1. \A j \in MatchingRows : j <= o + k => j \in SoFar \/ j \in FoundIn(seg)
    <3> SUFFICES ASSUME NEW j \in MatchingRows, j <= o + k, j > o
                 PROVE  j \in FoundIn(seg)
      BY <1>1, <1>2
    <3>1. Parts \in Nat /\ Size(seg) \in Nat /\ Len(table) \in Nat
      BY SegmentHolds, SegmentBounds, TableType
    <3>2. k \in 1 .. Size(seg)
      BY DEF M, MatchesIn
    <3>3. j \in 1 .. Len(table) /\ j \in o + 1 .. o + Size(seg)
      BY <1>1, <1>2, <3>1, <3>2 DEF MatchingRows
    <3>4. SegmentOfRow(j) = seg
      BY <3>3, SegmentBounds DEF o
    <3>5. SegmentOfRow(j) < seg + 1
      BY <3>1, <3>4
    <3>6. j \notin SoFar
      BY <1>1, <1>2
    <3> QED  BY <1>1, <3>5, <3>6
  <2>2. \A j \in SoFar : j \in MatchingRows /\ j <= o + k
    BY <1>1, <1>2
  <2>3. \A y \in M : o + y <= o + k <=> y \in L \cup {k}
    BY <1>1
  <2>4. P = SoFar \cup Q
    <3>1. \A j \in P : j \in SoFar \cup Q
      BY <1>4, <2>1, <2>3
    <3>2. \A j \in Q : j \in P
      BY <1>1, <1>4, <2>3
    <3> HIDE DEF Q
    <3> QED  BY <2>2, <3>1, <3>2
  <2>5. Q \subseteq FoundIn(seg)
    BY <1>4
  <2>6. L \in SUBSET M /\ k \notin L /\ L \cup {k} \subseteq Nat
    <3>1. k \in Nat /\ ~ (k < k)
      BY <1>1
    <3>2. \A y \in L : y \in M /\ y \in Nat
      BY <1>1
    <3> QED  BY <3>1, <3>2
  <2>7. Place(o + k) = Cardinality(P)
    BY DEF Place
  <2> HIDE DEF P, L
  <2>8. IsFiniteSet(L) /\ Cardinality(L) \in Nat
    BY <1>1, <2>6, FS_Subset, FS_CardinalityType
  <2>9. IsFiniteSet(L \cup {k}) /\ Cardinality(L \cup {k}) = Cardinality(L) + 1
    BY <2>6, <2>8, FS_AddElement
  <2>10. IsFiniteSet(Q) /\ Cardinality(Q) = Cardinality(L \cup {k})
    BY <1>1, <2>6, <2>9, ShiftedCard
  <2> HIDE DEF Q
  <2>11. SoFar \cap Q = {}
    BY <1>1, <2>5
  <2>12. Cardinality(P) = Cardinality(SoFar) + Cardinality(Q)
    BY <1>3, <2>4, <2>10, <2>11, DisjointCard
  <2> QED  BY <2>7, <2>9, <2>10, <2>12 DEF L
<1> QED  BY <1>3, <1>5, <1>6 DEF M, o

\* The cell that a decoded chunk answers with is the cell of the table
\* (column.go:35-62).
LEMMA CellInSegment ==
    ASSUME FileFits, NEW s \in 1 .. Parts, NEW c \in Cols, <<s, c>> \notin damaged,
           NEW k \in 1 .. Size(s)
    PROVE  CellAt(ColumnData(s, c), k) = table[Offset(s) + k][c]
<1>1. ColumnData(s, c) = file[s].columns[c].data
  BY DEF ColumnData
<1> QED  BY <1>1, SegmentHolds DEF Holding

\* The rows taken of a segment: no more than there is room for.
LEMMA TakenFacts ==
    ASSUME NEW S, NEW f \in Seq(S), NEW m \in 0 .. Len(f)
    PROVE  /\ SubSeq(f, 1, m) \in Seq(S) /\ Len(SubSeq(f, 1, m)) = m
           /\ DOMAIN SubSeq(f, 1, m) = 1 .. m
           /\ \A k \in 1 .. m : SubSeq(f, 1, m)[k] = f[k]
<1>1. m \in Nat /\ Len(f) \in Nat /\ m <= Len(f)
  OBVIOUS
<1>2. \A k \in 1 .. m : k \in 1 .. Len(f) /\ f[k] \in S
  BY <1>1
<1>3. SubSeq(f, 1, m) \in Seq(S) /\ Len(SubSeq(f, 1, m)) = m
  BY <1>1, <1>2, SubSeqProperties
<1>4. \A k \in 1 .. m : SubSeq(f, 1, m)[k] = f[1 + k - 1]
  BY <1>1, <1>2, <1>3, SubSeqProperties
<1>5. \A k \in 1 .. m : 1 + k - 1 = k
  BY <1>1
<1> QED  BY <1>3, <1>4, <1>5

\* A segment prints its matching rows behind those printed before, as far as
\* there is room (exec.go:530-563).
LEMMA RowsKeepFound ==
    ASSUME NEW depth, ParsedExprs(depth), RangesAfterEpoch, LoopFits, FoundFits, RowsSegment
    PROVE  FoundFits'
<1> DEFINE r == EvalSegment(seg, stmt.where)
           cols == WithOutput(r, ToSet(stmt.cols))
           found == InOrder(r.rows, <)
           m == IF Len(found) < Room THEN Len(found) ELSE Room
           taken == SubSeq(found, 1, m)
           print(i) == [k \in DOMAIN stmt.cols |->
                           FormatCell(stmt.cols[k], CellAt(ColumnData(seg, stmt.cols[k]), i))]
           new == [k \in DOMAIN taken |-> print(taken[k])]
           M == MatchesIn(seg, stmt.where)
           o == Offset(seg)
           a == Cardinality(SoFar)
           P == {Printed(i) : i \in 1 .. Len(table)}
           rank(k) == Cardinality({y \in M : y < k})
<1>1. /\ phase = "run" /\ seg <= Len(file) /\ stmt.kind = "rows" /\ Len(rows) < Limit
      /\ Decode(cols)
      /\ IF Fails(cols)
         THEN Abort
         ELSE /\ rows' = rows \o new
              /\ Tally(r) /\ NextSegment
              /\ UNCHANGED <<hist, count>>
      /\ UNCHANGED <<table, file, damaged, stmt>>
  BY Zenon DEF RowsSegment, AtSegment
<1>2. r = EvalSegment(seg, stmt.where) /\ cols = WithOutput(r, ToSet(stmt.cols))
  OBVIOUS
<1>3. CASE Fails(cols)
  <2> HIDE DEF r, cols, new
  <2> QED  BY <1>1, <1>3, AbortKeepsFound
<1>4. CASE ~ Fails(cols)
  <2>1. Visit(r, cols)
    <3> HIDE DEF r, cols, new
    <3>1. ToSet(stmt.cols) = Selected(stmt)
      BY <1>1 DEF Selected
    <3>2. /\ r.cols \subseteq cols /\ cols \subseteq r.cols \cup Selected(stmt)
          /\ r.rows = {} \/ Fails(r.cols) => cols = r.cols
      BY <1>2, <3>1, OutputColumns
    <3> QED  BY <1>1, <1>2, <3>2 DEF Visit
  <2>2. /\ r.rows = M /\ phase' = "run"
        /\ FileFits /\ seg \in 1 .. Parts /\ Valid(stmt)
        /\ SoFar' = SoFar \cup FoundIn(seg) /\ MatchingRows' = MatchingRows
    <3> HIDE DEF r, cols, new
    <3> QED  BY <1>4, <2>1, VisitFinds
  <2>3. /\ SoFar \cap FoundIn(seg) = {} /\ FoundIn(seg) \subseteq MatchingRows
        /\ M \subseteq Nat \ {0} /\ IsFiniteSet(M) /\ o \in Nat
    BY <2>2, FoundGrows
  <2>4. /\ found \in Seq(M) /\ Len(found) = Cardinality(M) /\ Cardinality(M) \in Nat
        /\ \A k \in M : rank(k) + 1 \in 1 .. Cardinality(M) /\ found[rank(k) + 1] = k
    <3>1. M \subseteq Nat
      BY <2>3
    <3> DEFINE g == InOrder(M, <)
    <3>2. /\ g \in Seq(M) /\ Len(g) = Cardinality(M) /\ Cardinality(M) \in Nat
          /\ \A k \in M : rank(k) + 1 \in 1 .. Cardinality(M) /\ g[rank(k) + 1] = k
      <4> HIDE DEF M
      <4> QED  BY <2>3, <3>1, NumbersInOrder, Zenon
    <3>3. found = g
      BY <2>2
    <3> HIDE DEF found, g
    <3> QED  BY <3>2, <3>3
  <2>5. ASSUME NEW k \in M PROVE print(k) = Printed(o + k) /\ print(k) \in P
    <3>1. \A j \in DOMAIN stmt.cols :
             stmt.cols[j] \in Cols /\ <<seg, stmt.cols[j]>> \notin damaged
      <4>1. ToSet(stmt.cols) \subseteq Cols
        BY <1>1, <2>2 DEF Valid, Selected
      <4>2. \A c \in ToSet(stmt.cols) : <<seg, c>> \notin damaged
        <5> HIDE DEF r, M, found, new
        <5>1. r.rows # {}
          BY <2>2, <2>5
        <5> QED  BY <1>4, <5>1 DEF WithOutput, Fails
      <4>3. \A j \in DOMAIN stmt.cols : stmt.cols[j] \in ToSet(stmt.cols)
        BY DEF ToSet
      <4> QED  BY <4>1, <4>2, <4>3
    <3>2. k \in 1 .. Size(seg)
      BY <2>5 DEF MatchesIn
    <3>3. \A j \in DOMAIN stmt.cols :
             CellAt(ColumnData(seg, stmt.cols[j]), k) = table[o + k][stmt.cols[j]]
      BY <2>2, <3>1, <3>2, CellInSegment
    <3>4. print(k) = Printed(o + k)
      BY <3>3 DEF Printed
    <3>5. o + k \in 1 .. Len(table)
      <4>1. o + k \in FoundIn(seg)
        BY <2>5 DEF FoundIn
      <4> QED  BY <2>2, <2>3, <4>1, MatchingFinite
    <3> QED  BY <3>4, <3>5
  <2>6. /\ a \in Nat
        /\ \A i \in SoFar : Place(i) \in 1 .. a
        /\ \A k \in M : Place(o + k) = a + (rank(k) + 1)
    BY <2>2, PlaceFacts
  <2>7. Limit \in Nat \ {0}
    BY <1>1, <2>2, QueryAssumption DEF Limit, FileFits
  <2>8. /\ rows \in Seq(P)
        /\ Len(rows) = IF a < Limit THEN a ELSE Limit
        /\ \A i \in SoFar : Place(i) <= Limit => rows[Place(i)] = Printed(i)
    BY <1>1, <2>2 DEF FoundFits, RowsFit
  <2>9. Cardinality(SoFar') = a + Cardinality(M)
    <3> HIDE DEF M, o
    <3>1. IsFiniteSet(SoFar)
      BY <2>2, MatchingFinite DEF SoFar
    <3>2. IsFiniteSet(FoundIn(seg)) /\ Cardinality(FoundIn(seg)) = Cardinality(M)
      <4>1. M \subseteq Nat
        BY <2>3
      <4> QED  BY <2>3, <4>1, ShiftedCard DEF FoundIn, M, o
    <3> QED  BY <2>2, <2>3, <3>1, <3>2, DisjointCard
  <2> HIDE DEF found
  <2>10. Len(rows) = a /\ a < Limit /\ Room = Limit - a
    <3> HIDE DEF a, P
    <3> QED  BY <1>1, <2>6, <2>7, <2>8 DEF Room
  <2>11. m \in 0 .. Len(found)
         /\ m = IF Cardinality(M) < Limit - a THEN Cardinality(M) ELSE Limit - a
    <3> HIDE DEF a, M
    <3> QED  BY <2>4, <2>6, <2>7, <2>10
  <2> HIDE DEF m
  <2>12. /\ taken \in Seq(M) /\ Len(taken) = m /\ DOMAIN taken = 1 .. m
         /\ \A k \in 1 .. m : taken[k] = found[k]
    <3> HIDE DEF M
    <3> QED  BY <2>4, <2>11, TakenFacts
  <2> HIDE DEF taken, print
  <2>13. new \in Seq(P) /\ Len(new) = m /\ \A k \in 1 .. m : new[k] = print(found[k])
    <3>1. \A k \in 1 .. m : taken[k] \in M
      <4> HIDE DEF M
      <4> QED  BY <2>12
    <3>2. \A k \in 1 .. m : print(taken[k]) \in P
      <4> HIDE DEF M, P
      <4> QED  BY <2>5, <3>1
    <3>3. new = [k \in 1 .. m |-> print(taken[k])]
      BY <2>12
    <3>4. m \in Nat
      <4> HIDE DEF M
      <4> QED  BY <2>4, <2>11
    <3> HIDE DEF new, P
    <3>5. new \in [1 .. m -> P]
      BY <3>2, <3>3
    <3>6. new \in Seq(P) /\ Len(new) = m
      BY <3>4, <3>5
    <3>7. \A k \in 1 .. m : new[k] = print(found[k])
      BY <2>12, <3>3
    <3> QED  BY <3>6, <3>7
  <2> HIDE DEF new, M, P, a, o, r, cols
  <2>14. rows' = rows \o new /\ UNCHANGED <<table, file, stmt, hist, count>>
    BY <1>1, <1>4
  <2>15. /\ rows' \in Seq(P) /\ Len(rows') = a + m
         /\ \A p \in 1 .. a + m : rows'[p] = IF p <= a THEN rows[p] ELSE new[p - a]
    BY <2>8, <2>10, <2>13, <2>14, ConcatProperties
  <2>16. ASSUME NEW i \in SoFar' PROVE Place(i) <= Limit => rows'[Place(i)] = Printed(i)
    <3>1. CASE i \in SoFar
      <4>1. Place(i) \in 1 .. a /\ m \in Nat
        BY <2>4, <2>6, <2>11, <3>1
      <4>2. rows'[Place(i)] = rows[Place(i)] /\ Place(i) <= Limit
        <5> DEFINE p == Place(i)
        <5> HIDE DEF p
        <5>1. p \in 1 .. a + m /\ p <= a /\ p <= Limit
          BY <2>6, <2>7, <2>10, <4>1 DEF p
        <5> QED  BY <2>15, <5>1 DEF p
      <4> QED  BY <2>8, <3>1, <4>2
    <3>2. CASE i \in FoundIn(seg)
      <4>1. PICK k \in M : i = o + k
        BY <3>2 DEF FoundIn, M, o
      <4> DEFINE q == rank(k) + 1
      <4>2. Place(i) = a + q /\ q \in 1 .. Cardinality(M) /\ found[q] = k
        BY <2>4, <2>6, <4>1
      <4> HIDE DEF q
      <4>3. ASSUME a + q <= Limit
            PROVE  q \in 1 .. m /\ a + q \in 1 .. a + m /\ ~ (a + q <= a) /\ (a + q) - a = q
        BY <2>4, <2>6, <2>7, <2>10, <2>11, <4>2, <4>3
      <4>4. ASSUME a + q <= Limit PROVE rows'[a + q] = print(k)
        <5>1. rows'[a + q] = new[q]
          BY <2>15, <4>3, <4>4
        <5> QED  BY <2>13, <4>2, <4>3, <4>4, <5>1
      <4> QED  BY <2>5, <4>1, <4>2, <4>4
    <3> QED  BY <2>2, <3>1, <3>2
  <2>17. Len(rows') = IF a + Cardinality(M) < Limit THEN a + Cardinality(M) ELSE Limit
    BY <2>4, <2>6, <2>7, <2>10, <2>11, <2>15
  <2>18. /\ P' = P /\ Limit' = Limit /\ Valid(stmt)'
         /\ \A i : Place(i)' = Place(i) /\ Printed(i)' = Printed(i)
    BY <2>2, <2>14 DEF P, Limit, Valid, Place, Printed
  <2>19. RowsFit'
    <3>1. (\A i \in SoFar : Place(i) <= Limit => rows[Place(i)] = Printed(i))'
      BY <2>16, <2>18
    <3>2. (Len(rows) = IF Cardinality(SoFar) < Limit THEN Cardinality(SoFar) ELSE Limit)'
      BY <2>9, <2>17, <2>18
    <3>3. (rows \in Seq({Printed(i) : i \in 1 .. Len(table)}))'
      BY <2>15, <2>18 DEF P
    <3> QED  BY <2>18, <3>1, <3>2, <3>3 DEF RowsFit
  <2>20. CountFits' /\ HistFits' /\ EndFits'
    BY <1>1, <2>2, <2>14 DEF FoundFits, CountFits, HistFits, EndFits
  <2> QED  BY <2>19, <2>20 DEF FoundFits
<1> QED  BY <1>3, <1>4

\* A count without WHERE is the number of rows, which all match (exec.go:397-399).
LEMMA ExecuteKeepsFound ==
    ASSUME NEW depth, ParsedExprs(depth), LoopFits, FoundFits, Execute
    PROVE  FoundFits'
<1>1. /\ phase = "new"
      /\ UNCHANGED <<table, file, stmt, seg, hist, rows>>
      /\ \/ phase' # "done" /\ count' = count
         \/ Valid(stmt) /\ FromFooter /\ phase' = "done" /\ count' = Len(table)
  BY DEF Execute
<1>2. CASE phase' # "done" /\ count' = count
  BY <1>1, <1>2, SameFound
<1>3. CASE Valid(stmt) /\ FromFooter /\ phase' = "done" /\ count' = Len(table)
  <2>1. FileFits /\ stmt.kind = "count" /\ stmt.where = All
    BY <1>3 DEF LoopFits, FromFooter
  <2>2. \A row : Matches(row, stmt.where)
    <3>1. stmt.where \in Exprs /\ stmt.where.op = "all"
      BY <2>1, QueryAssumption DEF FileFits, All
    <3> QED  BY <3>1, MatchRecursion
  <2>3. MatchingRows = 1 .. Len(table)
    BY <2>2 DEF MatchingRows
  <2>4. Cardinality(MatchingRows) = Len(table)
    <3>1. Len(table) \in Nat
      BY <2>1, TableType
    <3>2. Cardinality(1 .. Len(table)) =
             IF 1 > Len(table) THEN 0 ELSE Len(table) - 1 + 1
      BY <3>1, FS_Interval
    <3> QED  BY <2>3, <3>1, <3>2
  <2>5. MatchingRows' = MatchingRows /\ Valid(stmt)'
    BY <1>1, <1>3, SameFile
  <2>6. CountFits'
    BY <1>1, <1>3, <2>1, <2>4, <2>5 DEF CountFits
  <2>7. HistFits' /\ RowsFit' /\ EndFits'
    BY <1>1, <2>1 DEF FoundFits, HistFits, RowsFit, EndFits
  <2> QED  BY <2>6, <2>7 DEF FoundFits
<1> QED  BY <1>1, <1>2, <1>3

\* The loop ends with everything found, or with as many rows as were asked for.
LEMMA FinishKeepsFound ==
    ASSUME LoopFits, FoundFits, Finish
    PROVE  FoundFits'
<1>1. /\ phase = "run" /\ phase' = "done"
      /\ seg > Len(file) \/ (stmt.kind = "rows" /\ Len(rows) >= Limit)
      /\ rows' = IF stmt.kind = "top" THEN TopItems(hist, stmt.col, stmt.n) ELSE rows
      /\ UNCHANGED <<table, file, stmt, seg, hist, count>>
  BY Zenon DEF Finish
<1>2. FileFits /\ Valid(stmt) /\ seg \in 1 .. Parts + 1
  BY <1>1 DEF LoopFits
<1>3. SoFar = MatchingRows \/ (stmt.kind = "rows" /\ Len(rows) >= Limit)
  BY <1>1, <1>2, AllFound
<1>4. /\ MatchingRows' = MatchingRows /\ SoFar' = SoFar
      /\ Valid(stmt)' = Valid(stmt) /\ Limit' = Limit
      /\ \A i : Printed(i)' = Printed(i) /\ Place(i)' = Place(i)
  BY <1>1 DEF MatchingRows, SoFar, SegmentOfRow, Valid, Limit, Printed, Place
<1>5. CountFits'
  BY <1>1, <1>2, <1>3, <1>4 DEF FoundFits, CountFits
<1>6. HistFits'
  BY <1>1, <1>4 DEF FoundFits, HistFits
<1>7. RowsFit'
  <2>1. {Printed(i) : i \in 1 .. Len(table)}' = {Printed(i) : i \in 1 .. Len(table)}
    BY <1>1, <1>4
  <2> QED  BY <1>1, <1>4, <2>1 DEF FoundFits, RowsFit
<1>8. EndFits'
  BY <1>1, <1>3, <1>4 DEF EndFits
<1> QED  BY <1>5, <1>6, <1>7, <1>8 DEF FoundFits

\* Every step keeps what was found right.
LEMMA StepKeepsFound ==
    ASSUME NEW depth, ParsedExprs(depth), RangesAfterEpoch, LoopFits, FoundFits, [Next]_vars
    PROVE  FoundFits'
<1>1. CASE UNCHANGED vars
  BY <1>1, SameFound DEF vars
<1> QED
  BY <1>1, ExecuteKeepsFound, CountKeepsFound, IndexKeepsFound, TopKeepsFound,
     RowsKeepFound,
     FinishKeepsFound DEF Next

\* What the loop has found is right in every state.
THEOREM FoundAlwaysFits ==
    ASSUME NEW CONSTANT depth, ParsedExprs(depth), RangesAfterEpoch
    PROVE  Spec => []FoundFits
<1>1. Spec => [](LoopFits /\ TallyFits)
  BY LoopAlwaysFits
<1>2. Init => FoundFits
  BY StartFound
<1>3. LoopFits /\ FoundFits /\ [Next]_vars => FoundFits'
  BY StepKeepsFound
<1> QED  BY <1>1, <1>2, <1>3, PTL DEF Spec

\* Type correctness: the loop stays in the file, a count within the table, the
\* printed rows within the limit, and what is decoded within the schema
\* (exec.go:397-563).
THEOREM TypeCorrect ==
    ASSUME NEW CONSTANT depth, ParsedExprs(depth), RangesAfterEpoch
    PROVE  Spec => []TypeOK
<1>1. Spec => [](LoopFits /\ TallyFits) /\ []FoundFits
  BY LoopAlwaysFits, FoundAlwaysFits
<1>2. LoopFits /\ FoundFits => TypeOK
  <2> SUFFICES ASSUME LoopFits, FoundFits PROVE TypeOK
    OBVIOUS
  <2>1. FileFits /\ Len(file) = Parts /\ Parts \in Nat /\ seg \in 1 .. Parts + 1
    BY SegmentHolds DEF LoopFits
  <2>2. count \in 0 .. Len(table)
    <3>1. /\ Cardinality(MatchingRows) \in 0 .. Len(table)
          /\ Cardinality(SoFar) \in 0 .. Len(table) /\ Len(table) \in Nat
      BY <2>1, MatchingFinite DEF SoFar
    <3> QED  BY <3>1 DEF FoundFits, CountFits
  <2>3. stmt.kind = "rows" => Len(rows) <= Limit
    <3> SUFFICES ASSUME stmt.kind = "rows" PROVE Len(rows) <= Limit
      OBVIOUS
    <3>1. Limit \in Nat \ {0}
      BY <2>1, QueryAssumption DEF Limit, FileFits
    <3>2. Cardinality(SoFar) \in Nat
      BY <2>1, MatchingFinite DEF SoFar
    <3>3. CASE ~ Valid(stmt)
      BY <3>1, <3>3 DEF FoundFits, RowsFit
    <3>4. CASE Valid(stmt)
      BY <3>1, <3>2, <3>4 DEF FoundFits, RowsFit
    <3> QED  BY <3>3, <3>4
  <2>4. pruned \subseteq 1 .. Parts /\ scanned \subseteq 1 .. Parts
    <3>1. \A s \in 1 .. seg - 1 : s \in 1 .. Parts
      BY <2>1
    <3> QED  BY <3>1 DEF LoopFits
  <2>5. decoded \subseteq (1 .. Parts) \X Cols
    BY DEF LoopFits
  <2> QED  BY <2>1, <2>2, <2>3, <2>4, <2>5 DEF TypeOK, LoopFits, FoundFits, HistFits
<1> QED  BY <1>1, <1>2, PTL

\* The first n of the values that h counts are in r by their place, each with its
\* count.
ItemsAre(h, c, n, r) ==
    LET S == {v \in Word : h[v] > 0}
        place(v) == Cardinality({u \in S : Before(h, u, v)}) + 1
    IN  /\ Cardinality(S) \in Nat
        /\ Len(r) = IF n < Cardinality(S) THEN n ELSE Cardinality(S)
        /\ \A v \in S : place(v) <= n => r[place(v)] = <<FormatCell(c, v), h[v]>>

\* The items of a top-N by their place (exec.go:490-510).
LEMMA TopItemsFacts ==
    ASSUME NEW h \in [Word -> Nat], NEW c, NEW n \in Nat, TextsDiffer
    PROVE  ItemsAre(h, c, n, TopItems(h, c, n))
<1> DEFINE S == {v \in Word : h[v] > 0}
           rank(v) == Cardinality({u \in S : Before(h, u, v)})
           f == InOrder(S, LAMBDA a, b : Before(h, a, b))
           m == IF n > Len(f) THEN Len(f) ELSE n
           t == [i \in 1 .. m |-> <<FormatCell(c, f[i]), h[f[i]]>>]
<1>1. S \subseteq Word
  OBVIOUS
<1>2. /\ f \in Seq(S) /\ Len(f) = Cardinality(S) /\ Cardinality(S) \in Nat
      /\ \A v \in S : rank(v) + 1 \in 1 .. Cardinality(S) /\ f[rank(v) + 1] = v
  <2> HIDE DEF S
  <2> QED  BY <1>1, ItemsInOrder, Zenon
<1>3. TopItems(h, c, n) = t
  BY Zenon DEF TopItems
<1> HIDE DEF f, S
<1>4. m \in Nat /\ m = IF n < Cardinality(S) THEN n ELSE Cardinality(S)
  BY <1>2
<1> HIDE DEF m
<1>5. Len(t) = m
  BY <1>4
<1>6. ASSUME NEW v \in S, rank(v) + 1 <= n PROVE t[rank(v) + 1] = <<FormatCell(c, v), h[v]>>
  <2> DEFINE p == rank(v) + 1
  <2>1. p \in 1 .. Cardinality(S) /\ f[p] = v /\ p <= n
    BY <1>2, <1>6
  <2> HIDE DEF p, rank
  <2>2. p \in 1 .. m
    BY <1>2, <1>4, <2>1
  <2>3. t[p] = <<FormatCell(c, v), h[v]>>
    BY <2>1, <2>2
  <2> QED  BY <2>3 DEF p
<1> HIDE DEF t
<1> QED  BY <1>2, <1>3, <1>4, <1>5, <1>6 DEF S, ItemsAre

\* The rows that a finished query prints are the first matching ones.
LEMMA RowsAreRight ==
    ASSUME LoopFits, FoundFits, phase = "done", stmt.kind = "rows"
    PROVE  RowsRight
<1> DEFINE N == Cardinality(MatchingRows)
           a == Cardinality(SoFar)
           n == IF N < Limit THEN N ELSE Limit
<1>1. FileFits /\ Valid(stmt) /\ seg \in 1 .. Parts + 1
  BY DEF LoopFits
<1>2. Limit \in Nat \ {0}
  BY <1>1, QueryAssumption DEF Limit, FileFits
<1>3. /\ Len(rows) = IF a < Limit THEN a ELSE Limit
      /\ \A i \in SoFar : Place(i) <= Limit => rows[Place(i)] = Printed(i)
      /\ SoFar = MatchingRows \/ Len(rows) >= Limit
  BY <1>1 DEF FoundFits, RowsFit, EndFits
<1>4. SoFar \in SUBSET MatchingRows
  BY DEF SoFar
<1>5. N \in Nat /\ a \in Nat /\ a <= N
  BY <1>1, <1>4, MatchingFinite
<1>6. Len(rows) = n
  <2> HIDE DEF N, a
  <2>1. CASE SoFar = MatchingRows
    BY <1>3, <2>1 DEF N, a
  <2>2. CASE Len(rows) >= Limit
    BY <1>2, <1>3, <1>5, <2>2
  <2> QED  BY <1>3, <2>1, <2>2
<1>7. ASSUME NEW i \in MatchingRows, Place(i) <= n PROVE rows[Place(i)] = Printed(i)
  <2> DEFINE Q == {j \in MatchingRows : j <= i}
  <2>1. Place(i) = Cardinality(Q) /\ Q \in SUBSET MatchingRows
    BY DEF Place
  <2>2. IsFiniteSet(Q) /\ Cardinality(Q) \in Nat
    <3> HIDE DEF Q
    <3> QED  BY <1>1, <2>1, MatchingFinite, FS_CardinalityType
  <2>3. Place(i) \in Nat /\ Place(i) <= Limit
    <3> HIDE DEF Q, N
    <3> QED  BY <1>2, <1>5, <1>7, <2>1, <2>2
  <2>4. i \in SoFar
    <3> SUFFICES ASSUME i \notin SoFar PROVE FALSE
      OBVIOUS
    <3>1. a >= Limit
      <4> HIDE DEF a, N, Q
      <4> QED  BY <1>2, <1>3, <1>5
    <3>2. \A j \in SoFar : j <= i
      <4>1. /\ i \in 1 .. Len(table) /\ SoFar \subseteq 1 .. Len(table)
            /\ MatchingRows \subseteq Nat
        BY <1>1, <1>4, MatchingFinite
      <4>2. /\ \A j \in 1 .. Len(table) : SegmentOfRow(j) < seg <=> j <= Offset(seg)
            /\ Offset(seg) \in Nat
        BY <1>1, <4>1, RowsBefore
      <4>3. \A j \in SoFar : j <= Offset(seg)
        BY <4>1, <4>2 DEF SoFar
      <4>4. ~ (i <= Offset(seg))
        BY <4>1, <4>2 DEF SoFar
      <4>5. \A j \in SoFar : j \in Nat
        BY <4>1
      <4> QED  BY <4>1, <4>2, <4>3, <4>4, <4>5
    <3>3. SoFar \cup {i} \subseteq Q
      <4>1. i <= i
        BY <1>1, MatchingFinite
      <4> QED  BY <1>4, <3>2, <4>1
    <3>4. IsFiniteSet(SoFar)
      BY <1>1, <1>4, MatchingFinite
    <3>5. Cardinality(SoFar \cup {i}) = a + 1
      BY <3>4, FS_AddElement
    <3>6. Cardinality(SoFar \cup {i}) <= Cardinality(Q)
      <4> HIDE DEF Q
      <4> QED  BY <2>2, <3>3, FS_Subset
    <3> HIDE DEF a, Q
    <3> QED  BY <1>2, <1>5, <2>1, <2>2, <2>3, <3>1, <3>5, <3>6
  <2> QED  BY <1>3, <2>3, <2>4
<1> HIDE DEF N
<1> QED  BY <1>6, <1>7 DEF RowsRight, Place, Printed, N

\* The items of a finished top-N are the most frequent values.
LEMMA ItemsAreRight ==
    ASSUME TextsDiffer, LoopFits, FoundFits, phase = "done", stmt.kind = "top"
    PROVE  TopRight
<1>1. FileFits /\ Valid(stmt)
  BY DEF LoopFits
<1>2. /\ hist \in [Word -> Nat] /\ SoFar = MatchingRows
      /\ rows = TopItems(hist, stmt.col, stmt.n)
      /\ \A v \in Word : hist[v] = Cardinality({i \in SoFar : table[i][stmt.col] = v})
  BY <1>1 DEF FoundFits, HistFits, EndFits
<1>3. \A v \in Word : hist[v] = Occurrences(v)
  BY <1>2 DEF Occurrences
<1>4. stmt.n \in Nat
  BY <1>1, QueryAssumption DEF FileFits
<1> DEFINE S == {v \in Word : hist[v] > 0}
           better(x, y) == \/ Occurrences(x) > Occurrences(y)
                           \/ Occurrences(x) = Occurrences(y) /\ TextRank[x] < TextRank[y]
           place(v) == Cardinality({u \in S : better(u, v)}) + 1
<1>5. S = {v \in Word : Occurrences(v) > 0}
  BY <1>3
<1>6. \A v \in S : {u \in S : better(u, v)} = {u \in S : Before(hist, u, v)}
  BY <1>3 DEF Before
<1>7. /\ Cardinality(S) \in Nat
      /\ Len(rows) = IF stmt.n < Cardinality(S) THEN stmt.n ELSE Cardinality(S)
      /\ \A v \in S : Cardinality({u \in S : Before(hist, u, v)}) + 1 <= stmt.n =>
            rows[Cardinality({u \in S : Before(hist, u, v)}) + 1]
               = <<FormatCell(stmt.col, v), hist[v]>>
  <2>1. ItemsAre(hist, stmt.col, stmt.n, rows)
    BY <1>2, <1>4, TopItemsFacts
  <2> QED  BY <2>1 DEF ItemsAre
<1> HIDE DEF better
<1>8. \A v \in S : place(v) <= stmt.n => rows[place(v)] = <<FormatCell(stmt.col, v), hist[v]>>
  BY <1>6, <1>7
<1>9. \A v \in S : Cardinality({u \in S : better(u, v)}) \in Nat
  <2> SUFFICES ASSUME NEW v \in S PROVE Cardinality({u \in S : better(u, v)}) \in Nat
    OBVIOUS
  <2>1. IsFiniteSet(Word)
    BY ColumnAssumption, FS_Interval DEF Word
  <2> DEFINE U == {u \in S : better(u, v)}
  <2>2. U \in SUBSET Word
    OBVIOUS
  <2> HIDE DEF U, S
  <2> QED  BY <2>1, <2>2, FS_Subset, FS_CardinalityType DEF U
<1>10. \A v \in S :
          place(v) <= (IF stmt.n < Cardinality(S) THEN stmt.n ELSE Cardinality(S)) =>
             rows[place(v)] = <<FormatCell(stmt.col, v), Occurrences(v)>>
  <2> SUFFICES ASSUME NEW v \in S,
                      place(v) <= (IF stmt.n < Cardinality(S) THEN stmt.n ELSE Cardinality(S))
               PROVE  rows[place(v)] = <<FormatCell(stmt.col, v), Occurrences(v)>>
    OBVIOUS
  <2>1. hist[v] = Occurrences(v)
    BY <1>3
  <2>2. place(v) \in Nat
    <3> DEFINE k == Cardinality({u \in S : better(u, v)})
    <3>1. k \in Nat
      BY <1>9
    <3> HIDE DEF k
    <3>2. k + 1 \in Nat
      BY <3>1
    <3> QED  BY <3>2 DEF k
  <2> HIDE DEF place, S
  <2>3. place(v) <= stmt.n
    BY <1>4, <1>7, <2>2
  <2> QED  BY <1>8, <2>1, <2>3
<1> QED  BY <1>5, <1>7, <1>10, Zenon DEF TopRight, better

\* A query that answers gives the answer of the row-by-row meaning, and never one
\* that a damaged chunk took part in: whatever was pruned by zone maps and Bloom
\* filters, looked up in inverted indexes or merged from them, for every table,
\* statement and set of damaged chunks (QueryEngine.md:68-91, Security.md:57).
THEOREM AnswersAreExact ==
    ASSUME NEW CONSTANT depth, ParsedExprs(depth), RangesAfterEpoch, TextsDiffer
    PROVE  Spec => []AnswerExact
<1>1. Spec => [](LoopFits /\ TallyFits) /\ []FoundFits
  BY LoopAlwaysFits, FoundAlwaysFits
<1>2. LoopFits /\ FoundFits => AnswerExact
  <2> SUFFICES ASSUME LoopFits, FoundFits, phase = "done"
               PROVE  /\ stmt.kind = "count" => CountRight
                      /\ stmt.kind = "top" => TopRight
                      /\ stmt.kind = "rows" => RowsRight
    BY DEF AnswerExact
  <2>1. stmt.kind = "count" => CountRight
    BY DEF LoopFits, FoundFits, CountFits, CountRight
  <2> QED  BY <2>1, RowsAreRight, ItemsAreRight
<1> QED  BY <1>1, <1>2, PTL
=============================================================================
