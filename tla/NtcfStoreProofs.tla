-------------------------- MODULE NtcfStoreProofs --------------------------
(***************************************************************************)
(* Proofs about columns on their way to disk and back: what the builder    *)
(* holds, and that every codec gives it back, for words and bytes of any   *)
(* size, any strings and columns of any length.                            *)
(***************************************************************************)
EXTENDS NtcfStore, NtcfCodecProofs

\* The builder has a row for each cell that was appended: its value, or the
\* placeholder and a mark for a null.
BuilderRight ==
    /\ family \in Families
    /\ cells \in Seq(family.cells) /\ Len(cells) <= family.rows
    /\ Sound(b) /\ Rows(b) = Len(cells)
    /\ \A i \in 1 .. Rows(b) : /\ CellAt(b, i) = cells[i]
                               /\ b.vals[i] = IF cells[i] = Null THEN 0 ELSE cells[i]

LEMMA FamilyFacts ==
    ASSUME BuilderRight
    PROVE  /\ kind \in {"int", "bytes"}
           /\ family.cells \subseteq Word \cup {Null}
           /\ kind = "bytes" => family.cells \subseteq Ranks \cup {Null}
           /\ family.rows \in Nat /\ family.rows < HalfWord
  BY StoreAssumption, ColumnAssumption DEF BuilderRight, kind

LEMMA AppendCellValues ==
    ASSUME NEW x, NEW c
    PROVE  AppendCell(x, c).vals = Append(x.vals, IF c = Null THEN 0 ELSE c)
  BY DEF AppendCell, AppendNull, AppendValue

LEMMA BuilderAppends ==
    ASSUME BuilderRight, AppendValueOrNull
    PROVE  BuilderRight'
<1>1. PICK c \in family.cells : cells' = Append(cells, c) /\ b' = AppendCell(b, c)
  BY DEF AppendValueOrNull
<1>2. family' = family /\ Len(cells) < family.rows
  BY DEF AppendValueOrNull
<1>3. /\ family \in Families /\ cells \in Seq(family.cells)
      /\ Sound(b) /\ Rows(b) = Len(cells)
      /\ \A i \in 1 .. Rows(b) : /\ CellAt(b, i) = cells[i]
                                 /\ b.vals[i] = IF cells[i] = Null THEN 0 ELSE cells[i]
  BY DEF BuilderRight
<1>4. c \in Word \cup {Null} /\ family.rows \in Nat
  BY <1>1, FamilyFacts
<1> DEFINE n == Rows(b)
           w == IF c = Null THEN 0 ELSE c
<1>5. /\ Sound(b') /\ Rows(b') = n + 1
      /\ \A i \in 1 .. n : CellAt(b', i) = CellAt(b, i)
      /\ CellAt(b', n + 1) = c
  BY <1>1, <1>3, <1>4, AppendCellFacts
<1>6. /\ cells' \in Seq(family.cells) /\ Len(cells') = n + 1
      /\ \A i \in 1 .. n : cells'[i] = cells[i]
      /\ cells'[n + 1] = c
  BY <1>1, <1>3, AppendProperties
<1>7. n \in Nat /\ Len(b.vals) = n /\ b.vals \in Seq(Word)
  BY <1>3, SoundFields
<1>8. b'.vals = Append(b.vals, w)
  BY <1>1, AppendCellValues
<1>9. w \in Word
  BY <1>4, WordFacts
<1>10. b'.vals[n + 1] = w /\ \A i \in 1 .. n : b'.vals[i] = b.vals[i]
  <2> HIDE DEF w, n
  <2> QED  BY <1>7, <1>8, <1>9, AppendProperties
<1> HIDE DEF n
<1>11. \A i \in 1 .. n + 1 : i \in 1 .. n \/ i = n + 1
  BY <1>7
<1>12. ASSUME NEW i \in 1 .. n + 1
       PROVE  /\ CellAt(b', i) = cells'[i]
              /\ b'.vals[i] = IF cells'[i] = Null THEN 0 ELSE cells'[i]
  <2>1. CASE i \in 1 .. n
    BY <1>3, <1>5, <1>6, <1>10, <2>1 DEF n
  <2>2. CASE i = n + 1
    BY <1>5, <1>6, <1>10, <2>2
  <2> QED  BY <1>11, <2>1, <2>2
<1>13. Len(cells') <= family'.rows
  <2>1. n < family.rows
    BY <1>2, <1>3 DEF n
  <2> QED  BY <1>2, <1>4, <1>6, <1>7, <2>1
<1> QED  BY <1>2, <1>3, <1>5, <1>6, <1>12, <1>13 DEF BuilderRight

\* No other step touches the column.
LEMMA BuilderKept ==
    ASSUME BuilderRight, UNCHANGED <<family, cells, b>>
    PROVE  BuilderRight'
  BY DEF BuilderRight

LEMMA BuilderStarts == Init => BuilderRight
<1> SUFFICES ASSUME Init PROVE BuilderRight
  OBVIOUS
<1>1. family \in Families /\ cells = <<>> /\ b = NewBuilder
  BY DEF Init
<1>2. family.rows \in Nat
  BY <1>1, StoreAssumption
<1>3. Sound(b) /\ Rows(b) = 0
  BY <1>1, EmptyBuilder
<1>4. cells \in Seq(family.cells) /\ Len(cells) = 0
  BY <1>1
<1>5. Len(cells) <= family.rows
  BY <1>2, <1>4
<1> QED  BY <1>1, <1>3, <1>4, <1>5 DEF BuilderRight

\* Whatever is appended, encoded, written, damaged and read, the builder holds
\* the cells that were appended to it, nulls apart from zeros (builder.go).
THEOREM BuilderAlwaysRight == Spec => []BuilderRight
<1>1. BuilderRight /\ [Next]_vars => BuilderRight'
  <2> SUFFICES ASSUME BuilderRight, [Next]_vars PROVE BuilderRight'
    OBVIOUS
  <2>1. CASE AppendValueOrNull
    BY <2>1, BuilderAppends
  <2>2. CASE UNCHANGED <<family, cells, b>>
    BY <2>2, BuilderKept
  <2>3. AppendValueOrNull \/ UNCHANGED <<family, cells, b>>
    BY DEF Next, vars, Encode, Decode, Write, Cut, Change, OpenFile, RecoverFile
  <2> QED  BY <2>1, <2>2, <2>3
<1> QED  BY <1>1, BuilderStarts, PTL DEF Spec

\* What a codec is given: the words, or strings a reader takes.
LEMMA ColumnIs ==
    ASSUME BuilderRight, Rows(b) > 0
    PROVE  /\ b.vals \in Seq(Word) /\ Len(b.vals) = Rows(b)
           /\ Rows(b) \in Word /\ Rows(b) # 0 /\ Rows(b) \in Nat /\ Rows(b) < HalfWord
<1>1. b.vals \in Seq(Word) /\ Len(b.vals) = Rows(b) /\ Rows(b) \in Nat
  BY SoundFields DEF BuilderRight
<1>2. Rows(b) <= family.rows /\ family.rows \in Nat /\ family.rows < HalfWord
  BY FamilyFacts DEF BuilderRight
<1>3. HalfWord \in Nat
  BY ColumnAssumption
<1>4. Rows(b) \in 0 .. (2 * HalfWord - 1) /\ Rows(b) # 0 /\ Rows(b) < HalfWord
  <2> DEFINE n == Rows(b)
             m == family.rows
  <2>1. n \in Nat /\ m \in Nat /\ n <= m /\ m < HalfWord /\ n > 0
    BY <1>1, <1>2
  <2> HIDE DEF n, m
  <2>2. n \in 0 .. (2 * HalfWord - 1) /\ n # 0 /\ n < HalfWord
    BY <1>3, <2>1
  <2> QED  BY <2>2 DEF n
<1> QED  BY <1>1, <1>4 DEF Word

LEMMA LimitFacts ==
    /\ MaxBytesValue \in Word /\ MaxDictEntries \in Word /\ MaxStringTable \in Word
    /\ MaxBytesValue \in Nat /\ MaxDictEntries \in Nat /\ MaxStringTable \in Nat
<1>1. {MaxBytesValue, MaxDictEntries, MaxStringTable} \subseteq Word
  BY EncodingAssumption
<1>2. Word \subseteq Nat
  BY WordSize
<1> QED  BY <1>1, <1>2

LEMMA StringsAre ==
    ASSUME BuilderRight, Rows(b) > 0, kind = "bytes"
    PROVE  /\ Strings(b.vals) \in Seq(Seq(Byte)) /\ Len(Strings(b.vals)) = Rows(b)
           /\ \A i \in 1 .. Rows(b) : /\ b.vals[i] \in Ranks
                                      /\ Strings(b.vals)[i] = Texts[b.vals[i] + 1]
                                      /\ Texts[b.vals[i] + 1] \in Seq(Byte)
                                      /\ Len(Texts[b.vals[i] + 1]) \in Word
           /\ Strings(b.vals) \in Seq(AnyStrings)
           /\ ~ TooLong => Strings(b.vals) \in Seq(ShortStrings)
<1> DEFINE n == Rows(b)
           s == Strings(b.vals)
<1>1. b.vals \in Seq(Word) /\ Len(b.vals) = n /\ n \in Nat /\ DOMAIN b.vals = 1 .. n
  BY ColumnIs
<1>2. /\ Texts \in Seq(Seq(Byte)) /\ 1 \in DOMAIN Texts /\ Texts[1] = <<>>
      /\ DOMAIN Texts = 1 .. Len(Texts) /\ Len(Texts) \in Nat
      /\ \A i \in DOMAIN Texts : Len(Texts[i]) \in Word
  BY ChunkAssumption
<1>3. s = [i \in 1 .. n |-> Texts[b.vals[i] + 1]]
  BY <1>1 DEF Strings
<1>4. ASSUME NEW i \in 1 .. n
      PROVE  /\ b.vals[i] \in Ranks
             /\ ~ Present(b, i) => b.vals[i] = 0
  <2>1. cells[i] \in family.cells /\ CellAt(b, i) = cells[i]
        /\ b.vals[i] = IF cells[i] = Null THEN 0 ELSE cells[i]
    <3>1. i \in 1 .. Len(cells) /\ cells \in Seq(family.cells)
      BY DEF BuilderRight
    <3> QED  BY <3>1 DEF BuilderRight
  <2>2. family.cells \subseteq Ranks \cup {Null}
    BY FamilyFacts
  <2>3. 0 \in Ranks
    BY <1>2 DEF Ranks
  <2> QED  BY <2>1, <2>2, <2>3 DEF CellAt
<1>5. ASSUME NEW i \in 1 .. n
      PROVE  Texts[b.vals[i] + 1] \in Seq(Byte) /\ Len(Texts[b.vals[i] + 1]) \in Word
  <2> DEFINE v == b.vals[i]
  <2>1. v \in 0 .. (Len(Texts) - 1)
    BY <1>4 DEF Ranks
  <2> HIDE DEF v
  <2>2. v + 1 \in DOMAIN Texts
    BY <1>2, <2>1
  <2>3. Texts[v + 1] \in Seq(Byte) /\ Len(Texts[v + 1]) \in Word
    BY <1>2, <2>2
  <2> QED  BY <2>3 DEF v
<1> HIDE DEF s, n
<1>6. s \in Seq(Seq(Byte)) /\ Len(s) = n
  BY <1>1, <1>3, <1>5
<1>8. s \in Seq(AnyStrings)
  <2>1. \A i \in 1 .. n : s[i] \in AnyStrings
    BY <1>3, <1>5 DEF AnyStrings
  <2> QED  BY <1>1, <1>3, <2>1
<1>7. ASSUME ~ TooLong PROVE s \in Seq(ShortStrings)
  <2>1. ASSUME NEW i \in 1 .. n PROVE Len(Texts[b.vals[i] + 1]) <= MaxBytesValue
    <3>1. CASE Present(b, i)
      <4>1. b.vals[i] \in PresentValues(b)
        BY <3>1 DEF PresentValues, PresentRows, n
      <4>2. ~ (Len(Texts[b.vals[i] + 1]) > MaxBytesValue)
        BY <1>7, <4>1 DEF TooLong
      <4> DEFINE l == Len(Texts[b.vals[i] + 1])
      <4>3. l \in Nat /\ MaxBytesValue \in Nat
        BY <1>5, LimitFacts, WordSize
      <4> HIDE DEF l
      <4>4. ~ (l > MaxBytesValue)
        BY <4>2 DEF l
      <4>5. l <= MaxBytesValue
        BY <4>3, <4>4
      <4> QED  BY <4>5 DEF l
    <3>2. CASE ~ Present(b, i)
      <4>1. Texts[b.vals[i] + 1] = <<>>
        BY <1>2, <1>4, <3>2
      <4> QED  BY <4>1, LimitFacts
    <3> QED  BY <3>1, <3>2
  <2>2. \A i \in 1 .. n : s[i] \in ShortStrings
    BY <1>3, <1>5, <2>1 DEF ShortStrings
  <2> QED  BY <1>1, <1>3, <2>2
<1> QED  BY <1>3, <1>4, <1>5, <1>6, <1>7, <1>8 DEF s, n

\* Not too big a table, said of its entries and of the bytes of its strings.
LEMMA TableFits ==
    ASSUME BuilderRight, Rows(b) > 0, ~ TableTooBig
    PROVE  /\ Cardinality(ToSet(b.vals)) <= MaxDictEntries
           /\ kind = "bytes" =>
                 /\ Cardinality(ToSet(Strings(b.vals))) <= MaxDictEntries
                 /\ ~ (Len(FlattenSeq(StringTable(Strings(b.vals)))) > MaxStringTable)
<1> DEFINE S == ToSet(b.vals)
           s == Strings(b.vals)
           n == Rows(b)
           f == [v \in S |-> Texts[v + 1]]
<1>1. b.vals \in Seq(Word) /\ Len(b.vals) = n /\ n \in Nat
  BY ColumnIs
<1>2. IsFiniteSet(S)
  BY <1>1, ValuesFinite
<1>3. Cardinality(S) \in Nat
  <2> HIDE DEF S
  <2> QED  BY <1>2, FS_CardinalityType
<1>4. Cardinality(S) <= MaxDictEntries
  <2>1. ~ (Cardinality(S) > MaxDictEntries)
    BY DEF TableTooBig
  <2> HIDE DEF S
  <2> QED  BY <1>3, <2>1, LimitFacts
<1>5. ASSUME kind = "bytes" PROVE Cardinality(ToSet(s)) <= Cardinality(S)
  <2>1. Len(s) = n /\ \A i \in 1 .. n : s[i] = Texts[b.vals[i] + 1]
    BY <1>5, StringsAre
  <2>2. S = {b.vals[i] : i \in 1 .. n}
    BY <1>1 DEF ToSet
  <2>3. ToSet(s) = {s[i] : i \in 1 .. n}
    <3>1. DOMAIN s = 1 .. n
      BY <1>5, StringsAre
    <3> QED  BY <3>1 DEF ToSet
  <2>4. f \in [S -> ToSet(s)]
    <3>1. \A v \in S : Texts[v + 1] \in ToSet(s)
      BY <2>1, <2>2, <2>3
    <3> QED  BY <3>1
  <2>5. \A x \in ToSet(s) : \E v \in S : f[v] = x
    <3>1. ASSUME NEW i \in 1 .. n PROVE b.vals[i] \in S /\ f[b.vals[i]] = s[i]
      BY <2>1, <2>2
    <3> HIDE DEF f, S, s
    <3> QED  BY <2>3, <3>1
  <2> HIDE DEF f, S, s
  <2>6. f \in Surjection(S, ToSet(s))
    BY <2>4, <2>5 DEF Surjection
  <2> QED  BY <1>2, <2>6, FS_Surjection
<1>6. kind = "bytes" => ~ (Len(FlattenSeq(StringTable(s))) > MaxStringTable)
  BY DEF TableTooBig
<1>7. ASSUME kind = "bytes" PROVE Cardinality(ToSet(s)) <= MaxDictEntries
  <2>1. s \in Seq(Seq(Byte))
    BY <1>7, StringsAre
  <2>2. IsFiniteSet(ToSet(s))
    <3> HIDE DEF s
    <3> QED  BY <2>1, ValuesFinite
  <2>3. Cardinality(ToSet(s)) \in Nat
    <3> HIDE DEF s
    <3> QED  BY <2>2, FS_CardinalityType
  <2>4. Cardinality(ToSet(s)) <= Cardinality(S)
    BY <1>5, <1>7
  <2> DEFINE x == Cardinality(ToSet(s))
             y == Cardinality(S)
  <2> HIDE DEF x, y, s, S
  <2>5. x <= MaxDictEntries
    BY <1>3, <1>4, <2>3, <2>4, LimitFacts DEF x, y
  <2> QED  BY <2>5 DEF x
<1> QED  BY <1>4, <1>6, <1>7

LEMMA IntColumnExact ==
    ASSUME BuilderRight, Rows(b) > 0, NEW id \in IntCodecs, TableTaken(id)
    PROVE  Gives(DecodeInts(id, EncodeInts(id, b.vals), Rows(b)), b.vals)
<1> DEFINE vals == b.vals
<1>1. /\ vals \in Seq(Word) /\ Len(vals) = Rows(b) /\ Len(vals) # 0 /\ Len(vals) \in Word
      /\ Len(vals) < HalfWord
  BY ColumnIs
<1>2. id = "dict" => Cardinality(ToSet(vals)) <= MaxDictEntries
  BY TableFits DEF TableTaken
<1> HIDE DEF vals
<1>3. Exact(DecodeInts(id, EncodeInts(id, vals), Len(vals)), vals)
  BY <1>1, <1>2, IntCodecsExact
<1>4. Gives(DecodeInts(id, EncodeInts(id, vals), Rows(b)), vals)
  BY <1>1, <1>3 DEF Exact, Gives
<1> QED  BY <1>4 DEF vals

LEMMA BytesColumnExact ==
    ASSUME BuilderRight, Rows(b) > 0, kind = "bytes", ~ TooLong,
           NEW id \in BytesCodecs, TableTaken(id)
    PROVE  LET s == Strings(b.vals)
           IN  Gives(DecodeBytes(id, EncodeBytes(id, s), Rows(b)), s)
<1> DEFINE s == Strings(b.vals)
<1>1. s \in Seq(ShortStrings) /\ s \in Seq(AnyStrings) /\ Len(s) = Rows(b)
  BY StringsAre
<1>2. Rows(b) # 0 /\ Rows(b) \in Word /\ Rows(b) < HalfWord
  BY ColumnIs
<1>3. id = "dict" => TableIsTaken(s)
  BY TableFits DEF TableTaken, TableIsTaken
<1> HIDE DEF s
<1>4. Exact(DecodeBytes(id, EncodeBytes(id, s), Len(s)), s)
  BY <1>1, <1>2, <1>3, BytesCodecsExact
<1>5. Gives(DecodeBytes(id, EncodeBytes(id, s), Rows(b)), s)
  BY <1>1, <1>4 DEF Exact, Gives
<1> QED  BY <1>5 DEF s

\* Whatever codec the chooser had picked, its decoder gives back the very column
\* that was built, of any length and over all words, unless a string or the
\* table of a dictionary is over what a reader takes (encoding.go:6-9).
THEOREM EveryCodecExactAlways == Spec => []EveryCodecExact
<1>1. BuilderRight => EveryCodecExact
  <2> SUFFICES ASSUME BuilderRight, Rows(b) > 0, ~ TooLong
               PROVE  IF kind = "int"
                      THEN \A id \in IntCodecs : TableTaken(id) =>
                               Gives(DecodeInts(id, EncodeInts(id, b.vals), Rows(b)), b.vals)
                      ELSE LET s == Strings(b.vals)
                           IN  \A id \in BytesCodecs : TableTaken(id) =>
                                   Gives(DecodeBytes(id, EncodeBytes(id, s), Rows(b)), s)
    BY DEF EveryCodecExact
  <2>1. kind \in {"int", "bytes"}
    BY FamilyFacts
  <2>2. CASE kind = "int"
    BY <2>2, IntColumnExact
  <2>3. CASE kind = "bytes"
    BY <2>3, BytesColumnExact
  <2> QED  BY <2>1, <2>2, <2>3
<1> QED  BY <1>1, BuilderAlwaysRight, PTL

\* Packed integers are one stream of bits, whatever the width and wherever a
\* value crosses a byte or a word (bitpack.go:5-13).
THEOREM PackedIsBitStreamAlways == Spec => []PackedIsBitStream
<1>1. BuilderRight => PackedIsBitStream
  <2> SUFFICES ASSUME BuilderRight, Rows(b) > 0, NEW width \in 1 .. WordBits
               PROVE  LET bit(t) == IF t < Rows(b) * width
                                    THEN (b.vals[t \div width + 1] \div Pow2[t % width]) % 2 ELSE 0
                          byte(k) == Total([j \in 1 .. ByteBits |->
                                               bit((k - 1) * ByteBits + j - 1) * Pow2[j - 1]], ByteBits)
                      IN  AppendPacked(b.vals, width) =
                              [k \in 1 .. PackedBytes(Rows(b), width) |-> byte(k)]
    BY DEF PackedIsBitStream
  <2> DEFINE vals == b.vals
             n == Rows(b)
  <2>1. vals \in Seq(Word) /\ Len(vals) = n /\ Word \subseteq Nat
    BY ColumnIs, WordSize
  <2>2. vals \in Seq(Nat)
    <3> HIDE DEF vals, n
    <3> QED  BY <2>1, SeqWider
  <2>3. AppendPacked(vals, width)
        = [k \in 1 .. PackedBytes(n, width) |-> ByteOfColumn(vals, n, width, k)]
    <3> HIDE DEF vals, n
    <3> QED  BY <2>1, <2>2, PackedBits
  <2> QED  BY <2>3 DEF ByteOfColumn, BitOfColumn
<1> QED  BY <1>1, BuilderAlwaysRight, PTL

(***************************************************************************)
(* Payloads that were cut short.                                           *)
(***************************************************************************)

\* What is perhaps among the candidates.
LEMMA GivenIs ==
    ASSUME NEW S, NEW id \in S, NEW cond
    PROVE  Given(cond, id) \in Seq(S)
  BY DEF Given

LEMMA RareCodecs ==
    /\ "rle" \in IntCodecs /\ "dod" \in IntCodecs /\ "dict" \in IntCodecs
    /\ "rle" \in BytesCodecs /\ "dict" \in BytesCodecs
  BY DEF IntCodecs, BytesCodecs

LEMMA Longer ==
    ASSUME NEW S, NEW x \in Seq(S), NEW y \in Seq(S), Len(x) # 0
    PROVE  x \o y \in Seq(S) /\ Len(x \o y) # 0
  OBVIOUS

\* The candidates of the choosers are codecs, and there is one (encoding.go).
LEMMA CandidatesAre ==
    ASSUME NEW vals
    PROVE  /\ Len(IntCandidates(vals)) \in Nat /\ Len(IntCandidates(vals)) # 0
           /\ DOMAIN IntCandidates(vals) = 1 .. Len(IntCandidates(vals))
           /\ \A k \in 1 .. Len(IntCandidates(vals)) : IntCandidates(vals)[k] \in IntCodecs
           /\ Len(BytesCandidates(vals)) \in Nat /\ Len(BytesCandidates(vals)) # 0
           /\ DOMAIN BytesCandidates(vals) = 1 .. Len(BytesCandidates(vals))
           /\ \A k \in 1 .. Len(BytesCandidates(vals)) : BytesCandidates(vals)[k] \in BytesCodecs
<1> DEFINE i1 == Given(FewRuns(vals), "rle")
           i2 == Given(IsSorted64(vals), "dod")
           i3 == Given(FewDistinct(vals, DistinctInts(vals)), "dict")
           y3 == Given(FewDistinct(vals, DistinctBytes(vals)), "dict")
           base == <<"plain", "varint">>
           pair == <<"bitpack", "delta">>
           raw == <<"raw">>
<1>1. /\ i1 \in Seq(IntCodecs) /\ i2 \in Seq(IntCodecs) /\ i3 \in Seq(IntCodecs)
      /\ i1 \in Seq(BytesCodecs) /\ y3 \in Seq(BytesCodecs)
  BY GivenIs, RareCodecs
<1>2. /\ base \in Seq(IntCodecs) /\ Len(base) # 0 /\ pair \in Seq(IntCodecs)
      /\ raw \in Seq(BytesCodecs) /\ Len(raw) # 0
  BY DEF IntCodecs, BytesCodecs
<1> HIDE DEF i1, i2, i3, y3, base, pair, raw
<1>3. base \o i1 \in Seq(IntCodecs) /\ Len(base \o i1) # 0
  BY <1>1, <1>2, Longer
<1>4. base \o i1 \o pair \in Seq(IntCodecs) /\ Len(base \o i1 \o pair) # 0
  BY <1>2, <1>3, Longer
<1>5. base \o i1 \o pair \o i2 \in Seq(IntCodecs) /\ Len(base \o i1 \o pair \o i2) # 0
  BY <1>1, <1>4, Longer
<1>6. base \o i1 \o pair \o i2 \o i3 \in Seq(IntCodecs) /\ Len(base \o i1 \o pair \o i2 \o i3) # 0
  BY <1>1, <1>5, Longer
<1>7. raw \o i1 \in Seq(BytesCodecs) /\ Len(raw \o i1) # 0
  BY <1>1, <1>2, Longer
<1>8. raw \o i1 \o y3 \in Seq(BytesCodecs) /\ Len(raw \o i1 \o y3) # 0
  BY <1>1, <1>7, Longer
<1>9. IntCandidates(vals) = base \o i1 \o pair \o i2 \o i3
  BY DEF IntCandidates, base, i1, pair, i2, i3
<1>10. BytesCandidates(vals) = raw \o i1 \o y3
  BY DEF BytesCandidates, raw, i1, y3
<1>11. \A S : \A s \in Seq(S) : /\ Len(s) \in Nat /\ DOMAIN s = 1 .. Len(s)
                                /\ \A k \in 1 .. Len(s) : s[k] \in S
  OBVIOUS
<1> QED  BY <1>6, <1>8, <1>9, <1>10, <1>11

\* A candidate is a codec and its payload.
LEMMA CandidateFields ==
    ASSUME NEW id, NEW payload
    PROVE  Candidate(id, payload).id = id /\ Candidate(id, payload).data = payload
  BY DEF Candidate

\* The chooser keeps the payload of a codec (encoding.go).
LEMMA ChosenInts ==
    ASSUME NEW vals \in Seq(Word), Len(vals) # 0, Len(vals) \in Word,
           Len(vals) < HalfWord
    PROVE  \E id \in IntCodecs : EncodeIntsAuto(vals) = Candidate(id, EncodeInts(id, vals))
<1> DEFINE ids == IntCandidates(vals)
           cands == [k \in DOMAIN ids |-> Candidate(ids[k], EncodeInts(ids[k], vals))]
<1>1. /\ Len(ids) \in Nat /\ Len(ids) # 0 /\ DOMAIN ids = 1 .. Len(ids)
      /\ \A k \in 1 .. Len(ids) : ids[k] \in IntCodecs
  BY CandidatesAre
<1> HIDE DEF ids
<1>2. /\ Len(cands) = Len(ids)
      /\ \A k \in 1 .. Len(ids) : cands[k] = Candidate(ids[k], EncodeInts(ids[k], vals))
  BY <1>1
<1>3. EncodeIntsAuto(vals) = Shortest(cands)
  BY DEF EncodeIntsAuto, ids
<1> HIDE DEF cands
<1>4. ASSUME NEW k \in 1 .. Len(cands) PROVE Len(cands[k].data) \in Nat
  <2>1. EncodeInts(ids[k], vals) \in Seq(Byte)
    <3>1. ids[k] \in IntCodecs
      BY <1>1, <1>2
    <3> DEFINE id == ids[k]
    <3> HIDE DEF id
    <3>2. id \in IntCodecs
      BY <3>1 DEF id
    <3>3. EncodeInts(id, vals) \in Seq(Byte)
      BY <3>2, IntCodecsExact
    <3> QED  BY <3>3 DEF id
  <2>2. cands[k].data = EncodeInts(ids[k], vals)
    <3> DEFINE i == ids[k]
               e == EncodeInts(ids[k], vals)
               x == cands[k]
    <3>1. k \in 1 .. Len(ids)
      BY <1>2
    <3>2. x = Candidate(i, e)
      BY <1>2, <3>1, Zenon
    <3> HIDE DEF i, e, x
    <3>3. x.data = e
      BY <3>2, CandidateFields
    <3> QED  BY <3>3 DEF e, x
  <2> DEFINE e == EncodeInts(ids[k], vals)
  <2>3. Len(e) \in Nat
    <3> HIDE DEF e
    <3> QED  BY <2>1 DEF e
  <2> QED  BY <2>2, <2>3, Zenon
<1>5. \E j \in 1 .. Len(cands) : Shortest(cands) = cands[j]
  BY <1>1, <1>2, <1>4, ShortestIs
<1> QED  BY <1>1, <1>2, <1>3, <1>5

LEMMA ChosenBytes ==
    ASSUME NEW vals \in Seq(AnyStrings), Len(vals) # 0, Len(vals) \in Word,
           Len(vals) < HalfWord
    PROVE  \E id \in BytesCodecs : EncodeBytesAuto(vals) = Candidate(id, EncodeBytes(id, vals))
<1> DEFINE ids == BytesCandidates(vals)
           cands == [k \in DOMAIN ids |-> Candidate(ids[k], EncodeBytes(ids[k], vals))]
<1>1. /\ Len(ids) \in Nat /\ Len(ids) # 0 /\ DOMAIN ids = 1 .. Len(ids)
      /\ \A k \in 1 .. Len(ids) : ids[k] \in BytesCodecs
  BY CandidatesAre
<1> HIDE DEF ids
<1>2. /\ Len(cands) = Len(ids)
      /\ \A k \in 1 .. Len(ids) : cands[k] = Candidate(ids[k], EncodeBytes(ids[k], vals))
  BY <1>1
<1>3. EncodeBytesAuto(vals) = Shortest(cands)
  BY DEF EncodeBytesAuto, ids
<1> HIDE DEF cands
<1>4. ASSUME NEW k \in 1 .. Len(cands) PROVE Len(cands[k].data) \in Nat
  <2>1. EncodeBytes(ids[k], vals) \in Seq(Byte)
    <3>1. ids[k] \in BytesCodecs
      BY <1>1, <1>2
    <3> DEFINE id == ids[k]
    <3> HIDE DEF id
    <3>2. id \in BytesCodecs
      BY <3>1 DEF id
    <3>3. EncodeBytes(id, vals) \in Seq(Byte)
      BY <3>2, BytesCodecsExact
    <3> QED  BY <3>3 DEF id
  <2>2. cands[k].data = EncodeBytes(ids[k], vals)
    <3> DEFINE i == ids[k]
               e == EncodeBytes(ids[k], vals)
               x == cands[k]
    <3>1. k \in 1 .. Len(ids)
      BY <1>2
    <3>2. x = Candidate(i, e)
      BY <1>2, <3>1, Zenon
    <3> HIDE DEF i, e, x
    <3>3. x.data = e
      BY <3>2, CandidateFields
    <3> QED  BY <3>3 DEF e, x
  <2> DEFINE e == EncodeBytes(ids[k], vals)
  <2>3. Len(e) \in Nat
    <3> HIDE DEF e
    <3> QED  BY <2>1 DEF e
  <2> QED  BY <2>2, <2>3, Zenon
<1>5. \E j \in 1 .. Len(cands) : Shortest(cands) = cands[j]
  BY <1>1, <1>2, <1>4, ShortestIs
<1> QED  BY <1>1, <1>2, <1>3, <1>5

\* The ids of codecs.
LEMMA IntIdIs ==
    ASSUME NEW id \in IntCodecs
    PROVE  IdOf("int", id) \in 0 .. 6 /\ IntIds[IdOf("int", id) + 1] = id
<1>1. \E i \in 0 .. 6 : IntIds[i + 1] = id
  <2>1. /\ 0 \in 0 .. 6 /\ 1 \in 0 .. 6 /\ 2 \in 0 .. 6 /\ 3 \in 0 .. 6
        /\ 4 \in 0 .. 6 /\ 5 \in 0 .. 6 /\ 6 \in 0 .. 6
    OBVIOUS
  <2>2. /\ IntIds[0 + 1] = "plain" /\ IntIds[1 + 1] = "varint" /\ IntIds[2 + 1] = "delta"
        /\ IntIds[3 + 1] = "dod" /\ IntIds[4 + 1] = "rle" /\ IntIds[5 + 1] = "bitpack"
        /\ IntIds[6 + 1] = "dict"
    BY DEF IntIds
  <2> QED  BY <2>1, <2>2, Zenon DEF IntCodecs
<1> DEFINE i == CHOOSE j \in 0 .. 6 : IntIds[j + 1] = id
<1>2. IdOf("int", id) = i /\ i \in 0 .. 6 /\ IntIds[i + 1] = id
  BY <1>1 DEF IdOf
<1> QED  BY <1>2

\* A codec is found again by the id that its chunk has (encoding.go:24-47).
LEMMA IntIdFound ==
    ASSUME NEW id \in IntCodecs, NEW d, NEW n
    PROVE  DecodeValues(Kinds["int"], IdOf("int", id), d, n) = DecodeInts(id, d, n)
<1> DEFINE i == IdOf("int", id)
<1>1. i \in 0 .. 6 /\ IntIds[i + 1] = id
  BY IntIdIs
<1>2. Len(IntIds) = 7 /\ Kinds["int"] = 0
  BY DEF IntIds, Kinds
<1> HIDE DEF i
<1>3. i < 7
  BY <1>1
<1>4. DecodeValues(Kinds["int"], i, d, n) = DecodeInts(id, d, n)
  BY <1>1, <1>2, <1>3 DEF DecodeValues
<1> QED  BY <1>4 DEF i

LEMMA BytesIdIs ==
    ASSUME NEW id \in BytesCodecs
    PROVE  LET i == IdOf("bytes", id)
           IN  /\ i \in FirstBytesId .. (FirstBytesId + 2)
               /\ BytesIds[i - FirstBytesId + 1] = id
<1> DEFINE f == FirstBytesId
           i == CHOOSE j \in f .. (f + 2) : BytesIds[j - f + 1] = id
<1>1. f \in Nat
  BY ChunkAssumption DEF Byte
<1>2. \E j \in f .. (f + 2) : BytesIds[j - f + 1] = id
  <2>1. /\ BytesIds[1] = "raw" /\ BytesIds[2] = "dict" /\ BytesIds[3] = "rle"
    BY DEF BytesIds
  <2> HIDE DEF f
  <2>2. /\ f \in f .. (f + 2) /\ f + 1 \in f .. (f + 2) /\ f + 2 \in f .. (f + 2)
        /\ f - f + 1 = 1 /\ (f + 1) - f + 1 = 2 /\ (f + 2) - f + 1 = 3
    BY <1>1
  <2> QED  BY <2>1, <2>2, Zenon DEF BytesCodecs
<1>3. IdOf("bytes", id) = i /\ i \in f .. (f + 2) /\ BytesIds[i - f + 1] = id
  <2>1. IdOf("bytes", id) = i
    BY DEF IdOf
  <2> HIDE DEF f
  <2> QED  BY <1>2, <2>1
<1> QED  BY <1>3

LEMMA BytesIdFound ==
    ASSUME NEW id \in BytesCodecs, NEW d, NEW n
    PROVE  DecodeValues(Kinds["bytes"], IdOf("bytes", id), d, n) = DecodeBytes(id, d, n)
<1> DEFINE i == IdOf("bytes", id)
<1>1. i \in FirstBytesId .. (FirstBytesId + 2) /\ BytesIds[i - FirstBytesId + 1] = id
  BY BytesIdIs
<1>2. Kinds["bytes"] = 1
  BY DEF Kinds
<1> HIDE DEF i
<1>3. DecodeValues(Kinds["bytes"], i, d, n) = DecodeBytes(id, d, n)
  BY <1>1, <1>2 DEF DecodeValues
<1> QED  BY <1>3 DEF i

\* A chunk is made of a column with rows.
RowsStored == phase \in {"stored", "read"} => Rows(b) > 0

LEMMA RowsStoredAlways == Spec => []RowsStored
<1>1. Init => RowsStored
  BY DEF Init, RowsStored
<1>2. RowsStored /\ [Next]_vars => RowsStored'
  <2> SUFFICES ASSUME RowsStored, [Next]_vars PROVE RowsStored'
    OBVIOUS
  <2>1. CASE AppendValueOrNull
    BY <2>1 DEF AppendValueOrNull, RowsStored
  <2>2. CASE Encode
    <3>1. Rows(b) > 0 /\ b' = b
      BY <2>2 DEF Encode
    <3> QED  BY <3>1 DEF RowsStored
  <2>3. CASE Decode
    <3>1. phase = "stored" /\ b' = b
      BY <2>3 DEF Decode
    <3> QED  BY <3>1 DEF RowsStored
  <2>4. CASE Write \/ Cut \/ Change \/ OpenFile \/ RecoverFile
    <3>1. phase' \in {"closed", "damaged", "opened", "recovered"}
      BY <2>4 DEF Write, Cut, Change, OpenFile, RecoverFile
    <3> QED  BY <3>1 DEF RowsStored
  <2>5. CASE UNCHANGED vars
    BY <2>5 DEF RowsStored, vars
  <2> QED  BY <2>1, <2>2, <2>3, <2>4, <2>5 DEF Next
<1> QED  BY <1>1, <1>2, PTL DEF Spec

LEMMA CutInts ==
    ASSUME BuilderRight, Rows(b) > 0, kind = "int",
           NEW n \in 0 .. (Len(Encoded(kind, b).data) - 1)
    PROVE  LET e == Encoded(kind, b)
           IN  ~ DecodeValues(Kinds[kind], IdOf(kind, e.id), SubSeq(e.data, 1, n), Rows(b)).ok
<1> DEFINE vals == b.vals
           rows == Rows(b)
           d == SubSeq(Encoded(kind, b).data, 1, n)
<1>1. /\ vals \in Seq(Word) /\ Len(vals) = rows /\ Len(vals) # 0 /\ Len(vals) \in Word
      /\ Len(vals) < HalfWord
  BY ColumnIs
<1>2. Encoded(kind, b) = EncodeIntsAuto(vals)
  BY DEF Encoded
<1> HIDE DEF vals, rows, d
<1>3. PICK id \in IntCodecs : EncodeIntsAuto(vals) = Candidate(id, EncodeInts(id, vals))
  BY <1>1, ChosenInts
<1>4. Encoded(kind, b).id = id /\ Encoded(kind, b).data = EncodeInts(id, vals)
  BY <1>2, <1>3 DEF Candidate
<1>5. \A k \in 0 .. (Len(EncodeInts(id, vals)) - 1) :
         DecodeInts(id, SubSeq(EncodeInts(id, vals), 1, k), Len(vals)) = Failed
  BY <1>1, IntCodecsExact
<1>6. DecodeInts(id, d, rows) = Failed
  BY <1>1, <1>4, <1>5 DEF d
<1>7. DecodeValues(Kinds["int"], IdOf("int", id), d, rows) = Failed
  BY <1>6, IntIdFound
<1>8. ~ Failed.ok
  BY DEF Failed
<1> QED  BY <1>4, <1>7, <1>8 DEF d, rows

LEMMA CutBytes ==
    ASSUME BuilderRight, Rows(b) > 0, kind = "bytes",
           NEW n \in 0 .. (Len(Encoded(kind, b).data) - 1)
    PROVE  LET e == Encoded(kind, b)
           IN  ~ DecodeValues(Kinds[kind], IdOf(kind, e.id), SubSeq(e.data, 1, n), Rows(b)).ok
<1> DEFINE vals == Strings(b.vals)
           rows == Rows(b)
           d == SubSeq(Encoded(kind, b).data, 1, n)
<1>1. /\ vals \in Seq(AnyStrings) /\ Len(vals) = rows /\ Len(vals) # 0 /\ Len(vals) \in Word
      /\ Len(vals) < HalfWord
  BY ColumnIs, StringsAre
<1>2. Encoded(kind, b) = EncodeBytesAuto(vals)
  BY DEF Encoded
<1> HIDE DEF vals, rows, d
<1>3. PICK id \in BytesCodecs : EncodeBytesAuto(vals) = Candidate(id, EncodeBytes(id, vals))
  BY <1>1, ChosenBytes
<1>4. Encoded(kind, b).id = id /\ Encoded(kind, b).data = EncodeBytes(id, vals)
  BY <1>2, <1>3 DEF Candidate
<1>5. \A k \in 0 .. (Len(EncodeBytes(id, vals)) - 1) :
         DecodeBytes(id, SubSeq(EncodeBytes(id, vals), 1, k), Len(vals)) = Failed
  BY <1>1, BytesCodecsExact
<1>6. DecodeBytes(id, d, rows) = Failed
  BY <1>1, <1>4, <1>5 DEF d
<1>7. DecodeValues(Kinds["bytes"], IdOf("bytes", id), d, rows) = Failed
  BY <1>6, BytesIdFound
<1>8. ~ Failed.ok
  BY DEF Failed
<1> QED  BY <1>4, <1>7, <1>8 DEF d, rows

\* Whatever codec was chosen for a column, whatever its words and strings and
\* however long it is, its decoder refuses every payload that was cut short,
\* also of columns over the limits of a reader (errTruncated, encoding.go).
THEOREM CutPayloadFailsAlways == Spec => []CutPayloadFails
<1>1. BuilderRight /\ RowsStored => CutPayloadFails
  <2> SUFFICES ASSUME BuilderRight, RowsStored, phase = "stored",
                      NEW n \in 0 .. (Len(Encoded(kind, b).data) - 1)
               PROVE  LET e == Encoded(kind, b)
                      IN  ~ DecodeValues(Kinds[kind], IdOf(kind, e.id),
                                         SubSeq(e.data, 1, n), Rows(b)).ok
    BY DEF CutPayloadFails
  <2>1. Rows(b) > 0 /\ kind \in {"int", "bytes"}
    BY FamilyFacts DEF RowsStored
  <2>2. CASE kind = "int"
    BY <2>1, <2>2, CutInts
  <2>3. CASE kind = "bytes"
    BY <2>1, <2>3, CutBytes
  <2> QED  BY <2>1, <2>2, <2>3
<1> QED  BY <1>1, BuilderAlwaysRight, RowsStoredAlways, PTL

(***************************************************************************)
(* Chunks that read back.  First the cursor: what an append left in a      *)
(* buffer, the read of the same field takes from it.                       *)
(***************************************************************************)

\* A number that stands in k bytes is read back.
LEMMA NumberStands ==
    ASSUME NEW k \in Nat, NEW v \in Nat, v < Weight(ByteBits, k),
           NEW d \in Seq(Byte), NEW pos \in Nat, Stands(LittleEndian(v, k), d, pos)
    PROVE  ReadLE(d, pos, k) = v
<1> DEFINE s == LittleEndian(v, k)
           f == [j \in 1 .. k |-> IF pos + j <= Len(d) THEN d[pos + j] * Pow2[ByteBits * (j - 1)]
                                  ELSE 0]
           g == [j \in 1 .. k |-> IF 0 + j <= Len(s) THEN s[0 + j] * Pow2[ByteBits * (j - 1)]
                                  ELSE 0]
<1>1. k \in Nat /\ ByteBits \in Nat
  BY WordBitsFacts
<1>2. v \in Nat /\ v < Weight(ByteBits, k)
  OBVIOUS
<1>3. s \in Seq(Byte) /\ Len(s) = k /\ Codes(s, ByteBits, v)
  BY <1>1, <1>2, LittleEndianIs
<1>4. ReadLE(d, pos, k) = Total(f, k) /\ ReadLE(s, 0, k) = Total(g, k)
  BY DEF ReadLE
<1>5. pos + k <= Len(d) /\ Len(d) \in Nat /\ \A j \in 1 .. k : d[pos + j] = s[j]
  <2> HIDE DEF s
  <2> QED  BY <1>3 DEF Stands, s
<1> HIDE DEF s
<1>6. \A j \in 1 .. k : pos + j <= Len(d) /\ 0 + j <= Len(s) /\ 0 + j = j
  BY <1>1, <1>3, <1>5
<1>7. f = g
  <2>1. ASSUME NEW j \in 1 .. k
        PROVE  (IF pos + j <= Len(d) THEN d[pos + j] * Pow2[ByteBits * (j - 1)] ELSE 0)
               = (IF 0 + j <= Len(s) THEN s[0 + j] * Pow2[ByteBits * (j - 1)] ELSE 0)
    <3>1. pos + j <= Len(d) /\ 0 + j <= Len(s) /\ d[pos + j] = s[0 + j]
      BY <1>5, <1>6
    <3> QED  BY <3>1
  <2> QED  BY <2>1
<1> HIDE DEF f, g
<1>8. ReadLE(s, 0, k) = (v \div Weight(ByteBits, 0)) % Weight(ByteBits, k)
  <2>1. 0 \in Nat
    OBVIOUS
  <2> QED  BY <1>1, <1>3, <2>1, ReadLEIs
<1>9. (v \div Weight(ByteBits, 0)) % Weight(ByteBits, k) = v
  <2>1. Weight(ByteBits, 0) = 1
    <3>1. ByteBits * 0 = 0
      BY <1>1
    <3> QED  BY <3>1, Pow2Next DEF Weight
  <2>2. v \div 1 = v
    BY <1>2
  <2>3. Weight(ByteBits, k) \in Nat
    BY <1>1, WordBitsFacts
  <2>4. v % Weight(ByteBits, k) = v
    BY <1>2, <2>3, ModOfSmaller
  <2> QED  BY <2>1, <2>2, <2>4
<1> QED  BY <1>4, <1>7, <1>8, <1>9

(***************************************************************************)
(* The cursor.                                                             *)
(***************************************************************************)

\* What a field reads back.
Readable(field, v) ==
    IF field \in DOMAIN Width THEN v \in Nat /\ v < Weight(ByteBits, Width[field])
    ELSE IF field \in DOMAIN Limit THEN v \in Seq(Byte) /\ Len(v) \in Word /\ Len(v) <= Limit[field]
    ELSE field = "uvarint" /\ v \in Word

LEMMA OverFields ==
    ASSUME NEW d, NEW pos, NEW out
    PROVE  /\ Over(d, pos, out).buf = d /\ Over(d, pos, out).pos = pos
           /\ Over(d, pos, out).ok /\ Over(d, pos, out).out = out
  BY DEF Over

LEMMA GotIs ==
    ASSUME NEW d, NEW pos, NEW out, NEW v, NEW q
    PROVE  Got(Over(d, pos, out), v, q) = Over(d, q, Append(out, v))
  BY OverFields DEF Got

\* Numbers of a fixed width.
LEMMA FixedStands ==
    ASSUME NEW k \in Nat, NEW v \in Nat, v < Weight(ByteBits, k),
           NEW d \in Seq(Byte), NEW pos \in Nat, NEW out, Stands(LittleEndian(v, k), d, pos)
    PROVE  Fixed(Over(d, pos, out), k) = Over(d, pos + k, Append(out, v))
<1> DEFINE c == Over(d, pos, out)
<1>1. ReadLE(d, pos, k) = v
  BY NumberStands
<1>2. Len(LittleEndian(v, k)) = k
  BY LittleEndianIs
<1>3. pos + k <= Len(d)
  <2> DEFINE s == LittleEndian(v, k)
  <2> HIDE DEF s
  <2>1. Stands(s, d, pos) /\ Len(s) = k
    BY <1>2 DEF s
  <2> QED  BY <2>1 DEF Stands
<1>4. c.buf = d /\ c.pos = pos
  BY OverFields
<1>5. Fixed(c, k) = Got(c, v, pos + k)
  <2> HIDE DEF c
  <2> QED  BY <1>1, <1>3, <1>4 DEF Fixed, Have
<1> QED  BY <1>5, GotIs

\* Bytes that stand in others are a piece of them.
LEMMA PieceIs ==
    ASSUME NEW s \in Seq(Byte), NEW d \in Seq(Byte), NEW pos \in Nat, Stands(s, d, pos)
    PROVE  SubSeq(d, pos + 1, pos + Len(s)) = s
<1>1. Len(s) \in Nat /\ Len(d) \in Nat /\ pos + Len(s) <= Len(d)
      /\ \A j \in 1 .. Len(s) : d[pos + j] = s[j]
  BY DEF Stands
<1> DEFINE t == SubSeq(d, pos + 1, pos + Len(s))
<1>2. pos + 1 \in 1 .. (Len(d) + 1) /\ pos + Len(s) \in ((pos + 1) - 1) .. Len(d)
  BY <1>1
<1>3. /\ t \in Seq(Byte) /\ Len(t) = ((pos + Len(s)) - (pos + 1)) + 1
      /\ \A i \in 1 .. ((pos + Len(s)) - (pos + 1)) + 1 : t[i] = d[((pos + 1) + i) - 1]
  <2> DEFINE m == pos + 1
             n == pos + Len(s)
  <2> HIDE DEF m, n
  <2>1. m \in 1 .. (Len(d) + 1) /\ n \in (m - 1) .. Len(d)
    BY <1>2 DEF m, n
  <2>2. /\ SubSeq(d, m, n) \in Seq(Byte) /\ Len(SubSeq(d, m, n)) = (n - m) + 1
        /\ \A i \in 1 .. (n - m) + 1 : SubSeq(d, m, n)[i] = d[(m + i) - 1]
    BY <2>1, SubSeqProperties
  <2> QED  BY <2>2 DEF m, n
<1>4. ((pos + Len(s)) - (pos + 1)) + 1 = Len(s)
      /\ \A i \in 1 .. Len(s) : ((pos + 1) + i) - 1 = pos + i
  BY <1>1
<1> HIDE DEF t
<1>5. t \in Seq(Byte) /\ Len(t) = Len(s) /\ \A i \in 1 .. Len(s) : t[i] = s[i]
  BY <1>1, <1>3, <1>4
<1>6. t = s
  BY <1>5, SeqEqual
<1> QED  BY <1>6 DEF t

LEMMA BytesStand ==
    ASSUME NEW v \in Seq(Byte), NEW d \in Seq(Byte), NEW pos \in Nat, NEW out,
           Stands(v, d, pos), NEW n, n = Len(v)
    PROVE  Bytes(Over(d, pos, out), n) = Over(d, pos + n, Append(out, v))
<1> DEFINE c == Over(d, pos, out)
<1>1. c.buf = d /\ c.pos = pos /\ c.ok
  BY OverFields
<1>2. pos + n <= Len(d) /\ SubSeq(d, pos + 1, pos + n) = v
  BY PieceIs DEF Stands
<1>3. Bytes(c, n) = Got(c, v, pos + n)
  <2> HIDE DEF c
  <2> QED  BY <1>1, <1>2 DEF Bytes, Have
<1> QED  BY <1>3, GotIs

LEMMA UvarintRead ==
    ASSUME NEW v \in Word, NEW d \in Seq(Byte), NEW pos \in Nat, NEW out,
           Stands(AppendUvarint(v), d, pos)
    PROVE  ReadUvarint(Over(d, pos, out)) = Over(d, pos + Len(AppendUvarint(v)), Append(out, v))
<1> DEFINE c == Over(d, pos, out)
           q == pos + Len(AppendUvarint(v))
           r == Uvarint(c.buf, c.pos)
<1>1. c.buf = d /\ c.pos = pos
  BY OverFields
<1>2. r = [ok |-> TRUE, val |-> v, pos |-> q]
  BY <1>1, UvarintStands
<1>3. ReadUvarint(c) = IF r.ok THEN Got(c, r.val, r.pos) ELSE Fail(c)
  BY DEF ReadUvarint, OrFail
<1> HIDE DEF c, r, q
<1>4. ReadUvarint(c) = Got(c, v, q)
  BY <1>2, <1>3
<1> QED  BY <1>4, GotIs DEF c, q

\* A length and so many bytes.
LEMMA CountedBytes ==
    ASSUME NEW v \in Seq(Byte), Len(v) \in Word
    PROVE  /\ AppendBytes(v) \in Seq(Byte)
           /\ Len(AppendBytes(v)) = Len(AppendUvarint(Len(v))) + Len(v)
<1> DEFINE u == AppendUvarint(Len(v))
<1>1. u \in Seq(Byte)
  BY AppendUvarintIs
<1> HIDE DEF u
<1>2. u \o v \in Seq(Byte) /\ Len(u \o v) = Len(u) + Len(v)
  BY <1>1, ConcatFacts
<1> QED  BY <1>2 DEF AppendBytes, u

\* Counted bytes, whatever the limit.
LEMMA CountedStands ==
    ASSUME NEW v \in Seq(Byte), Len(v) \in Word, NEW limit \in Nat, Len(v) <= limit,
           NEW d \in Seq(Byte), NEW pos \in Nat, NEW out, Stands(AppendBytes(v), d, pos)
    PROVE  Counted(Over(d, pos, out), limit) = Over(d, pos + Len(AppendBytes(v)), Append(out, v))
<1> DEFINE c == Over(d, pos, out)
           n == Len(v)
           u == AppendUvarint(n)
           q == pos + Len(u)
           r == Uvarint(c.buf, c.pos)
<1>1. c.buf = d /\ c.pos = pos
  BY OverFields
<1>2. u \in Seq(Byte) /\ Len(u) \in Nat /\ q \in Nat /\ n \in Nat
  <2>1. u \in Seq(Byte)
    BY AppendUvarintIs
  <2> HIDE DEF u
  <2> QED  BY <2>1
<1>3. AppendBytes(v) = u \o v
  BY DEF AppendBytes
<1>4. Stands(u, d, pos) /\ Stands(v, d, q)
  <2> HIDE DEF u
  <2> QED  BY <1>2, <1>3, StandsConcat
<1>5. r = [ok |-> TRUE, val |-> n, pos |-> q]
  BY <1>1, <1>4, UvarintStands
<1>6. Counted(c, limit) = IF r.ok THEN IF r.val > limit THEN Fail(c)
                                       ELSE Bytes(Over(c.buf, r.pos, c.out), r.val)
                          ELSE Fail(c)
  BY DEF Counted, OrFail
<1>7. c.out = out
  BY OverFields
<1>8. ~ (n > limit)
  BY <1>2
<1> HIDE DEF c, r, q
<1>9. Counted(c, limit) = Bytes(Over(d, q, out), n)
  BY <1>1, <1>5, <1>6, <1>7, <1>8
<1>10. Bytes(Over(d, q, out), n) = Over(d, q + n, Append(out, v))
  BY <1>2, <1>4, BytesStand
<1>11. q + n = pos + Len(AppendBytes(v))
  <2>1. Len(u \o v) = Len(u) + n
    BY <1>2, ConcatFacts
  <2> HIDE DEF n, u
  <2> QED  BY <1>2, <1>3, <2>1 DEF q
<1> QED  BY <1>9, <1>10, <1>11 DEF c

\* Bytes and words are numbers below the weight of theirs.
LEMMA NumbersFit ==
    /\ \A v \in Byte : v \in Nat /\ v < Weight(ByteBits, 1)
    /\ \A v \in Word : v \in Nat /\ v < Weight(ByteBits, WordBytes)
<1>1. ByteBits \in Nat /\ ByteBits * 1 = ByteBits /\ ByteSize \in Nat \ {0}
  BY ByteFacts
<1>2. Weight(ByteBits, 1) = ByteSize
  BY <1>1 DEF Weight, ByteSize
<1>3. \A v \in Byte : v \in Nat /\ v < ByteSize
  BY <1>1 DEF Byte
<1>4. \A v \in Word : v \in Nat /\ v < Weight(ByteBits, WordBytes)
  <2> DEFINE p == Pow2[WordBits]
  <2>1. Word = 0 .. (p - 1) /\ p \in Nat
    BY ByteFacts, Pow2Pos
  <2> HIDE DEF p
  <2>2. \A v \in Word : v \in Nat /\ v < p
    BY <2>1
  <2>3. Weight(ByteBits, WordBytes) = p
    BY WordBitsFacts DEF p
  <2> QED  BY <2>2, <2>3
<1> QED  BY <1>2, <1>3, <1>4

\* A width is a number of bytes.
LEMMA WidthIs == \A field \in DOMAIN Width : Width[field] \in Nat
<1>1. ShortBytes \in Nat /\ HalfBytes \in Nat /\ WordBytes \in Nat
  BY CursorAssumption, WordBitsFacts
<1>2. DOMAIN Width = {"u8", "u16", "u32", "u64"}
  BY DEF Width
<1>3. /\ Width["u8"] = 1 /\ Width["u16"] = ShortBytes
      /\ Width["u32"] = HalfBytes /\ Width["u64"] = WordBytes
  BY DEF Width
<1> QED  BY <1>1, <1>2, <1>3

\* A field that stands behind the cursor is read.
LEMMA ReadStands ==
    ASSUME NEW field, NEW v, Readable(field, v),
           NEW d \in Seq(Byte), NEW pos \in Nat, NEW out,
           Stands(AppendField(field, v), d, pos)
    PROVE  ReadOn(Over(d, pos, out), field)
           = Over(d, pos + Len(AppendField(field, v)), Append(out, v))
<1> DEFINE c == Over(d, pos, out)
           a == AppendField(field, v)
<1>0. ReadOn(c, field) = Read(c, field)
  BY OverFields DEF ReadOn
<1>1. CASE field \in DOMAIN Width
  <2> DEFINE k == Width[field]
  <2>1. /\ v \in Nat /\ v < Weight(ByteBits, k)
        /\ a = LittleEndian(v, k) /\ Read(c, field) = Fixed(c, k)
    BY <1>1 DEF Readable, AppendField, Read
  <2>2. k \in Nat
    BY <1>1, WidthIs
  <2> HIDE DEF k
  <2>3. Len(a) = k
    BY <2>1, <2>2, LittleEndianIs
  <2> QED  BY <1>0, <2>1, <2>2, <2>3, FixedStands
<1>2. CASE field \notin DOMAIN Width /\ field \in DOMAIN Limit
  <2> DEFINE l == Limit[field]
  <2>1. /\ v \in Seq(Byte) /\ Len(v) \in Word /\ Len(v) <= l
        /\ a = AppendBytes(v) /\ Read(c, field) = Counted(c, l)
    BY <1>2 DEF Readable, AppendField, Read
  <2>2. l \in Nat
    <3>1. MaxName \in Nat /\ MaxBlob \in Nat /\ MaxBytesValue \in Nat
      BY CursorAssumption, EncodingAssumption, WordSize
    <3> QED  BY <1>2, <3>1 DEF Limit
  <2> HIDE DEF l
  <2> QED  BY <1>0, <2>1, <2>2, CountedStands
<1>3. CASE field \notin DOMAIN Width /\ field \notin DOMAIN Limit
  <2>1. field = "uvarint" /\ v \in Word
    BY <1>3 DEF Readable
  <2>2. a = AppendUvarint(v) /\ Read(c, field) = ReadUvarint(c)
    <3> DEFINE W == DOMAIN Width
               L == DOMAIN Limit
    <3> HIDE DEF W, L
    <3>1. field \notin W /\ field \notin L
      BY <1>3 DEF W, L
    <3>2. a = IF field \in W THEN LittleEndian(v, Width[field])
              ELSE IF field \in L THEN AppendBytes(v)
              ELSE IF field = "uvarint" THEN AppendUvarint(v) ELSE v
      BY DEF AppendField, W, L
    <3>3. Read(c, field) = IF field \in W THEN Fixed(c, Width[field])
                           ELSE IF field \in L THEN Counted(c, Limit[field])
                           ELSE IF field = "uvarint" THEN ReadUvarint(c) ELSE ExpectMagic(c)
      BY DEF Read, W, L
    <3> HIDE DEF a, c
    <3> QED  BY <2>1, <3>1, <3>2, <3>3
  <2> QED  BY <1>0, <2>1, <2>2, UvarintRead
<1> QED  BY <1>1, <1>2, <1>3

\* The first k of a sequence.
LEMMA TakesFirst ==
    ASSUME NEW X, NEW s \in Seq(X), NEW k \in 0 .. Len(s)
    PROVE  /\ SubSeq(s, 1, k) \in Seq(X) /\ Len(SubSeq(s, 1, k)) = k
           /\ \A i \in 1 .. k : SubSeq(s, 1, k)[i] = s[i]
<1>1. 1 \in 1 .. (Len(s) + 1) /\ k \in (1 - 1) .. Len(s) /\ k \in Nat
  OBVIOUS
<1>2. /\ SubSeq(s, 1, k) \in Seq(X) /\ Len(SubSeq(s, 1, k)) = k - 1 + 1
      /\ \A i \in 1 .. k - 1 + 1 : SubSeq(s, 1, k)[i] = s[1 + i - 1]
  BY <1>1, SubSeqProperties
<1>3. k - 1 + 1 = k /\ \A i \in 1 .. k : 1 + i - 1 = i
  BY <1>1
<1> QED  BY <1>2, <1>3

\* Fields and values of which each stands in d where the one before it ends.
FieldsStand(fields, vals, d, at) ==
    \A k \in 1 .. Len(fields) :
        /\ Readable(fields[k], vals[k])
        /\ Stands(AppendField(fields[k], vals[k]), d, at[k - 1])
        /\ at[k] = at[k - 1] + Len(AppendField(fields[k], vals[k]))

\* They are read.
LEMMA FieldsRead ==
    ASSUME NEW F, NEW fields \in Seq(F), NEW X, NEW vals \in Seq(X), Len(vals) = Len(fields),
           NEW d \in Seq(Byte), NEW at \in [0 .. Len(fields) -> Nat],
           FieldsStand(fields, vals, d, at), NEW out \in Seq(X)
    PROVE  Reads(Over(d, at[0], out), fields) = Over(d, at[Len(fields)], out \o vals)
<1> DEFINE n == Len(fields)
           c == Over(d, at[0], out)
           Eq(r) == [k \in 0 .. n |-> IF k = 0 THEN c ELSE ReadOn(r[k - 1], fields[k])]
           t == CHOOSE r : r = Eq(r)
           seen(k) == out \o SubSeq(vals, 1, k)
           h == [k \in 0 .. n |-> Over(d, at[k], seen(k))]
<1>1. Reads(c, fields) = t[n]
  BY DEF Reads
<1>2. n \in Nat /\ \A k \in 0 .. n : at[k] \in Nat
  BY SMTT(30)
<1>3. seen(0) = out /\ seen(n) = out \o vals
  <2>1. SubSeq(vals, 1, 0) = <<>>
    OBVIOUS
  <2>2. SubSeq(vals, 1, n) = vals
    <3>1. n \in 0 .. Len(vals) /\ n = Len(vals)
      BY <1>2
    <3> HIDE DEF n
    <3> DEFINE s == SubSeq(vals, 1, n)
    <3>2. s \in Seq(X) /\ Len(s) = n /\ \A i \in 1 .. n : s[i] = vals[i]
      BY <3>1, TakesFirst
    <3> HIDE DEF s
    <3>3. s = vals
      BY <3>1, <3>2, SeqEqual
    <3> QED  BY <3>3 DEF s
  <2>3. out \o <<>> = out
    OBVIOUS
  <2> QED  BY <2>1, <2>2, <2>3
<1>4. ASSUME NEW k \in 1 .. n PROVE seen(k) = Append(seen(k - 1), vals[k])
  <2>1. SubSeq(vals, 1, k) = Append(SubSeq(vals, 1, k - 1), vals[k])
    <3>1. k \in 1 .. Len(vals) /\ Len(vals) \in Nat
      BY <1>2
    <3>2. /\ SubSeq(vals, 1, k) \in Seq(X) /\ Len(SubSeq(vals, 1, k)) = k
          /\ \A i \in 1 .. k : SubSeq(vals, 1, k)[i] = vals[i]
      BY <3>1, TakesFirst
    <3>3. k - 1 \in 0 .. Len(vals)
      BY <3>1
    <3>4. /\ SubSeq(vals, 1, k - 1) \in Seq(X) /\ Len(SubSeq(vals, 1, k - 1)) = k - 1
          /\ \A i \in 1 .. k - 1 : SubSeq(vals, 1, k - 1)[i] = vals[i]
      BY <3>3, TakesFirst
    <3> DEFINE s == SubSeq(vals, 1, k)
               u == SubSeq(vals, 1, k - 1)
    <3> HIDE DEF s, u
    <3>5. vals[k] \in X
      BY <3>1
    <3>6. Append(u, vals[k]) \in Seq(X) /\ Len(Append(u, vals[k])) = k
          /\ \A i \in 1 .. k : Append(u, vals[k])[i] = vals[i]
      BY <3>1, <3>4, <3>5 DEF u
    <3>7. s = Append(u, vals[k])
      <4> DEFINE w == Append(u, vals[k])
      <4>1. w \in Seq(X) /\ Len(w) = k /\ \A i \in 1 .. k : w[i] = vals[i]
        BY <3>6 DEF w
      <4>2. s \in Seq(X) /\ Len(s) = k /\ \A i \in 1 .. k : s[i] = vals[i]
        BY <3>2 DEF s
      <4> HIDE DEF w
      <4>3. Len(s) = Len(w) /\ \A i \in 1 .. Len(s) : s[i] = w[i]
        BY <4>1, <4>2
      <4>4. s = w
        BY <4>1, <4>2, <4>3, SeqEqual
      <4> QED  BY <4>4 DEF w
    <3> QED  BY <3>7 DEF s, u
  <2>2. SubSeq(vals, 1, k - 1) \in Seq(X) /\ vals[k] \in X
    OBVIOUS
  <2> DEFINE s == SubSeq(vals, 1, k - 1)
  <2> HIDE DEF s
  <2>3. out \o Append(s, vals[k]) = Append(out \o s, vals[k])
    BY <2>2 DEF s
  <2> QED  BY <2>1, <2>3 DEF s
<1> HIDE DEF seen
<1>5. ASSUME NEW k \in 1 .. n
      PROVE  Over(d, at[k], seen(k)) = ReadOn(Over(d, at[k - 1], seen(k - 1)), fields[k])
  <2>1. k - 1 \in 0 .. n /\ at[k - 1] \in Nat
    BY <1>2
  <2>2. /\ Readable(fields[k], vals[k])
        /\ Stands(AppendField(fields[k], vals[k]), d, at[k - 1])
        /\ at[k] = at[k - 1] + Len(AppendField(fields[k], vals[k]))
    BY DEF FieldsStand
  <2>3. ReadOn(Over(d, at[k - 1], seen(k - 1)), fields[k])
        = Over(d, at[k], Append(seen(k - 1), vals[k]))
    BY <2>1, <2>2, ReadStands
  <2> QED  BY <1>4, <2>3
<1>6. h = Eq(h)
  <2>1. h[0] = c
    BY <1>2, <1>3
  <2>2. ASSUME NEW k \in 1 .. n PROVE h[k] = ReadOn(h[k - 1], fields[k])
    <3>1. k \in 0 .. n /\ k - 1 \in 0 .. n
      BY <1>2
    <3>2. h[k] = Over(d, at[k], seen(k)) /\ h[k - 1] = Over(d, at[k - 1], seen(k - 1))
      BY <3>1
    <3> HIDE DEF h
    <3> QED  BY <1>5, <3>2
  <2>3. h = [k \in 0 .. n |-> h[k]]
    OBVIOUS
  <2>4. \A k \in 0 .. n : k = 0 \/ k \in 1 .. n
    BY <1>2
  <2>5. \A k \in 0 .. n : h[k] = IF k = 0 THEN c ELSE ReadOn(h[k - 1], fields[k])
    <3> HIDE DEF h, c, n
    <3> QED  BY <2>1, <2>2, <2>4
  <2> HIDE DEF h, c, n
  <2> QED  BY <2>3, <2>5
<1>7. t = Eq(t)
  <2> HIDE DEF Eq, h
  <2> QED  BY <1>6
<1> HIDE DEF t, h
<1>8. t[0] = h[0]
  <2>1. 0 \in 0 .. n
    BY <1>2
  <2>2. t[0] = Eq(t)[0] /\ h[0] = Eq(h)[0]
    <3> HIDE DEF Eq
    <3> QED  BY <1>6, <1>7
  <2> HIDE DEF c
  <2> QED  BY <2>1, <2>2
<1>9. ASSUME NEW k \in 0 .. n - 1, t[k] = h[k] PROVE t[k + 1] = h[k + 1]
  <2>1. k + 1 \in 0 .. n /\ k + 1 # 0 /\ (k + 1) - 1 = k
    BY <1>2
  <2>2. t[k + 1] = Eq(t)[k + 1] /\ h[k + 1] = Eq(h)[k + 1]
    <3> HIDE DEF Eq
    <3> QED  BY <1>6, <1>7
  <2> HIDE DEF c
  <2> QED  BY <1>9, <2>1, <2>2
<1>10. t[n] = h[n]
  <2>1. \A k \in 0 .. n : t[k] = h[k]
    <3> HIDE DEF Eq, n
    <3> QED  BY <1>2, <1>8, <1>9, SameIteration
  <2> QED  BY <1>2, <2>1
<1>11. h[n] = Over(d, at[n], seen(n))
  BY <1>2 DEF h
<1> QED  BY <1>1, <1>3, <1>10, <1>11

(***************************************************************************)
(* The null bitmap.                                                        *)
(***************************************************************************)

\* The mark of row i, as a bit of a stream of bits.
LEMMA MarkIsBit ==
    ASSUME NEW marks \in Seq({0, 1}), NEW i \in 1 .. Len(marks), NEW t, t = i - 1
    PROVE  BitOfColumn(marks, Len(marks), 1, t) = marks[i]
<1>1. t < Len(marks) * 1 /\ t \in Nat
  OBVIOUS
<1>2. t \div 1 = t /\ t % 1 = 0 /\ t + 1 = i
  BY <1>1
<1>3. Pow2[0] = 1
  BY Pow2Next
<1>4. marks[i] \in {0, 1}
  OBVIOUS
<1>5. (marks[i] \div 1) % 2 = marks[i]
  BY <1>4
<1> QED  BY <1>1, <1>2, <1>3, <1>5 DEF BitOfColumn

\* The bitmap is the stream of the marks, byte by byte.
LEMMA BitmapBytes ==
    ASSUME NEW marks \in Seq({0, 1}), NEW k \in Nat \ {0}
    PROVE  Total([j \in 1 .. ByteBits |->
                     LET i == (k - 1) * ByteBits + j
                     IN  IF i <= Len(marks) THEN marks[i] * Pow2[j - 1] ELSE 0], ByteBits)
           = ByteOfColumn(marks, Len(marks), 1, k)
<1> DEFINE n == Len(marks)
           s == (k - 1) * ByteBits
           f == [j \in 1 .. ByteBits |->
                    LET i == (k - 1) * ByteBits + j
                    IN  IF i <= Len(marks) THEN marks[i] * Pow2[j - 1] ELSE 0]
           g == [j \in 1 .. ByteBits |->
                    BitOfColumn(marks, n, 1, (k - 1) * ByteBits + j - 1) * Pow2[j - 1]]
<1>1. ByteBits \in Nat /\ n \in Nat /\ s \in Nat
  <2>1. ByteBits \in Nat /\ k - 1 \in Nat
    BY ByteFacts
  <2>2. (k - 1) * ByteBits \in Nat
    BY <2>1, TimesNat
  <2> QED  BY <2>1, <2>2
<1>2. ASSUME NEW j \in 1 .. ByteBits PROVE f[j] \in Nat /\ f[j] = g[j]
  <2> DEFINE i == s + j
             c == Pow2[j - 1]
  <2>1. i \in Nat \ {0} /\ i - 1 \in Nat /\ s + j - 1 = i - 1
    <3> HIDE DEF s
    <3> QED  BY <1>1
  <2>2. c \in Nat
    <3>1. j - 1 \in Nat
      OBVIOUS
    <3> QED  BY <3>1, Pow2Pos
  <2>3. f[j] = IF i <= n THEN marks[i] * c ELSE 0
    OBVIOUS
  <2>4. g[j] = BitOfColumn(marks, n, 1, i - 1) * c
    <3>1. g[j] = BitOfColumn(marks, n, 1, s + j - 1) * c
      OBVIOUS
    <3> HIDE DEF g, c, s, i
    <3> QED  BY <2>1, <3>1
  <2> HIDE DEF f, g, c, i, s
  <2>5. CASE i <= n
    <3>1. i \in 1 .. Len(marks)
      BY <1>1, <2>1, <2>5 DEF n
    <3>2. BitOfColumn(marks, n, 1, i - 1) = marks[i]
      BY <3>1, MarkIsBit DEF n
    <3>3. marks[i] \in {0, 1}
      BY <3>1
    <3>4. marks[i] * c \in Nat
      BY <2>2, <3>3
    <3> QED  BY <2>3, <2>4, <2>5, <3>2, <3>4
  <2>6. CASE ~ (i <= n)
    <3>1. ~ (i - 1 < n * 1)
      BY <1>1, <2>1, <2>6
    <3>2. BitOfColumn(marks, n, 1, i - 1) = 0
      BY <3>1 DEF BitOfColumn
    <3>3. 0 * c = 0
      BY <2>2
    <3> QED  BY <2>3, <2>4, <2>6, <3>2, <3>3
  <2> QED  BY <2>5, <2>6
<1> HIDE DEF f, g
<1>3. Total(f, ByteBits) = Total(g, ByteBits)
  <2>1. NatsTo(f, ByteBits)
    BY <1>2 DEF NatsTo
  <2> QED  BY <1>1, <1>2, <2>1, TotalSame
<1> QED  BY <1>3 DEF ByteOfColumn, f, g

\* How many bytes it takes: row i is in one of them.
LEMMA RowInBitmap ==
    ASSUME NEW n \in Nat, NEW i \in 1 .. n
    PROVE  LET p == (i - 1) \div ByteBits
               r == (i - 1) % ByteBits
           IN  /\ p \in Nat /\ r \in Nat /\ r < ByteBits /\ i - 1 = (ByteBits * p) + r
               /\ p + 1 \in 1 .. BitmapLen(n)
<1> DEFINE B == ByteBits
           p == (i - 1) \div B
           r == (i - 1) % B
           m == n + (B - 1)
           q == m \div B
           z == m % B
<1>1. B \in Nat \ {0} /\ i - 1 \in Nat /\ m \in Nat
  BY WordBitsFacts
<1>2. p \in Nat /\ r \in Nat /\ r < B /\ i - 1 = (B * p) + r
  BY <1>1, DivMod
<1>4. BitmapLen(n) = q
  BY DEF BitmapLen
<1> HIDE DEF m
<1>3. q \in Nat /\ z \in Nat /\ z < B /\ m = (B * q) + z
  BY <1>1, DivMod
<1>5. p < q
  <2> SUFFICES ASSUME q <= p PROVE FALSE
    BY <1>2, <1>3
  <2> HIDE DEF p, r, q, z
  <2>1. q < p + 1 /\ p + 1 \in Nat
    BY <1>2, <1>3
  <2>2. (B * q) + z < B * (p + 1)
    BY <1>1, <1>3, <2>1, DigitsLess
  <2>3. B * (p + 1) = (B * p) + B
    BY <1>1, <1>2
  <2> DEFINE x == B * p
             y == B * q
  <2>4. x \in Nat /\ y \in Nat
    BY <1>1, <1>2, <1>3, TimesNat
  <2> HIDE DEF x, y
  <2>5. y + z < x + B
    BY <2>2, <2>3 DEF x, y
  <2>6. i - 1 = x + r /\ n + (B - 1) = y + z
    BY <1>2, <1>3 DEF x, y, m
  <2>7. n \in Nat /\ i <= n /\ i \in Nat
    OBVIOUS
  <2> QED  BY <1>1, <1>2, <1>3, <2>4, <2>5, <2>6, <2>7
<1> HIDE DEF p, r, q
<1>6. p + 1 \in 1 .. q
  BY <1>2, <1>3, <1>5
<1> QED  BY <1>2, <1>4, <1>6 DEF p, r

\* A bit of a digit is a bit of the number.
LEMMA BitOfDigit ==
    ASSUME NEW v \in Nat, NEW p \in Nat, NEW r \in Nat, r < ByteBits
    PROVE  BitIn(Digit(v, ByteBits, p + 1), r) = BitIn(v, (ByteBits * p) + r)
<1> DEFINE s == ByteBits * p
           x == v \div Pow2[s]
<1>1. ByteBits \in Nat /\ s \in Nat /\ (p + 1) - 1 = p
  BY WordBitsFacts, TimesNat
<1>2. Digit(v, ByteBits, p + 1) = x % Pow2[ByteBits]
  BY <1>1 DEF Digit
<1>3. x \in Nat
  <2>1. Pow2[s] \in Nat \ {0}
    <3> HIDE DEF s
    <3> QED  BY <1>1, Pow2Pos
  <2> DEFINE c == Pow2[s]
  <2> HIDE DEF c
  <2> QED  BY <2>1, DivMod DEF c
<1>4. BitIn(x, r) = BitIn(v, s + r)
  <2> HIDE DEF s
  <2> QED  BY <1>1, BitAbove DEF s
<1> HIDE DEF x, s
<1>5. BitIn(x % Pow2[ByteBits], r) = BitIn(x, r)
  BY <1>1, <1>3, BitOfLow
<1> QED  BY <1>2, <1>4, <1>5 DEF s

\* The bitmap has a byte for every so many rows, and answers for each row with
\* its mark (column.go).
LEMMA BitmapIs ==
    ASSUME NEW marks \in Seq({0, 1})
    PROVE  /\ BitmapOf(marks) \in Seq(Byte)
           /\ Len(BitmapOf(marks)) = BitmapLen(Len(marks))
           /\ \A i \in 1 .. Len(marks) : GetMark(BitmapOf(marks), i) <=> marks[i] = 1
<1> DEFINE n == Len(marks)
           m == BitmapLen(n)
           e == BitmapOf(marks)
<1>1. marks \in Seq(Nat) /\ n \in Nat /\ 1 \in 0 .. WordBits /\ 1 \in Nat \ {0}
  <2>1. WordBits \in Nat \ {0}
    BY WordBitsFacts
  <2>2. marks \in Seq(Nat)
    <3>1. {0, 1} \subseteq Nat
      OBVIOUS
    <3> QED  BY <3>1, SeqWider
  <2> QED  BY <2>1, <2>2
<1>2. PICK v : Codes(Masked(marks, 1), 1, v)
  BY <1>1, PackedIs
<1>3. v \in Nat
  BY <1>2 DEF Codes
<1>4. m \in Nat
  <2>1. n * 1 = n
    BY <1>1
  <2>2. m = PackedBytes(n, 1)
    BY <2>1 DEF BitmapLen, PackedBytes
  <2> HIDE DEF m, n
  <2> QED  BY <1>1, <2>2, PackedBytesFacts
<1>5. ASSUME NEW k \in 1 .. m
      PROVE  e[k] = Digit(v, ByteBits, k) /\ Digit(v, ByteBits, k) \in Byte
  <2>1. k \in Nat \ {0}
    BY <1>4
  <2>2. e[k] = ByteOfColumn(marks, n, 1, k)
    <3>1. e[k] = Total([j \in 1 .. ByteBits |->
                           LET i == (k - 1) * ByteBits + j
                           IN  IF i <= Len(marks) THEN marks[i] * Pow2[j - 1] ELSE 0], ByteBits)
      BY DEF BitmapOf
    <3> QED  BY <2>1, <3>1, BitmapBytes
  <2>3. ByteOfColumn(marks, n, 1, k) = Digit(v, ByteBits, k)
    BY <1>1, <1>2, <2>1, ByteIsDigit
  <2>4. Digit(v, ByteBits, k) \in 0 .. (Pow2[ByteBits] - 1)
    <3>1. ByteBits \in Nat
      BY ByteFacts
    <3> QED  BY <1>3, <2>1, <3>1, DigitType
  <2> QED  BY <2>2, <2>3, <2>4 DEF Byte, ByteSize
<1>6. e = [k \in 1 .. m |-> e[k]]
  BY DEF BitmapOf
<1> HIDE DEF e, m
<1>7. e \in Seq(Byte) /\ Len(e) = m
  BY <1>4, <1>5, <1>6
<1>8. ASSUME NEW i \in 1 .. n PROVE GetMark(e, i) <=> marks[i] = 1
  <2> DEFINE p == (i - 1) \div ByteBits
             r == (i - 1) % ByteBits
  <2>1. p \in Nat /\ r \in Nat /\ r < ByteBits /\ i - 1 = (ByteBits * p) + r /\ p + 1 \in 1 .. m
    BY <1>1, RowInBitmap DEF m
  <2>2. GetMark(e, i) <=> BitIn(e[p + 1], r) = 1
    BY DEF GetMark, BitIn
  <2> HIDE DEF p, r
  <2>3. e[p + 1] = Digit(v, ByteBits, p + 1)
    BY <1>5, <2>1
  <2>4. BitIn(Digit(v, ByteBits, p + 1), r) = BitIn(v, i - 1)
    BY <1>3, <2>1, BitOfDigit
  <2>5. BitOfColumn(marks, n, 1, i - 1) = BitIn(v, i - 1)
    <3>1. i - 1 \in Nat
      OBVIOUS
    <3> QED  BY <1>1, <1>2, <3>1, BitIsBit
  <2>6. BitOfColumn(marks, n, 1, i - 1) = marks[i]
    BY MarkIsBit
  <2> QED  BY <2>2, <2>3, <2>4, <2>5, <2>6
<1> QED  BY <1>7, <1>8 DEF e, m

(***************************************************************************)
(* The entropy layer.                                                      *)
(***************************************************************************)

\* One byte in front of others.
LEMMA Marked ==
    ASSUME NEW m \in Byte, NEW s \in Seq(Byte)
    PROVE  /\ <<m>> \o s \in Seq(Byte) /\ Len(<<m>> \o s) = 1 + Len(s)
           /\ (<<m>> \o s)[1] = m /\ Tail(<<m>> \o s) = s /\ <<m>> \o s # <<>>
<1>1. <<m>> \in Seq(Byte) /\ Len(<<m>>) = 1 /\ <<m>>[1] = m
  OBVIOUS
<1> DEFINE t == <<m>> \o s
<1>2. t \in Seq(Byte) /\ Len(t) = 1 + Len(s) /\ t[1] = m
      /\ \A j \in 1 .. Len(s) : t[1 + j] = s[j]
  BY <1>1, ConcatFacts
<1> HIDE DEF t
<1>3. t # <<>>
  BY <1>2
<1>4. Tail(t) = s
  <2>1. Tail(t) \in Seq(Byte) /\ Len(Tail(t)) = Len(s)
        /\ \A j \in 1 .. Len(s) : Tail(t)[j] = t[1 + j]
    BY <1>2, <1>3
  <2>2. \A j \in 1 .. Len(s) : Tail(t)[j] = s[j]
    BY <1>2, <2>1
  <2> DEFINE u == Tail(t)
  <2> HIDE DEF u
  <2>3. u \in Seq(Byte) /\ Len(u) = Len(s) /\ \A j \in 1 .. Len(u) : u[j] = s[j]
    BY <2>1, <2>2 DEF u
  <2>4. u = s
    BY <2>3, SeqEqual
  <2> QED  BY <2>4 DEF u
<1> QED  BY <1>2, <1>3, <1>4 DEF t

\* What is stored is no longer than the payload and expands to it.
LEMMA StoredIs ==
    ASSUME EntropyRight, NEW payload \in Seq(Byte), NEW entropy \in Codecs
    PROVE  LET st == Stored(payload, entropy)
           IN  /\ st.bytes \in Seq(Byte) /\ Len(st.bytes) <= Len(payload)
               /\ CompressionIds[st.comp] \in 0 .. 2
               /\ Decompress(CompressionIds[st.comp], st.bytes, Len(payload)) = Whole(payload)
<1> DEFINE z == Squeeze(payload)
           cand == IF entropy = "none" THEN payload ELSE Compress(entropy, payload)
           st == Stored(payload, entropy)
           W == Whole(payload)
<1>1. z \in Seq(Byte) /\ (Expand(z) = W \/ (z = <<>> /\ "zstd" \notin Codecs))
  BY DEF EntropyRight, EntropyRightFor
<1>2. entropy \in {"none", "zstd", "lz4"}
  BY StoreAssumption
<1>3. CompressionIds["none"] = 0 /\ CompressionIds["zstd"] = 1 /\ CompressionIds["lz4"] = 2
  BY DEF CompressionIds
<1>4. st = IF Len(cand) < Len(payload) THEN [comp |-> entropy, bytes |-> cand]
           ELSE [comp |-> "none", bytes |-> payload]
  BY DEF Stored, Shorter
<1>5. W.ok /\ W.bytes = payload
  BY DEF Whole
<1>6. ASSUME NEW comp, NEW src, Expanded(comp, src) = W
      PROVE  Decompress(comp, src, Len(payload)) = W
  <2> DEFINE e == Expanded(comp, src)
  <2>1. Decompress(comp, src, Len(payload))
        = IF e.ok THEN IF Len(e.bytes) = Len(payload) THEN e ELSE Failed ELSE Failed
    BY DEF Decompress, Then, Provided
  <2> HIDE DEF e, W
  <2>2. e = W
    BY <1>6 DEF e
  <2> QED  BY <1>5, <2>1, <2>2
<1> HIDE DEF W, st
<1> SUFFICES /\ st.bytes \in Seq(Byte) /\ Len(st.bytes) <= Len(payload)
             /\ CompressionIds[st.comp] \in 0 .. 2
             /\ Decompress(CompressionIds[st.comp], st.bytes, Len(payload)) = W
  BY DEF st, W
<1>7. CASE ~ (Len(cand) < Len(payload))
  <2>1. st.comp = "none" /\ st.bytes = payload
    BY <1>4, <1>7
  <2>2. Expanded(0, payload) = W
    BY DEF Expanded, W
  <2>3. Len(payload) <= Len(payload)
    OBVIOUS
  <2> QED  BY <1>3, <1>6, <2>1, <2>2, <2>3
<1>8. CASE Len(cand) < Len(payload)
  <2>1. st.comp = entropy /\ st.bytes = cand
    BY <1>4, <1>8
  <2>2. entropy # "none"
    <3> SUFFICES ASSUME entropy = "none" PROVE FALSE
      OBVIOUS
    <3>1. cand = payload /\ Len(payload) \in Nat
      OBVIOUS
    <3> HIDE DEF cand
    <3> QED  BY <1>8, <3>1
  <2>3. CASE entropy = "zstd"
    <3>1. cand = z
      BY <2>2, <2>3 DEF Compress
    <3> HIDE DEF cand, z
    <3>2. Expand(z) = W
      BY <1>1, <2>3
    <3>3. Expanded(1, z) = W
      BY <3>2 DEF Expanded
    <3>4. Len(z) \in Nat /\ Len(payload) \in Nat
      BY <1>1
    <3> QED  BY <1>1, <1>3, <1>6, <1>8, <2>1, <2>3, <3>1, <3>3, <3>4
  <2>4. CASE entropy = "lz4"
    <3>1. cand = IF z = <<>> \/ Len(z) >= Len(payload) THEN <<0>> \o payload ELSE <<1>> \o z
      BY <2>2, <2>4 DEF Compress, LZ4Compress
    <3> HIDE DEF cand, z
    <3>2. 0 \in Byte /\ 1 \in Byte
      <4>1. ByteSize = More + More /\ More \in Nat \ {0}
        BY ByteFacts
      <4> QED  BY <4>1 DEF Byte
    <3>3. z # <<>> /\ ~ (Len(z) >= Len(payload))
      <4> SUFFICES ASSUME z = <<>> \/ Len(z) >= Len(payload) PROVE FALSE
        OBVIOUS
      <4>1. cand = <<0>> \o payload
        BY <3>1
      <4>2. Len(cand) = 1 + Len(payload)
        BY <3>2, <4>1, Marked
      <4>3. Len(payload) \in Nat
        OBVIOUS
      <4> QED  BY <1>8, <4>2, <4>3
    <3>4. cand = <<1>> \o z
      BY <3>1, <3>3
    <3>5. /\ cand \in Seq(Byte) /\ Len(cand) = 1 + Len(z)
          /\ cand[1] = 1 /\ Tail(cand) = z /\ cand # <<>>
      BY <1>1, <3>2, <3>4, Marked
    <3>6. LZ4Decompress(cand) = Expand(z)
      <4>1. LZ4Decompress(cand) = IF cand = <<>> THEN Whole(<<>>)
                                  ELSE IF cand[1] = 0 THEN Whole(Tail(cand))
                                  ELSE IF cand[1] = 1 THEN Expand(Tail(cand))
                                  ELSE Failed
        BY DEF LZ4Decompress
      <4>2. cand # <<>> /\ cand[1] # 0 /\ cand[1] = 1
        BY <3>5
      <4>3. LZ4Decompress(cand) = Expand(Tail(cand))
        BY <4>1, <4>2
      <4> QED  BY <3>5, <4>3
    <3>7. Expand(z) = W
      BY <1>1, <3>3
    <3>8. Expanded(2, cand) = W
      BY <3>6, <3>7 DEF Expanded
    <3>9. Len(cand) \in Nat /\ Len(payload) \in Nat
      BY <3>5
    <3> QED  BY <1>3, <1>6, <1>8, <2>1, <2>4, <3>5, <3>8, <3>9
  <2> QED  BY <1>2, <2>2, <2>3, <2>4
<1> QED  BY <1>7, <1>8

(***************************************************************************)
(* A chunk as bytes.                                                       *)
(***************************************************************************)

\* Pieces stand in what is joined of them, each where the one before it ends.
LEMMA PiecesJoined ==
    ASSUME NEW s \in Seq(Seq(Byte))
    PROVE  /\ FlattenSeq(s) \in Seq(Byte)
           /\ \E at \in [0 .. Len(s) -> Nat] :
                 /\ at[0] = 0
                 /\ \A k \in 1 .. Len(s) : /\ Stands(s[k], FlattenSeq(s), at[k - 1])
                                           /\ at[k] = at[k - 1] + Len(s[k])
<1> DEFINE n == Len(s)
           d == FlattenSeq(s)
<1>1. PICK f \in [0 .. n -> Seq(Byte)] : IsJoined(s, f) /\ d = f[n]
  BY FlattenDef
<1> DEFINE at == [k \in 0 .. n |-> Len(f[k])]
<1>2. n \in Nat /\ n \in 0 .. n /\ \A k \in 1 .. n : s[k] \in Seq(Byte)
  OBVIOUS
<1> HIDE DEF d, n
<1>3. d \in Seq(Byte)
  BY <1>1, <1>2
<1>4. at \in [0 .. n -> Nat] /\ \A k \in 0 .. n : at[k] = Len(f[k])
  BY <1>1
<1> HIDE DEF at
<1>5. at[0] = 0
  <2>1. f[0] = <<>> /\ 0 \in 0 .. n
    BY <1>1, <1>2 DEF IsJoined
  <2> QED  BY <1>4, <2>1
<1>6. Stands(f[Len(s)], d, 0)
  BY <1>1, <1>3, WholeStands DEF n
<1>7. \A k \in 1 .. n : Stands(s[k], d, 0 + Len(f[k - 1]))
  <2>1. f \in [0 .. Len(s) -> Seq(Byte)] /\ 0 \in Nat
    BY <1>1 DEF n
  <2> QED  BY <1>1, <1>3, <1>6, <2>1, PiecesStand DEF n
<1>8. ASSUME NEW k \in 1 .. n
      PROVE  Stands(s[k], d, at[k - 1]) /\ at[k] = at[k - 1] + Len(s[k])
  <2>1. k \in 0 .. n /\ k - 1 \in 0 .. n
    BY <1>2
  <2>2. f[k - 1] \in Seq(Byte) /\ f[k] = f[k - 1] \o s[k] /\ s[k] \in Seq(Byte)
    BY <1>1, <1>2, <2>1 DEF IsJoined, n
  <2>3. Len(f[k]) = Len(f[k - 1]) + Len(s[k]) /\ 0 + Len(f[k - 1]) = Len(f[k - 1])
    BY <2>2, ConcatFacts
  <2>4. Stands(s[k], d, at[k - 1])
    BY <1>4, <1>7, <2>1, <2>3
  <2> QED  BY <1>4, <2>1, <2>3, <2>4
<1> QED  BY <1>3, <1>4, <1>5, <1>8 DEF d, n

\* A field that can be read is bytes.
LEMMA FieldBytes ==
    ASSUME NEW field, NEW v, Readable(field, v)
    PROVE  AppendField(field, v) \in Seq(Byte)
<1>1. CASE field \in DOMAIN Width
  <2> DEFINE k == Width[field]
  <2>1. v \in Nat /\ AppendField(field, v) = LittleEndian(v, k)
    BY <1>1 DEF Readable, AppendField
  <2>2. k \in Nat
    BY <1>1, WidthIs
  <2> HIDE DEF k
  <2> QED  BY <2>1, <2>2, LittleEndianIs
<1>2. CASE field \notin DOMAIN Width /\ field \in DOMAIN Limit
  <2>1. v \in Seq(Byte) /\ Len(v) \in Word /\ AppendField(field, v) = AppendBytes(v)
    BY <1>2 DEF Readable, AppendField
  <2> QED  BY <2>1, CountedBytes
<1>3. CASE field \notin DOMAIN Width /\ field \notin DOMAIN Limit
  <2>1. v \in Word /\ AppendField(field, v) = AppendUvarint(v)
    BY <1>3 DEF Readable, AppendField
  <2> QED  BY <2>1, AppendUvarintIs
<1> QED  BY <1>1, <1>2, <1>3

\* The fields in front of a chunk, for values of theirs.
HeaderReadable(v) ==
    /\ v \in Seq(Nat) /\ Len(v) = 7
    /\ \A k \in 1 .. 4 : v[k] \in Byte
    /\ \A k \in 5 .. 7 : v[k] \in Word

LEMMA ChunkFieldsAre ==
    /\ ChunkFields \in Seq({"u8", "uvarint"}) /\ Len(ChunkFields) = 7
    /\ \A k \in 1 .. 4 : ChunkFields[k] = "u8"
    /\ \A k \in 5 .. 7 : ChunkFields[k] = "uvarint"
  BY DEF ChunkFields

LEMMA HeaderFits ==
    ASSUME NEW v, HeaderReadable(v), NEW k \in 1 .. 7
    PROVE  Readable(ChunkFields[k], v[k])
<1>1. k \in 1 .. 4 \/ k \in 5 .. 7
  OBVIOUS
<1>2. CASE k \in 1 .. 4
  <2>1. ChunkFields[k] = "u8" /\ v[k] \in Byte
    BY <1>2, ChunkFieldsAre DEF HeaderReadable
  <2>2. "u8" \in DOMAIN Width /\ Width["u8"] = 1
    BY DEF Width
  <2>3. Readable("u8", v[k])
    BY <2>1, <2>2, NumbersFit DEF Readable
  <2> QED  BY <2>1, <2>3
<1>3. CASE k \in 5 .. 7
  <2>1. ChunkFields[k] = "uvarint" /\ v[k] \in Word
    BY <1>3, ChunkFieldsAre DEF HeaderReadable
  <2>2. "uvarint" \notin DOMAIN Width /\ "uvarint" \notin DOMAIN Limit
    BY DEF Width, Limit
  <2>3. Readable("uvarint", v[k])
    BY <2>1, <2>2 DEF Readable
  <2> QED  BY <2>1, <2>3
<1> QED  BY <1>1, <1>2, <1>3

LEMMA SevenPlaces == \A k \in 1 .. 7 : k \in 0 .. 7 /\ k - 1 \in 0 .. 7
  OBVIOUS

\* Header values that stand at the beginning are read.
LEMMA HeaderRead ==
    ASSUME NEW v, HeaderReadable(v), NEW d \in Seq(Byte), NEW n \in Nat, n >= 7,
           NEW at \in [0 .. n -> Nat], at[0] = 0,
           \A k \in 1 .. 7 : /\ Stands(AppendField(ChunkFields[k], v[k]), d, at[k - 1])
                             /\ at[k] = at[k - 1] + Len(AppendField(ChunkFields[k], v[k]))
    PROVE  Reads(NewCursor(d), ChunkFields) = Over(d, at[7], v)
<1> DEFINE a == [k \in 0 .. 7 |-> at[k]]
           F == {"u8", "uvarint"}
           fs == ChunkFields
<1>1. fs \in Seq(F) /\ Len(fs) = 7 /\ v \in Seq(Nat) /\ Len(v) = Len(fs)
  BY ChunkFieldsAre DEF HeaderReadable
<1>2. a \in [0 .. Len(fs) -> Nat] /\ \A k \in 0 .. 7 : a[k] = at[k]
  BY <1>1
<1>3. FieldsStand(fs, v, d, a)
  <2>1. ASSUME NEW k \in 1 .. 7
        PROVE  /\ Readable(fs[k], v[k])
               /\ Stands(AppendField(fs[k], v[k]), d, a[k - 1])
               /\ a[k] = a[k - 1] + Len(AppendField(fs[k], v[k]))
    <3>1. k \in 0 .. 7 /\ k - 1 \in 0 .. 7
      BY SevenPlaces
    <3>2. a[k] = at[k] /\ a[k - 1] = at[k - 1]
      BY <3>1
    <3> HIDE DEF a, fs
    <3>3. Readable(fs[k], v[k])
      BY HeaderFits DEF fs
    <3>4. /\ Stands(AppendField(fs[k], v[k]), d, at[k - 1])
          /\ at[k] = at[k - 1] + Len(AppendField(fs[k], v[k]))
      BY DEF fs
    <3> QED  BY <3>2, <3>3, <3>4
  <2> HIDE DEF a, fs
  <2> QED  BY <1>1, <2>1 DEF FieldsStand
<1>4. <<>> \in Seq(Nat) /\ <<>> \o v = v
  BY <1>1
<1>5. a[0] = 0 /\ a[7] = at[7]
  BY <1>2
<1> HIDE DEF a, fs, F
<1>6. Reads(Over(d, a[0], <<>>), fs) = Over(d, a[Len(fs)], <<>> \o v)
  BY <1>1, <1>2, <1>3, <1>4, FieldsRead, ZenonT(60)
<1>7. NewCursor(d) = Over(d, 0, <<>>)
  BY DEF NewCursor
<1>8. Reads(NewCursor(d), fs) = Over(d, at[7], v)
  BY <1>1, <1>4, <1>5, <1>6, <1>7
<1> QED  BY <1>8 DEF fs

(***************************************************************************)
(* The layout of a chunk: seven header values, the bitmap if there is one, *)
(* the digest and the stored bytes.                                        *)
(***************************************************************************)
Digested(x) == AppendField("u64", x)

FramePieces(v, has, bm, x, y) ==
    [k \in 1 .. (IF has THEN 10 ELSE 9) |->
        IF k <= 7 THEN AppendField(ChunkFields[k], v[k])
        ELSE IF has /\ k = 8 THEN AppendBytes(bm)
        ELSE IF k = (IF has THEN 9 ELSE 8) THEN Digested(x)
        ELSE y]

FrameOf(v, has, bm, x, y) == FlattenSeq(FramePieces(v, has, bm, x, y))

FrameParts(v, bm, x, y) ==
    /\ HeaderReadable(v) /\ bm \in Seq(Byte) /\ Len(bm) \in Word
    /\ x \in Word /\ y \in Seq(Byte)

LEMMA DigestBytes ==
    ASSUME NEW x \in Word
    PROVE  Readable("u64", x) /\ Digested(x) \in Seq(Byte)
<1>1. "u64" \in DOMAIN Width /\ Width["u64"] = WordBytes
  BY DEF Width
<1>2. x \in Nat /\ x < Weight(ByteBits, WordBytes)
  BY NumbersFit
<1>3. Readable("u64", x)
  BY <1>1, <1>2 DEF Readable
<1> QED  BY <1>3, FieldBytes DEF Digested

LEMMA FramePiecesAre ==
    ASSUME NEW v, NEW has \in BOOLEAN, NEW bm, NEW x, NEW y, FrameParts(v, bm, x, y)
    PROVE  LET s == FramePieces(v, has, bm, x, y)
               n == IF has THEN 10 ELSE 9
           IN  /\ s \in Seq(Seq(Byte)) /\ Len(s) = n
               /\ \A k \in 1 .. 7 : s[k] = AppendField(ChunkFields[k], v[k])
               /\ has => s[8] = AppendBytes(bm)
               /\ s[n - 1] = Digested(x) /\ s[n] = y
<1> DEFINE s == FramePieces(v, has, bm, x, y)
           n == IF has THEN 10 ELSE 9
           f(k) == AppendField(ChunkFields[k], v[k])
           q == AppendBytes(bm)
           z == Digested(x)
<1>1. \A k \in 1 .. 7 : f(k) \in Seq(Byte)
  BY HeaderFits, FieldBytes DEF FrameParts
<1>2. q \in Seq(Byte) /\ z \in Seq(Byte) /\ y \in Seq(Byte)
  BY CountedBytes, DigestBytes DEF FrameParts
<1>3. s = [k \in 1 .. n |-> IF k <= 7 THEN f(k) ELSE IF has /\ k = 8 THEN q
                            ELSE IF k = (IF has THEN 9 ELSE 8) THEN z ELSE y]
  BY DEF FramePieces
<1>4. n \in Nat /\ n \in {9, 10} /\ (has <=> n = 10)
  OBVIOUS
<1> HIDE DEF f, q, z, s
<1>5. s = [k \in 1 .. n |-> IF k <= 7 THEN f(k) ELSE IF has /\ k = 8 THEN q
                            ELSE IF k = n - 1 THEN z ELSE y]
  BY <1>3
<1> HIDE DEF n
<1>6. ASSUME NEW k \in 1 .. n
      PROVE  /\ s[k] \in Seq(Byte)
             /\ k <= 7 => s[k] = f(k)
             /\ has /\ k = 8 => s[k] = q
             /\ k = n - 1 => s[k] = z
             /\ k = n => s[k] = y
  <2>1. s[k] = IF k <= 7 THEN f(k) ELSE IF has /\ k = 8 THEN q
                            ELSE IF k = n - 1 THEN z ELSE y
    BY <1>5
  <2>2. k <= 7 => k \in 1 .. 7
    BY <1>4
  <2>3. s[k] \in Seq(Byte)
    BY <1>1, <1>2, <2>1, <2>2
  <2> QED  BY <1>4, <2>1, <2>3
<1>7. s \in Seq(Seq(Byte)) /\ Len(s) = n
  BY <1>4, <1>5, <1>6
<1>8. 8 \in 1 .. n /\ n - 1 \in 1 .. n /\ n \in 1 .. n /\ \A k \in 1 .. 7 : k \in 1 .. n
  BY <1>4
<1> QED  BY <1>6, <1>7, <1>8 DEF s, n, f, q, z

\* What a cursor holds behind the seven header values: the bitmap or nothing.
BitmapPart(has, bm) == IF has THEN bm ELSE <<>>

\* In d the pieces of a frame stand at these places.
FrameAt(v, has, bm, x, y, d, n, at) ==
    /\ at[0] = 0
    /\ \A k \in 1 .. 7 : /\ Stands(AppendField(ChunkFields[k], v[k]), d, at[k - 1])
                         /\ at[k] = at[k - 1] + Len(AppendField(ChunkFields[k], v[k]))
    /\ has => Stands(AppendBytes(bm), d, at[7]) /\ at[8] = at[7] + Len(AppendBytes(bm))
    /\ Stands(Digested(x), d, at[n - 2])
    /\ at[n - 1] = at[n - 2] + Len(Digested(x))
    /\ Stands(y, d, at[n - 1])

\* The pieces stand in the frame, each where the one before it ends.
LEMMA FrameStands ==
    ASSUME NEW v, NEW has \in BOOLEAN, NEW bm, NEW x, NEW y, FrameParts(v, bm, x, y)
    PROVE  LET d == FrameOf(v, has, bm, x, y)
               n == IF has THEN 10 ELSE 9
           IN  /\ d \in Seq(Byte)
               /\ \E at \in [0 .. n -> Nat] : FrameAt(v, has, bm, x, y, d, n, at)
<1> DEFINE d == FrameOf(v, has, bm, x, y)
           s == FramePieces(v, has, bm, x, y)
           n == IF has THEN 10 ELSE 9
           f(k) == AppendField(ChunkFields[k], v[k])
           q == AppendBytes(bm)
           z == Digested(x)
<1>1. /\ s \in Seq(Seq(Byte)) /\ Len(s) = n
      /\ \A k \in 1 .. 7 : s[k] = f(k)
      /\ has => s[8] = q
      /\ s[n - 1] = z /\ s[n] = y
  BY FramePiecesAre
<1>2. d = FlattenSeq(s)
  BY DEF FrameOf
<1>3. n \in {9, 10} /\ (has => n = 10)
  OBVIOUS
<1> HIDE DEF s, d, n, f, q, z
<1>4. /\ d \in Seq(Byte)
      /\ \E at \in [0 .. n -> Nat] :
            /\ at[0] = 0
            /\ \A k \in 1 .. n : Stands(s[k], d, at[k - 1]) /\ at[k] = at[k - 1] + Len(s[k])
  BY <1>1, <1>2, PiecesJoined
<1>5. PICK at \in [0 .. n -> Nat] :
            /\ at[0] = 0
            /\ \A k \in 1 .. n : Stands(s[k], d, at[k - 1]) /\ at[k] = at[k - 1] + Len(s[k])
  BY <1>4
<1>6. \A k \in 1 .. 7 : k \in 1 .. n
  BY <1>3
<1>7. \A k \in 1 .. 7 : Stands(f(k), d, at[k - 1]) /\ at[k] = at[k - 1] + Len(f(k))
  BY <1>1, <1>5, <1>6
<1>8. ASSUME has PROVE Stands(q, d, at[7]) /\ at[8] = at[7] + Len(q)
  <2>1. 8 \in 1 .. n /\ 8 - 1 = 7
    BY <1>3, <1>8
  <2> QED  BY <1>1, <1>5, <1>8, <2>1
<1>9. n - 1 \in 1 .. n /\ n \in 1 .. n /\ n - 1 - 1 = n - 2
  BY <1>3
<1>10. Stands(z, d, at[n - 2]) /\ at[n - 1] = at[n - 2] + Len(z) /\ Stands(y, d, at[n - 1])
  BY <1>1, <1>5, <1>9
<1>11. FrameAt(v, has, bm, x, y, d, n, at)
  BY <1>5, <1>7, <1>8, <1>10 DEF FrameAt, f, q, z
<1> QED  BY <1>4, <1>5, <1>11 DEF d, n

LEMMA ChunkHeaderFields ==
    ASSUME NEW c
    PROVE  /\ ChunkHeader(c).kind = c.out[1] /\ ChunkHeader(c).enc = c.out[2]
           /\ ChunkHeader(c).comp = c.out[3]
           /\ ChunkHeader(c).hasNulls <=> HasFlag(c.out[4], 1)
           /\ ChunkHeader(c).rows = c.out[5] /\ ChunkHeader(c).uncompressedLen = c.out[6]
           /\ ChunkHeader(c).storedLen = c.out[7]
  BY DEF ChunkHeader

\* The bitmap is read where there is one.
LEMMA BitmapRead ==
    ASSUME NEW h, NEW bm \in Seq(Byte), Len(bm) \in Word, Len(bm) = BitmapLen(h.rows), h.hasNulls,
           NEW d \in Seq(Byte), NEW p \in Nat, NEW X, NEW out \in Seq(X),
           Stands(AppendBytes(bm), d, p)
    PROVE  ReadBitmap(Over(d, p, out), h) = Over(d, p + Len(AppendBytes(bm)), Append(out, bm))
<1> DEFINE c == Over(d, p, out)
           e == Counted(c, BitmapLen(h.rows))
           q == p + Len(AppendBytes(bm))
           o == Append(out, bm)
           g == Over(d, q, o)
<1>1. Len(bm) \in Nat /\ Len(bm) <= Len(bm)
  OBVIOUS
<1>2. e = g
  <2> DEFINE limit == BitmapLen(h.rows)
  <2>1. Len(bm) = limit /\ limit \in Nat /\ Len(bm) <= limit
    BY <1>1
  <2> HIDE DEF limit
  <2>2. Counted(c, limit) = g
    BY <2>1, CountedStands
  <2> QED  BY <2>2 DEF limit
<1>3. ReadBitmap(c, h) = IF e.ok THEN FitsRows(e, h) ELSE Failed
  BY DEF ReadBitmap, Then
<1>4. Last(o) = bm
  <2>1. o \in Seq(X \cup {bm}) /\ Len(o) = Len(out) + 1 /\ o[Len(out) + 1] = bm
    OBVIOUS
  <2> HIDE DEF o
  <2> QED  BY <2>1 DEF Last
<1> HIDE DEF q, o
<1>5. g.ok /\ g.out = o
  BY OverFields
<1>6. FitsRows(g, h) = g
  <2> HIDE DEF g
  <2> QED  BY <1>4, <1>5 DEF FitsRows, Provided
<1> HIDE DEF e, g, c
<1>7. ReadBitmap(c, h) = g
  BY <1>2, <1>3, <1>5, <1>6
<1> QED  BY <1>7 DEF g, c, q, o

\* And an empty one is taken where there is none.
LEMMA NoBitmapRead ==
    ASSUME NEW h, ~ h.hasNulls, NEW d, NEW p, NEW out
    PROVE  ReadBitmap(Over(d, p, out), h) = Over(d, p, Append(out, <<>>))
<1> DEFINE c == Over(d, p, out)
<1>1. ReadBitmap(c, h) = Got(c, <<>>, c.pos)
  BY DEF ReadBitmap
<1>2. c.pos = p
  BY OverFields
<1>3. Got(c, <<>>, p) = Over(d, p, Append(out, <<>>))
  BY GotIs
<1> HIDE DEF c
<1> QED  BY <1>1, <1>2, <1>3 DEF c

\* A sequence and one more.
LEMMA JoinOne ==
    ASSUME NEW X, NEW s \in Seq(X), NEW e \in X
    PROVE  s \o <<e>> = Append(s, e)
  OBVIOUS

LEMMA WiderSequence ==
    ASSUME NEW X, NEW Y, NEW s \in Seq(X)
    PROVE  s \in Seq(X \cup Y)
  OBVIOUS

\* The digest is read.
LEMMA DigestRead ==
    ASSUME NEW x \in Word, NEW d \in Seq(Byte), NEW p \in Nat, NEW X, NEW out \in Seq(X), x \in X,
           Stands(Digested(x), d, p)
    PROVE  Reads(Over(d, p, out), <<"u64">>) = Over(d, p + Len(Digested(x)), Append(out, x))
<1> DEFINE u == "u64"
           fs == <<u>>
           vs == <<x>>
           l == Len(Digested(x))
           at == [k \in 0 .. 1 |-> IF k = 0 THEN p ELSE p + l]
<1>1. Readable(u, x) /\ Digested(x) = AppendField(u, x) /\ l \in Nat
  BY DigestBytes DEF Digested
<1> HIDE DEF u, l
<1>2. fs \in Seq({u}) /\ Len(fs) = 1 /\ fs[1] = u /\ vs \in Seq(X) /\ Len(vs) = 1 /\ vs[1] = x
  OBVIOUS
<1>3. out \o vs = Append(out, x)
  BY JoinOne
<1>4. at \in [0 .. Len(fs) -> Nat] /\ at[0] = p /\ at[1] = p + l
  BY <1>1, <1>2
<1> HIDE DEF fs, vs, at
<1>5. FieldsStand(fs, vs, d, at)
  <2>2. Readable(fs[1], vs[1]) /\ AppendField(fs[1], vs[1]) = Digested(x)
    <3>1. fs[1] = u /\ vs[1] = x /\ Digested(x) = AppendField(u, x) /\ Readable(u, x)
      BY <1>1, <1>2
    <3> QED  BY <3>1
  <2>3. Stands(AppendField(fs[1], vs[1]), d, at[0])
    BY <1>4, <2>2
  <2>4. at[1] = at[0] + Len(AppendField(fs[1], vs[1]))
    BY <1>4, <2>2 DEF l
  <2>5. ASSUME NEW k \in 1 .. Len(fs)
        PROVE  /\ Readable(fs[k], vs[k])
               /\ Stands(AppendField(fs[k], vs[k]), d, at[k - 1])
               /\ at[k] = at[k - 1] + Len(AppendField(fs[k], vs[k]))
    <3>1. k = 1 /\ k - 1 = 0
      BY <1>2
    <3>2. Readable(fs[k], vs[k]) /\ Stands(AppendField(fs[k], vs[k]), d, at[k - 1])
      BY <2>2, <2>3, <3>1
    <3>3. at[k] = at[k - 1] + Len(AppendField(fs[k], vs[k]))
      BY <2>4, <3>1
    <3> QED  BY <3>2, <3>3
  <2> QED  BY <2>5 DEF FieldsStand
<1>6. Reads(Over(d, at[0], out), fs) = Over(d, at[Len(fs)], out \o vs)
  <2>1. Len(vs) = Len(fs)
    BY <1>2
  <2> QED  BY <1>2, <1>4, <1>5, <2>1, FieldsRead, ZenonT(60)
<1>7. Reads(Over(d, p, out), fs) = Over(d, p + l, Append(out, x))
  BY <1>2, <1>3, <1>4, <1>6
<1> QED  BY <1>7 DEF fs, u, l

\* A sequence and three more.
LEMMA ThreeMore ==
    ASSUME NEW X, NEW s \in Seq(X), NEW w \in X, NEW x \in X, NEW y \in X
    PROVE  /\ Append(s, w) \in Seq(X) /\ Append(Append(s, w), x) \in Seq(X)
           /\ LET t == Append(Append(Append(s, w), x), y)
              IN  t[Len(s) + 3] = y /\ t[Len(s) + 2] = x /\ t[Len(s) + 1] = w
<1> DEFINE r == Append(s, w)
           t == Append(Append(r, x), y)
<1>1. Append(s, w) \in Seq(X) /\ Append(r, x) \in Seq(X)
  OBVIOUS
<1>2. r \in Seq(X) /\ Len(r) = Len(s) + 1 /\ Len(s) \in Nat /\ r[Len(s) + 1] = w
  OBVIOUS
<1> HIDE DEF r
<1>3. t[Len(r) + 2] = y /\ Len(r) + 2 = Len(s) + 3
  BY <1>2
<1>4. t[Len(r) + 1] = x /\ Len(r) + 1 = Len(s) + 2
  BY <1>2
<1>5. t[Len(r)] = r[Len(r)]
  BY <1>2
<1> HIDE DEF t
<1>6. t[Len(s) + 3] = y /\ t[Len(s) + 2] = x /\ t[Len(s) + 1] = w
  BY <1>2, <1>3, <1>4, <1>5
<1> QED  BY <1>1, <1>6 DEF r, t

\* The fields of a chunk are numbers and bytes.
FieldValues == Nat \cup Seq(Byte)

\* The body of a chunk whose digest is right is decoded, within the limits.
LEMMA BodyRead ==
    ASSUME NEW h, NEW x \in Word, NEW y \in Seq(Byte), XXH64(y) = x, h.storedLen = Len(y),
           NEW d \in Seq(Byte), NEW p \in Nat, NEW v, HeaderReadable(v), NEW w \in Seq(Byte),
           Stands(Digested(x), d, p), Stands(y, d, p + Len(Digested(x)))
    PROVE  DecodeBody(h, Over(d, p, Append(v, w)))
           = IF ~ TooManyBytes(h) /\ ~ RatioExceeded(h) THEN Decoded(h, w, y) ELSE Failed
<1> DEFINE out == Append(v, w)
           c == Over(d, p, out)
           q == p + Len(Digested(x))
           o1 == Append(out, x)
           c1 == Over(d, q, o1)
           o2 == Append(o1, y)
           c2 == Over(d, q + Len(y), o2)
           rest(s) == IF DigestMatches(s.out[10], s.out[9]) /\ ~ TooManyBytes(h) /\ ~ RatioExceeded(h)
                      THEN Decoded(h, s.out[8], s.out[10]) ELSE Failed
           B == Bytes(c1, h.storedLen)
           R == Reads(c, <<"u64">>)
<1>1. q \in Nat
  BY DigestBytes
<1>2. /\ out \in Seq(FieldValues) /\ x \in FieldValues /\ o1 \in Seq(FieldValues)
      /\ o2[10] = y /\ o2[9] = x /\ o2[8] = w
  <2>1. Len(v) + 3 = 10 /\ Len(v) + 2 = 9 /\ Len(v) + 1 = 8
    BY DEF HeaderReadable
  <2>2. v \in Seq(FieldValues) /\ w \in FieldValues /\ x \in FieldValues /\ y \in FieldValues
    <3>1. v \in Seq(Nat) /\ x \in Nat
      BY WordSize DEF HeaderReadable
    <3>2. v \in Seq(Nat \cup Seq(Byte))
      BY <3>1, WiderSequence
    <3> QED  BY <3>1, <3>2 DEF FieldValues
  <2>3. /\ out \in Seq(FieldValues) /\ o1 \in Seq(FieldValues)
        /\ o2[Len(v) + 3] = y /\ o2[Len(v) + 2] = x /\ o2[Len(v) + 1] = w
    BY <2>2, ThreeMore
  <2> HIDE DEF o1, o2, out
  <2> QED  BY <2>1, <2>2, <2>3
<1> HIDE DEF o1, out
<1>4. R = c1
  BY <1>2, DigestRead DEF o1
<1>5. B = c2
  <2> HIDE DEF q, o2
  <2> DEFINE n == h.storedLen
  <2>1. n = Len(y)
    OBVIOUS
  <2> HIDE DEF n
  <2>2. Bytes(Over(d, q, o1), n) = Over(d, q + n, Append(o1, y))
    BY <1>1, <2>1, BytesStand DEF q
  <2> QED  BY <2>1, <2>2 DEF n, o2
<1>6. DecodeBody(h, c) = IF R.ok THEN IF Bytes(R, h.storedLen).ok
                                      THEN rest(Bytes(R, h.storedLen)) ELSE Failed ELSE Failed
  BY DEF DecodeBody, Then
<1> HIDE DEF o2, q
<1>7. c1.ok /\ c2.ok /\ c2.out = o2
  BY OverFields
<1> HIDE DEF c, c1, c2, R, rest
<1>8. DecodeBody(h, c) = rest(c2)
  BY <1>4, <1>5, <1>6, <1>7 DEF B
<1>9. DigestMatches(y, x)
  BY DEF DigestMatches
<1>10. rest(c2) = IF ~ TooManyBytes(h) /\ ~ RatioExceeded(h) THEN Decoded(h, w, y) ELSE Failed
  BY <1>2, <1>7, <1>9 DEF rest
<1> QED  BY <1>8, <1>10 DEF c, out

\* The header that seven values make.
HeaderFrom(v) == ChunkHeader(Over(<<>>, 0, v))

LEMMA HeaderFromFields ==
    ASSUME NEW v
    PROVE  /\ HeaderFrom(v).kind = v[1] /\ HeaderFrom(v).enc = v[2] /\ HeaderFrom(v).comp = v[3]
           /\ HeaderFrom(v).hasNulls <=> HasFlag(v[4], 1)
           /\ HeaderFrom(v).rows = v[5] /\ HeaderFrom(v).uncompressedLen = v[6]
           /\ HeaderFrom(v).storedLen = v[7]
<1> DEFINE c == Over(<<>>, 0, v)
<1>1. c.out = v
  BY OverFields
<1> HIDE DEF c
<1>2. /\ ChunkHeader(c).kind = v[1] /\ ChunkHeader(c).enc = v[2] /\ ChunkHeader(c).comp = v[3]
      /\ ChunkHeader(c).hasNulls <=> HasFlag(v[4], 1)
      /\ ChunkHeader(c).rows = v[5] /\ ChunkHeader(c).uncompressedLen = v[6]
      /\ ChunkHeader(c).storedLen = v[7]
  BY <1>1, ChunkHeaderFields
<1> QED  BY <1>2 DEF HeaderFrom, c

LEMMA HeaderOfOver ==
    ASSUME NEW d, NEW p, NEW v
    PROVE  ChunkHeader(Over(d, p, v)) = HeaderFrom(v)
<1> DEFINE c == Over(d, p, v)
           e == Over(<<>>, 0, v)
<1>1. c.out = e.out
  BY OverFields
<1> HIDE DEF c, e
<1>2. ChunkHeader(c) = ChunkHeader(e)
  BY <1>1 DEF ChunkHeader
<1> QED  BY <1>2 DEF HeaderFrom, c, e

\* A frame is taken apart into what it was made of (chunk.go).
LEMMA FrameDecodes ==
    ASSUME NEW v, NEW has \in BOOLEAN, NEW bm, NEW x, NEW y, FrameParts(v, bm, x, y),
           XXH64(y) = x, v[7] = Len(y), HasFlag(v[4], 1) <=> has, has => Len(bm) = BitmapLen(v[5])
    PROVE  LET d == FrameOf(v, has, bm, x, y)
               h == HeaderFrom(v)
           IN  /\ HeaderOf(d) = h
               /\ DecodeChunk(d) =
                     IF ~ TooManyRows(h) /\ ~ TooManyBytes(h) /\ ~ RatioExceeded(h)
                     THEN Decoded(h, BitmapPart(has, bm), y) ELSE Failed
<1> DEFINE d == FrameOf(v, has, bm, x, y)
           h == HeaderFrom(v)
           n == IF has THEN 10 ELSE 9
           w == BitmapPart(has, bm)
           good == ~ TooManyBytes(h) /\ ~ RatioExceeded(h)
<1>1. /\ HeaderReadable(v) /\ bm \in Seq(Byte) /\ Len(bm) \in Word /\ x \in Word /\ y \in Seq(Byte)
  BY DEF FrameParts
<1>2. /\ d \in Seq(Byte)
      /\ \E at \in [0 .. n -> Nat] : FrameAt(v, has, bm, x, y, d, n, at)
  BY FrameStands
<1> HIDE DEF d
<1>3. PICK at \in [0 .. n -> Nat] : FrameAt(v, has, bm, x, y, d, n, at)
  BY <1>2
<1>stands.
                     /\ at[0] = 0
                     /\ \A k \in 1 .. 7 :
                           /\ Stands(AppendField(ChunkFields[k], v[k]), d, at[k - 1])
                           /\ at[k] = at[k - 1] + Len(AppendField(ChunkFields[k], v[k]))
                     /\ has => /\ Stands(AppendBytes(bm), d, at[7])
                               /\ at[8] = at[7] + Len(AppendBytes(bm))
                     /\ Stands(Digested(x), d, at[n - 2])
                     /\ at[n - 1] = at[n - 2] + Len(Digested(x))
                     /\ Stands(y, d, at[n - 1])
  BY <1>3 DEF FrameAt
<1>4. n \in Nat /\ n >= 7 /\ 7 \in 0 .. n /\ n - 2 \in 0 .. n /\ (has => n = 10) /\ (~ has => n = 9)
  OBVIOUS
<1> HIDE DEF n
<1> DEFINE c == Over(d, at[7], v)
           R == Reads(NewCursor(d), ChunkFields)
           p == at[n - 2]
           g == Over(d, p, Append(v, w))
<1>5. R = c
  BY <1>1, <1>2, <1>stands, <1>4, HeaderRead
<1>6. at[7] \in Nat /\ p \in Nat
  BY <1>3, <1>4
<1>7. ChunkHeader(c) = h
  BY HeaderOfOver
<1>8. h.hasNulls <=> has
  BY HeaderFromFields
<1>9. h.rows = v[5] /\ h.storedLen = v[7]
  BY HeaderFromFields
<1>10. w \in Seq(Byte)
  BY <1>1 DEF BitmapPart
<1> HIDE DEF h
<1>11. ReadBitmap(c, h) = g
  <2>1. CASE has
    <3>1. Len(bm) = BitmapLen(h.rows) /\ h.hasNulls /\ v \in Seq(Nat)
      BY <1>1, <1>8, <1>9, <2>1 DEF HeaderReadable
    <3>2. Stands(AppendBytes(bm), d, at[7]) /\ at[8] = at[7] + Len(AppendBytes(bm))
      BY <1>stands, <2>1
    <3>3. ReadBitmap(c, h) = Over(d, at[7] + Len(AppendBytes(bm)), Append(v, bm))
      <4> DEFINE q == at[7]
      <4>1. q \in Nat /\ Stands(AppendBytes(bm), d, q)
        BY <1>6, <3>2
      <4> HIDE DEF q
      <4>2. ReadBitmap(Over(d, q, v), h) = Over(d, q + Len(AppendBytes(bm)), Append(v, bm))
        BY <1>1, <1>2, <3>1, <4>1, BitmapRead
      <4> QED  BY <4>2 DEF q
    <3>4. n - 2 = 8 /\ w = bm
      BY <1>4, <2>1 DEF BitmapPart
    <3> QED  BY <3>2, <3>3, <3>4
  <2>2. CASE ~ has
    <3>1. ~ h.hasNulls
      BY <1>8, <2>2
    <3>2. ReadBitmap(c, h) = Over(d, at[7], Append(v, <<>>))
      BY <3>1, NoBitmapRead
    <3>3. n - 2 = 7 /\ w = <<>>
      BY <1>4, <2>2 DEF BitmapPart
    <3> QED  BY <3>2, <3>3
  <2> QED  BY <2>1, <2>2
<1> HIDE DEF w
<1>12. DecodeBody(h, g) = IF good THEN Decoded(h, w, y) ELSE Failed
  <2>1. Stands(Digested(x), d, p) /\ Stands(y, d, p + Len(Digested(x)))
    BY <1>stands
  <2>2. h.storedLen = Len(y)
    BY <1>9
  <2> HIDE DEF p, n
  <2> QED  BY <1>1, <1>2, <1>6, <1>10, <2>1, <2>2, BodyRead
<1>13. DecodeChunk(d) = IF R.ok THEN DecodeRest(ChunkHeader(R), R) ELSE Failed
  BY DEF DecodeChunk, Then
<1>14. DecodeRest(h, c) = IF TooManyRows(h) THEN Failed
                          ELSE IF ReadBitmap(c, h).ok THEN DecodeBody(h, ReadBitmap(c, h)) ELSE Failed
  BY DEF DecodeRest, Then
<1>15. HeaderOf(d) = ChunkHeader(R)
  BY DEF HeaderOf
<1>16. c.ok /\ g.ok
  BY OverFields
<1> HIDE DEF c, g, R, p
<1>17. DecodeChunk(d) = DecodeRest(h, c) /\ HeaderOf(d) = h
  BY <1>5, <1>7, <1>13, <1>15, <1>16
<1>18. DecodeRest(h, c) = IF TooManyRows(h) THEN Failed ELSE DecodeBody(h, g)
  BY <1>11, <1>14, <1>16
<1>19. DecodeChunk(d) = IF ~ TooManyRows(h) /\ good THEN Decoded(h, w, y) ELSE Failed
  BY <1>12, <1>17, <1>18
<1> QED  BY <1>17, <1>19 DEF d, h, w

\* The values in front of a chunk.
HeaderValues(k, e, stored, x) ==
    <<Kinds[k], IdOf(k, e.id), CompressionIds[stored.comp], FlagBits(<<HasNulls(x)>>),
      Rows(x), Len(e.data), Len(stored.bytes)>>

LEMMA FieldForms ==
    ASSUME NEW v
    PROVE  AppendField("blob", v) = AppendBytes(v) /\ AppendField("raw", v) = v
<1>1. DOMAIN Width = {"u8", "u16", "u32", "u64"} /\ DOMAIN Limit = {"name", "value", "blob"}
  BY DEF Width, Limit
<1> QED  BY <1>1 DEF AppendField

\* Three sequences in a row.
LEMMA ThreeJoined ==
    ASSUME NEW S, NEW a \in Seq(S), NEW m \in Seq(S), NEW z \in Seq(S)
    PROVE  LET s == a \o m \o z
           IN  /\ s \in Seq(S) /\ Len(s) = Len(a) + Len(m) + Len(z)
               /\ \A i \in 1 .. Len(a) : s[i] = a[i]
               /\ \A i \in 1 .. Len(m) : s[Len(a) + i] = m[i]
               /\ \A i \in 1 .. Len(z) : s[Len(a) + Len(m) + i] = z[i]
<1> DEFINE r == a \o m
           s == r \o z
<1>1. /\ r \in Seq(S) /\ Len(r) = Len(a) + Len(m) /\ Len(m) \in Nat /\ Len(a) \in Nat
      /\ \A i \in 1 .. Len(a) : r[i] = a[i]
      /\ \A i \in 1 .. Len(m) : r[Len(a) + i] = m[i]
  BY ConcatFacts
<1> HIDE DEF r
<1>2. /\ s \in Seq(S) /\ Len(s) = Len(r) + Len(z) /\ Len(z) \in Nat
      /\ \A i \in 1 .. Len(r) : s[i] = r[i]
      /\ \A i \in 1 .. Len(z) : s[Len(r) + i] = z[i]
  <2>1. r \in Seq(S)
    BY <1>1
  <2> QED  BY <2>1, ConcatFacts
<1> HIDE DEF s
<1>3. /\ \A i \in 1 .. Len(a) : i \in 1 .. Len(r)
      /\ \A i \in 1 .. Len(m) : Len(a) + i \in 1 .. Len(r)
  BY <1>1
<1> QED  BY <1>1, <1>2, <1>3 DEF s, r

\* The items that Framed emits, by number.
FrameItemsAre(items, n, v, has, bm, x, y) ==
    /\ n = IF has THEN 10 ELSE 9
    /\ DOMAIN items = 1 .. n
    /\ \A k \in 1 .. 7 : items[k][1] = ChunkFields[k] /\ items[k][2] = v[k]
    /\ has => items[8][1] = "blob" /\ items[8][2] = bm
    /\ items[n - 1][1] = "u64" /\ items[n - 1][2] = x
    /\ items[n][1] = "raw" /\ items[n][2] = y

LEMMA FrameItems ==
    ASSUME NEW v, NEW has \in BOOLEAN, NEW bm, NEW x, NEW y,
           NEW items, NEW n, FrameItemsAre(items, n, v, has, bm, x, y)
    PROVE  Emit(items) = FrameOf(v, has, bm, x, y)
<1> DEFINE s == FramePieces(v, has, bm, x, y)
           e == [i \in DOMAIN items |-> AppendField(items[i][1], items[i][2])]
           f(k) == AppendField(ChunkFields[k], v[k])
           q == AppendBytes(bm)
           z == Digested(x)
<1>0. /\ n = IF has THEN 10 ELSE 9
      /\ DOMAIN items = 1 .. n
      /\ \A k \in 1 .. 7 : items[k][1] = ChunkFields[k] /\ items[k][2] = v[k]
      /\ has => items[8][1] = "blob" /\ items[8][2] = bm
      /\ items[n - 1][1] = "u64" /\ items[n - 1][2] = x
      /\ items[n][1] = "raw" /\ items[n][2] = y
  BY DEF FrameItemsAre
<1>1. s = [k \in 1 .. n |-> IF k <= 7 THEN f(k) ELSE IF has /\ k = 8 THEN q
                            ELSE IF k = (IF has THEN 9 ELSE 8) THEN z ELSE y]
  BY <1>0 DEF FramePieces
<1>2. n \in Nat /\ n \in {9, 10} /\ (has <=> n = 10) /\ (IF has THEN 9 ELSE 8) = n - 1
  BY <1>0
<1>3. ASSUME NEW k \in 1 .. n
      PROVE  AppendField(items[k][1], items[k][2])
             = IF k <= 7 THEN f(k) ELSE IF has /\ k = 8 THEN q
               ELSE IF k = n - 1 THEN z ELSE y
  <2>1. CASE k <= 7
    <3>1. k \in 1 .. 7
      BY <2>1
    <3>2. items[k][1] = ChunkFields[k] /\ items[k][2] = v[k]
      BY <1>0, <3>1
    <3> QED  BY <2>1, <3>2
  <2>2. CASE ~ (k <= 7) /\ has /\ k = 8
    <3>1. items[k][1] = "blob" /\ items[k][2] = bm
      BY <1>0, <2>2
    <3>2. AppendField(items[k][1], items[k][2]) = q
      BY <3>1, FieldForms
    <3> HIDE DEF q, z, f
    <3> QED  BY <2>2, <3>2
  <2>3. CASE ~ (k <= 7) /\ ~ (has /\ k = 8) /\ k = n - 1
    <3>1. AppendField(items[k][1], items[k][2]) = z
      BY <1>0, <2>3 DEF Digested
    <3> HIDE DEF q, z, f
    <3> QED  BY <2>3, <3>1
  <2>4. CASE ~ (k <= 7) /\ ~ (has /\ k = 8) /\ k # n - 1
    <3>1. k = n
      BY <1>2, <2>4
    <3>2. AppendField(items[k][1], items[k][2]) = y
      BY <1>0, <3>1, FieldForms
    <3> HIDE DEF q, z, f
    <3> QED  BY <2>4, <3>2
  <2> QED  BY <2>1, <2>2, <2>3, <2>4
<1> HIDE DEF q, z, f
<1>4. e = s
  <2>1. s = [k \in 1 .. n |-> IF k <= 7 THEN f(k) ELSE IF has /\ k = 8 THEN q
                              ELSE IF k = n - 1 THEN z ELSE y]
    BY <1>1, <1>2
  <2> HIDE DEF s
  <2> QED  BY <1>0, <1>3, <2>1
<1>5. Emit(items) = FlattenSeq(e)
  BY DEF Emit
<1> HIDE DEF e, s
<1> QED  BY <1>4, <1>5 DEF FrameOf, s

\* What Encode frames is a frame (builder.go).
LEMMA FramedIs ==
    ASSUME NEW k, NEW e, NEW stored, NEW x, HasNulls(x) \in BOOLEAN
    PROVE  Framed(k, e, stored, x)
           = FrameOf(HeaderValues(k, e, stored, x), HasNulls(x), BitmapOf(x.present),
                     XXH64(stored.bytes), stored.bytes)
<1> DEFINE v == HeaderValues(k, e, stored, x)
           has == HasNulls(x)
           bm == BitmapOf(x.present)
           dg == XXH64(stored.bytes)
           y == stored.bytes
           a == << <<"u8", v[1]>>, <<"u8", v[2]>>, <<"u8", v[3]>>, <<"u8", v[4]>>,
                   <<"uvarint", v[5]>>, <<"uvarint", v[6]>>, <<"uvarint", v[7]>> >>
           m == IF has THEN << <<"blob", bm>> >> ELSE <<>>
           z == << <<"u64", dg>>, <<"raw", y>> >>
           items == a \o m \o z
           n == IF has THEN 10 ELSE 9
           Fs == {"u8", "uvarint", "blob", "u64", "raw"}
           Vs == {v[1], v[2], v[3], v[4], v[5], v[6], v[7], bm, dg, y}
           S == Fs \X Vs
<1>1. Framed(k, e, stored, x) = Emit(items)
  BY DEF Framed, HeaderValues
<1> HIDE DEF v, bm, dg, y, has
<1>2. /\ a \in Seq(S) /\ Len(a) = 7
      /\ \A i \in 1 .. 7 : a[i][1] = ChunkFields[i] /\ a[i][2] = v[i]
  <2>1. a \in Seq(S) /\ Len(a) = 7
    OBVIOUS
  <2>2. \A i \in 1 .. 7 : i = 1 \/ i = 2 \/ i = 3 \/ i = 4 \/ i = 5 \/ i = 6 \/ i = 7
    OBVIOUS
  <2>3. /\ a[1][1] = ChunkFields[1] /\ a[2][1] = ChunkFields[2] /\ a[3][1] = ChunkFields[3]
        /\ a[4][1] = ChunkFields[4] /\ a[5][1] = ChunkFields[5] /\ a[6][1] = ChunkFields[6]
        /\ a[7][1] = ChunkFields[7]
    BY DEF ChunkFields
  <2>4. /\ a[1][2] = v[1] /\ a[2][2] = v[2] /\ a[3][2] = v[3] /\ a[4][2] = v[4]
        /\ a[5][2] = v[5] /\ a[6][2] = v[6] /\ a[7][2] = v[7]
    OBVIOUS
  <2> HIDE DEF a
  <2> QED  BY <2>1, <2>2, <2>3, <2>4
<1>3. m \in Seq(S) /\ Len(m) = (IF has THEN 1 ELSE 0) /\ (has => m[1][1] = "blob" /\ m[1][2] = bm)
  BY DEF has
<1>4. z \in Seq(S) /\ Len(z) = 2 /\ z[1][1] = "u64" /\ z[1][2] = dg /\ z[2][1] = "raw" /\ z[2][2] = y
  OBVIOUS
<1> HIDE DEF a, m, z, S
<1>5. /\ items \in Seq(S) /\ Len(items) = Len(a) + Len(m) + Len(z)
      /\ \A i \in 1 .. Len(a) : items[i] = a[i]
      /\ \A i \in 1 .. Len(m) : items[Len(a) + i] = m[i]
      /\ \A i \in 1 .. Len(z) : items[Len(a) + Len(m) + i] = z[i]
  <2>1. a \in Seq(S) /\ m \in Seq(S) /\ z \in Seq(S)
    BY <1>2, <1>3, <1>4
  <2> QED  BY <2>1, ThreeJoined, SMTT(30)
<1> HIDE DEF items
<1> DEFINE l == Len(a) + Len(m)
<1>6. Len(items) = n /\ DOMAIN items = 1 .. n /\ l = n - 2
  <2>1. Len(a) = 7 /\ Len(m) = (IF has THEN 1 ELSE 0) /\ Len(z) = 2
    BY <1>2, <1>3, <1>4
  <2>2. DOMAIN items = 1 .. Len(items) /\ Len(items) = Len(a) + Len(m) + Len(z)
    BY <1>5
  <2>3. Len(items) = n /\ l = n - 2
    BY <2>1, <2>2
  <2> QED  BY <2>2, <2>3
<1>7. \A i \in 1 .. 7 : items[i][1] = ChunkFields[i] /\ items[i][2] = v[i]
  BY <1>2, <1>5
<1>8. ASSUME has PROVE items[8][1] = "blob" /\ items[8][2] = bm
  <2>1. 1 \in 1 .. Len(m) /\ Len(a) + 1 = 8
    BY <1>2, <1>3, <1>8
  <2>2. items[8] = m[1]
    BY <1>5, <2>1
  <2> QED  BY <1>3, <1>8, <2>2
<1>9. items[n - 1] = z[1] /\ items[n] = z[2]
  <2>1. \A i \in 1 .. 2 : items[l + i] = z[i]
    BY <1>4, <1>5
  <2>2. l + 1 = n - 1 /\ l + 2 = n
    BY <1>6
  <2>3. 1 \in 1 .. 2 /\ 2 \in 1 .. 2
    OBVIOUS
  <2> HIDE DEF n, l
  <2> QED  BY <2>1, <2>2, <2>3
<1>10. /\ items[n - 1][1] = "u64" /\ items[n - 1][2] = dg
       /\ items[n][1] = "raw" /\ items[n][2] = y
  <2> HIDE DEF n
  <2> QED  BY <1>4, <1>9
<1>11. has \in BOOLEAN
  BY DEF has
<1>12. n = IF has THEN 10 ELSE 9
  OBVIOUS
<1>13. DOMAIN items = 1 .. n
  BY <1>6
<1> HIDE DEF n, l
<1>14. Emit(items) = FrameOf(v, has, bm, dg, y)
  <2>1. FrameItemsAre(items, n, v, has, bm, dg, y)
    BY <1>7, <1>8, <1>10, <1>12, <1>13 DEF FrameItemsAre
  <2> QED  BY <1>11, <2>1, FrameItems
<1> QED  BY <1>1, <1>14 DEF v, has, bm, dg, y

\* The flag of a chunk tells nulls (builder.go).
LEMMA FlagIs ==
    ASSUME NEW has \in BOOLEAN
    PROVE  /\ FlagBits(<<has>>) \in {0, 1}
           /\ HasFlag(FlagBits(<<has>>), 1) <=> has
<1> DEFINE conds == <<has>>
           f == [j \in DOMAIN conds |-> IF conds[j] THEN Pow2[j - 1] ELSE 0]
           t == Total(f, Len(conds))
           w == IF has THEN 1 ELSE 0
<1>1. Pow2[0] = 1
  BY Pow2Next
<1>2. DOMAIN conds = 1 .. 1 /\ Len(conds) = 1 /\ conds[1] = has
  OBVIOUS
<1> HIDE DEF conds
<1>3. f[1] = w /\ DOMAIN f = 1 .. 1
  <2>1. 1 \in DOMAIN conds /\ 1 - 1 = 0
    BY <1>2
  <2>2. f[1] = IF conds[1] THEN Pow2[0] ELSE 0
    BY <2>1
  <2> QED  BY <1>1, <1>2, <2>2
<1>4. w \in {0, 1} /\ w \in Nat /\ (has <=> w = 1)
  OBVIOUS
<1> HIDE DEF f, w
<1>5. Total(f, 1) = w
  <2>1. NatsTo(f, 0 + 1) /\ 0 \in Nat /\ 0 + 1 = 1
    BY <1>3, <1>4 DEF NatsTo
  <2>2. Total(f, 0 + 1) = Total(f, 0) + f[0 + 1]
    BY <2>1, TotalNext
  <2>3. Total(f, 0) = 0
    BY TotalZero
  <2> QED  BY <1>3, <1>4, <2>1, <2>2, <2>3
<1>6. FlagBits(conds) = w
  BY <1>2, <1>5 DEF FlagBits, f
<1>7. HasFlag(w, 1) <=> w = 1
  <2>1. HasFlag(w, 1) <=> (w \div 1) % 2 = 1
    BY <1>1 DEF HasFlag
  <2> QED  BY <1>4, <2>1
<1> QED  BY <1>4, <1>6, <1>7 DEF conds

\* A bitmap has no more bytes than rows.
LEMMA BitmapShort ==
    ASSUME NEW n \in Nat
    PROVE  BitmapLen(n) \in 0 .. n
<1> DEFINE B == ByteBits
           m == n + (B - 1)
           q == m \div B
           z == m % B
<1>1. B \in Nat \ {0} /\ m \in Nat
  BY WordBitsFacts
<1>2. BitmapLen(n) = q
  BY DEF BitmapLen
<1>3. B >= 1
  BY <1>1
<1> HIDE DEF B
<1>4. q \in Nat /\ z \in Nat /\ z < B /\ m = (B * q) + z
  <2> HIDE DEF m
  <2> QED  BY <1>1, DivMod
<1> HIDE DEF q, z
<1>5. q <= n
  <2> SUFFICES ASSUME n < q PROVE FALSE
    BY <1>4
  <2>1. n + 1 <= q /\ n + 1 \in Nat
    BY <1>4
  <2>2. q = (n + 1) + (q - (n + 1)) /\ q - (n + 1) \in Nat
    BY <1>4, <2>1
  <2> DEFINE r == q - (n + 1)
  <2> HIDE DEF r
  <2>3. B * q = B * ((n + 1) + r) /\ r \in Nat
    BY <2>2 DEF r
  <2>4. B * ((n + 1) + r) = (B * n) + B + (B * r)
    BY <1>1, <2>3
  <2>5. B * n >= n
    <3>1. B = 1 + (B - 1) /\ B - 1 \in Nat
      BY <1>1
    <3> DEFINE c == B - 1
    <3>2. c \in Nat /\ B = 1 + c
      BY <3>1
    <3> HIDE DEF c
    <3>3. (1 + c) * n = n + c * n
      BY <3>2
    <3>4. c * n \in Nat
      BY <3>2, TimesNat
    <3> DEFINE y == c * n
    <3> HIDE DEF y
    <3>5. n + y >= n
      BY <3>4 DEF y
    <3> QED  BY <3>2, <3>3, <3>5 DEF y
  <2>6. B * r \in Nat /\ B * n \in Nat
    BY <1>1, <2>3, TimesNat
  <2> DEFINE x == B * n
             y == B * r
  <2> HIDE DEF x, y
  <2>7. m = x + B + y + z
    BY <1>4, <2>3, <2>4 DEF x, y
  <2>8. x >= n /\ x \in Nat /\ y \in Nat
    BY <2>5, <2>6 DEF x, y
  <2> QED  BY <1>1, <1>4, <2>7, <2>8
<1> QED  BY <1>2, <1>4, <1>5

\* What the choosers made is the payload of a codec, and decodes to the column
\* unless its table or a string is too big.
LEMMA PayloadIs ==
    ASSUME BuilderRight, Rows(b) > 0
    PROVE  LET e == Encoded(kind, b)
               r == DecodeValues(Kinds[kind], IdOf(kind, e.id), e.data, Rows(b))
           IN  /\ e.data \in Seq(Byte) /\ Kinds[kind] \in {0, 1}
               /\ IdOf(kind, e.id) \in 0 .. 6 \cup FirstBytesId .. (FirstBytesId + 2)
               /\ \/ Gives(r, Vals(kind, b))
                  \/ TableTooBig /\ IdOf(kind, e.id) = IdOf(kind, "dict")
                  \/ TooLong
<1> DEFINE rows == Rows(b)
           e == Encoded(kind, b)
           r == DecodeValues(Kinds[kind], IdOf(kind, e.id), e.data, rows)
<1>1. kind \in {"int", "bytes"}
  BY FamilyFacts
<1>2. CASE kind = "int"
  <2> DEFINE vals == b.vals
  <2>1. /\ vals \in Seq(Word) /\ Len(vals) = rows /\ Len(vals) # 0 /\ Len(vals) \in Word
        /\ Len(vals) < HalfWord
    BY ColumnIs
  <2>2. e = EncodeIntsAuto(vals)
    BY <1>2 DEF Encoded
  <2> HIDE DEF vals, e, r, rows
  <2>3. PICK id \in IntCodecs : EncodeIntsAuto(vals) = Candidate(id, EncodeInts(id, vals))
    BY <2>1, ChosenInts
  <2>4. e.id = id /\ e.data = EncodeInts(id, vals)
    BY <2>2, <2>3 DEF Candidate
  <2>5. e.data \in Seq(Byte)
    BY <2>1, <2>4, IntCodecsExact
  <2>6. IdOf("int", id) \in 0 .. 6
    BY IntIdIs
  <2>7. Kinds["int"] = 0
    BY DEF Kinds
  <2>8. r = DecodeInts(id, EncodeInts(id, vals), rows)
    <3>1. r = DecodeValues(Kinds["int"], IdOf("int", id), EncodeInts(id, vals), rows)
      BY <1>2, <2>4 DEF r
    <3> QED  BY <3>1, IntIdFound
  <2>9. CASE TableTaken(id)
    <3>1. Gives(DecodeInts(id, EncodeInts(id, vals), rows), vals)
      BY <2>9, IntColumnExact DEF vals, rows
    <3>2. Vals(kind, b) = vals
      BY <1>2 DEF Vals, vals
    <3>3. Gives(r, Vals(kind, b))
      BY <2>8, <3>1, <3>2
    <3> QED  BY <1>2, <2>4, <2>5, <2>6, <2>7, <3>3 DEF e, r, rows
  <2>10. CASE ~ TableTaken(id)
    <3>1. id = "dict" /\ TableTooBig
      BY <2>10 DEF TableTaken
    <3>2. IdOf(kind, e.id) = IdOf(kind, "dict")
      BY <2>4, <3>1
    <3> QED  BY <1>2, <2>4, <2>5, <2>6, <2>7, <3>1, <3>2 DEF e, r, rows
  <2> QED  BY <2>9, <2>10
<1>3. CASE kind = "bytes"
  <2> DEFINE vals == Strings(b.vals)
  <2>1. /\ vals \in Seq(AnyStrings) /\ Len(vals) = rows /\ Len(vals) # 0 /\ Len(vals) \in Word
        /\ Len(vals) < HalfWord
    BY <1>3, StringsAre, ColumnIs
  <2>2. e = EncodeBytesAuto(vals)
    BY <1>3 DEF Encoded
  <2> HIDE DEF vals, e, r, rows
  <2>3. PICK id \in BytesCodecs : EncodeBytesAuto(vals) = Candidate(id, EncodeBytes(id, vals))
    BY <2>1, ChosenBytes
  <2>4. e.id = id /\ e.data = EncodeBytes(id, vals)
    BY <2>2, <2>3 DEF Candidate
  <2>5. e.data \in Seq(Byte)
    BY <2>1, <2>4, BytesCodecsExact
  <2>6. IdOf("bytes", id) \in FirstBytesId .. (FirstBytesId + 2)
    BY BytesIdIs
  <2>7. Kinds["bytes"] = 1
    BY DEF Kinds
  <2>8. r = DecodeBytes(id, EncodeBytes(id, vals), rows)
    <3>1. r = DecodeValues(Kinds["bytes"], IdOf("bytes", id), EncodeBytes(id, vals), rows)
      BY <1>3, <2>4 DEF r
    <3> QED  BY <3>1, BytesIdFound
  <2>9. CASE TableTaken(id) /\ ~ TooLong
    <3>1. Gives(DecodeBytes(id, EncodeBytes(id, vals), rows), vals)
      BY <1>3, <2>9, BytesColumnExact DEF vals, rows
    <3>2. Vals(kind, b) = vals
      BY <1>3 DEF Vals, vals
    <3>3. Gives(r, Vals(kind, b))
      BY <2>8, <3>1, <3>2
    <3> QED  BY <1>3, <2>4, <2>5, <2>6, <2>7, <3>3 DEF e, r, rows
  <2>10. CASE ~ TableTaken(id)
    <3>1. id = "dict" /\ TableTooBig
      BY <2>10 DEF TableTaken
    <3>2. IdOf(kind, e.id) = IdOf(kind, "dict")
      BY <2>4, <3>1
    <3> QED  BY <1>3, <2>4, <2>5, <2>6, <2>7, <3>1, <3>2 DEF e, r, rows
  <2>11. CASE TooLong
    BY <1>3, <2>4, <2>5, <2>6, <2>7, <2>11 DEF e, r, rows
  <2> QED  BY <2>9, <2>10, <2>11
<1> QED  BY <1>1, <1>2, <1>3

LEMMA BitmapReadBack ==
    ASSUME BuilderRight, Rows(b) > 0
    PROVE  LET bm == BitmapOf(b.present)
           IN  /\ HasNulls(b) \in BOOLEAN /\ bm \in Seq(Byte) /\ Len(bm) \in Word
               /\ HasNulls(b) => Len(bm) = BitmapLen(Rows(b))
               /\ \A i \in 1 .. Rows(b) : HasNulls(b) => (GetMark(bm, i) <=> b.present[i] = 1)
<1> DEFINE bm == BitmapOf(b.present)
           n == Rows(b)
           p == b.present
<1>1. /\ p \in Seq({0, 1}) /\ n \in Nat /\ (HasNulls(b) => Len(p) = n) /\ n \in Word
      /\ HasNulls(b) \in BOOLEAN
  BY ColumnIs, SoundFields DEF BuilderRight, HasNulls
<1>2. Len(p) \in 0 .. n
  <2>1. CASE HasNulls(b)
    BY <1>1, <2>1
  <2>2. CASE ~ HasNulls(b)
    <3>1. p = <<>>
      BY <2>2 DEF HasNulls
    <3> QED  BY <1>1, <3>1
  <2> QED  BY <2>1, <2>2
<1> HIDE DEF p, n
<1>3. /\ BitmapOf(p) \in Seq(Byte) /\ Len(BitmapOf(p)) = BitmapLen(Len(p))
      /\ \A i \in 1 .. Len(p) : GetMark(BitmapOf(p), i) <=> p[i] = 1
  BY <1>1, BitmapIs
<1>4. BitmapLen(Len(p)) \in 0 .. Len(p)
  BY <1>2, BitmapShort
<1>5. BitmapLen(Len(p)) \in Word
  <2> DEFINE l == BitmapLen(Len(p))
             m == Len(p)
  <2>1. l \in 0 .. m /\ m \in 0 .. n /\ n \in Word
    BY <1>1, <1>2, <1>4
  <2> HIDE DEF l, m
  <2>2. l \in Word
    BY <2>1, WordSize DEF Word
  <2> QED  BY <2>2 DEF l
<1> QED  BY <1>1, <1>3, <1>5 DEF p, n

\* The values in front of a chunk can be read back.
LEMMA HeaderValuesAre ==
    ASSUME EntropyRight, BuilderRight, PayloadFits, Rows(b) > 0, NEW entropy \in Codecs
    PROVE  LET e == Encoded(kind, b)
               stored == Stored(e.data, entropy)
               v == HeaderValues(kind, e, stored, b)
           IN  /\ HeaderReadable(v)
               /\ v[1] = Kinds[kind] /\ v[2] = IdOf(kind, e.id) /\ v[3] = CompressionIds[stored.comp]
               /\ HasFlag(v[4], 1) <=> HasNulls(b)
               /\ v[5] = Rows(b) /\ v[6] = Len(e.data) /\ v[7] = Len(stored.bytes)
               /\ stored.bytes \in Seq(Byte)
<1> DEFINE e == Encoded(kind, b)
           stored == Stored(e.data, entropy)
           v == HeaderValues(kind, e, stored, b)
           has == HasNulls(b)
           fl == FlagBits(<<has>>)
           k1 == Kinds[kind]
           k2 == IdOf(kind, e.id)
           k3 == CompressionIds[stored.comp]
           n == Rows(b)
           l == Len(e.data)
           m == Len(stored.bytes)
<1>1. e.data \in Seq(Byte) /\ k1 \in {0, 1} /\ k2 \in 0 .. 6 \cup FirstBytesId .. (FirstBytesId + 2)
  BY PayloadIs
<1>2. stored.bytes \in Seq(Byte) /\ m <= l /\ k3 \in 0 .. 2
  <2> DEFINE p == e.data
  <2>1. p \in Seq(Byte)
    BY <1>1
  <2> HIDE DEF p
  <2>2. LET st == Stored(p, entropy)
        IN  st.bytes \in Seq(Byte) /\ Len(st.bytes) <= Len(p) /\ CompressionIds[st.comp] \in 0 .. 2
    BY <2>1, StoredIs
  <2> QED  BY <2>2 DEF p
<1>3. has \in BOOLEAN
  BY BitmapReadBack
<1>4. fl \in {0, 1} /\ (HasFlag(fl, 1) <=> has)
  BY <1>3, FlagIs
<1>5. n \in Word /\ l \in Word
  BY ColumnIs DEF PayloadFits
<1>6. m \in Word
  <2>1. m \in Nat
    BY <1>2
  <2> HIDE DEF m, l
  <2> QED  BY <1>2, <1>5, <2>1, WordSize DEF Word
<1>7. v = <<k1, k2, k3, fl, n, l, m>>
  BY DEF HeaderValues
<1> HIDE DEF v, k1, k2, k3, fl, n, l, m
<1>8. Byte = 0 .. (ByteSize - 1) /\ FirstBytesId \in Byte /\ FirstBytesId + 2 \in Byte
      /\ FirstBytesId > 6 /\ ByteSize \in Nat
  BY ChunkAssumption, ByteFacts DEF Byte
<1>9. k1 \in Byte /\ k2 \in Byte /\ k3 \in Byte /\ fl \in Byte
  BY <1>1, <1>2, <1>4, <1>8
<1>10. /\ v[1] = k1 /\ v[2] = k2 /\ v[3] = k3 /\ v[4] = fl /\ v[5] = n /\ v[6] = l /\ v[7] = m
       /\ Len(v) = 7
  BY <1>7
<1>11. v \in Seq(Nat)
  <2>1. /\ k1 \in Nat /\ k2 \in Nat /\ k3 \in Nat /\ fl \in Nat
        /\ n \in Nat /\ l \in Nat /\ m \in Nat
    BY <1>5, <1>6, <1>9, WordSize, ByteFacts
  <2> QED  BY <1>7, <2>1
<1>12. HeaderReadable(v)
  <2>1. \A k \in 1 .. 4 : k = 1 \/ k = 2 \/ k = 3 \/ k = 4
    OBVIOUS
  <2>2. \A k \in 5 .. 7 : k = 5 \/ k = 6 \/ k = 7
    OBVIOUS
  <2>3. \A k \in 1 .. 4 : v[k] \in Byte
    BY <1>9, <1>10, <2>1
  <2>4. \A k \in 5 .. 7 : v[k] \in Word
    BY <1>5, <1>6, <1>10, <2>2
  <2> QED  BY <1>10, <1>11, <2>3, <2>4 DEF HeaderReadable
<1> QED  BY <1>2, <1>4, <1>10, <1>12 DEF v, k1, k2, k3, fl, n, l, m

\* A header of a chunk of this column.
HeaderHere(entropy) ==
    HeaderFrom(HeaderValues(kind, Encoded(kind, b), Stored(Encoded(kind, b).data, entropy), b))

DecodedHere ==
    LET e == Encoded(kind, b)
    IN  DecodeValues(Kinds[kind], IdOf(kind, e.id), e.data, Rows(b))

\* What decoding makes of a chunk that Encode made.
LEMMA ChunkDecodes ==
    ASSUME EntropyRight, BuilderRight, PayloadFits, Rows(b) > 0, NEW entropy \in Codecs
    PROVE  LET raw == EncodeChunk(kind, b, entropy)
               h == HeaderHere(entropy)
               r == DecodedHere
           IN  /\ HeaderOf(raw) = h /\ h.enc = IdOf(kind, Encoded(kind, b).id)
               /\ DecodeChunk(raw) =
                     IF ~ TooManyRows(h) /\ ~ TooManyBytes(h) /\ ~ RatioExceeded(h) /\ r.ok
                     THEN [ok |-> TRUE, kind |-> Kinds[kind], vals |-> r.vals, hasNulls |-> h.hasNulls,
                           present |-> BitmapPart(HasNulls(b), BitmapOf(b.present))]
                     ELSE Failed
               /\ h.hasNulls <=> HasNulls(b)
<1> DEFINE e == Encoded(kind, b)
           stored == Stored(e.data, entropy)
           v == HeaderValues(kind, e, stored, b)
           has == HasNulls(b)
           bm == BitmapOf(b.present)
           y == stored.bytes
           x == XXH64(y)
           h == HeaderHere(entropy)
           r == DecodedHere
           w == BitmapPart(has, bm)
           d == FrameOf(v, has, bm, x, y)
           raw == EncodeChunk(kind, b, entropy)
<1>1. raw = d
  <2>1. raw = Framed(kind, e, stored, b)
    BY DEF EncodeChunk, Pack
  <2>2. has \in BOOLEAN
    BY BitmapReadBack
  <2> HIDE DEF e, stored
  <2> QED  BY <2>1, <2>2, FramedIs
<1>2. /\ HeaderReadable(v)
      /\ v[1] = Kinds[kind] /\ v[2] = IdOf(kind, e.id) /\ v[3] = CompressionIds[stored.comp]
      /\ HasFlag(v[4], 1) <=> has
      /\ v[5] = Rows(b) /\ v[6] = Len(e.data) /\ v[7] = Len(y)
      /\ y \in Seq(Byte)
  BY HeaderValuesAre
<1>3. has \in BOOLEAN /\ bm \in Seq(Byte) /\ Len(bm) \in Word /\ (has => Len(bm) = BitmapLen(Rows(b)))
  BY BitmapReadBack
<1>4. x \in Word
  BY <1>2 DEF EntropyRight, EntropyRightFor
<1>5. h = HeaderFrom(v)
  BY DEF HeaderHere
<1>6. e.data \in Seq(Byte)
  BY PayloadIs
<1>7. Decompress(v[3], y, v[6]) = Whole(e.data)
  <2> DEFINE p == e.data
  <2>1. p \in Seq(Byte)
    BY <1>6
  <2>2. stored = Stored(p, entropy)
    OBVIOUS
  <2> HIDE DEF p, stored
  <2>3. Decompress(CompressionIds[stored.comp], stored.bytes, Len(p)) = Whole(p)
    BY <2>1, <2>2, StoredIs
  <2> QED  BY <1>2, <2>3 DEF p
<1>8. r = DecodeValues(v[1], v[2], e.data, v[5])
  BY <1>2 DEF DecodedHere
<1> HIDE DEF v, e, stored, h, has, bm, d, raw, r
<1>9. FrameParts(v, bm, x, y)
  BY <1>2, <1>3, <1>4 DEF FrameParts
<1>10. /\ HeaderOf(d) = h
       /\ DecodeChunk(d) = IF ~ TooManyRows(h) /\ ~ TooManyBytes(h) /\ ~ RatioExceeded(h)
                           THEN Decoded(h, w, y) ELSE Failed
  <2>1. has => Len(bm) = BitmapLen(v[5])
    BY <1>2, <1>3
  <2>2. v[7] = Len(y) /\ XXH64(y) = x /\ (HasFlag(v[4], 1) <=> has)
    BY <1>2
  <2> HIDE DEF x, y, w
  <2>3. /\ HeaderOf(d) = HeaderFrom(v)
        /\ DecodeChunk(d) = IF ~ TooManyRows(HeaderFrom(v)) /\ ~ TooManyBytes(HeaderFrom(v))
                               /\ ~ RatioExceeded(HeaderFrom(v))
                            THEN Decoded(HeaderFrom(v), BitmapPart(has, bm), y) ELSE Failed
    BY <1>3, <1>9, <2>1, <2>2, FrameDecodes DEF d
  <2> QED  BY <1>5, <2>3 DEF w
<1>11. /\ h.kind = v[1] /\ h.enc = v[2] /\ h.comp = v[3] /\ (h.hasNulls <=> HasFlag(v[4], 1))
       /\ h.rows = v[5] /\ h.uncompressedLen = v[6]
  BY <1>5, HeaderFromFields
<1> HIDE DEF y, x, w
<1>12. Decoded(h, w, y) = IF r.ok THEN [ok |-> TRUE, kind |-> h.kind, vals |-> r.vals,
                                        hasNulls |-> h.hasNulls, present |-> w] ELSE Failed
  <2> DEFINE z == Decompress(h.comp, y, h.uncompressedLen)
  <2>1. z = Whole(e.data)
    BY <1>7, <1>11
  <2>2. Decoded(h, w, y) =
          IF z.ok THEN IF DecodeValues(h.kind, h.enc, z.bytes, h.rows).ok
                       THEN [ok |-> TRUE, kind |-> h.kind,
                             vals |-> DecodeValues(h.kind, h.enc, z.bytes, h.rows).vals,
                             hasNulls |-> h.hasNulls, present |-> w]
                       ELSE Failed
          ELSE Failed
    BY DEF Decoded, Then
  <2> HIDE DEF z
  <2>3. z.ok /\ z.bytes = e.data
    BY <2>1 DEF Whole
  <2>4. DecodeValues(h.kind, h.enc, z.bytes, h.rows) = r
    BY <1>8, <1>11, <2>3
  <2> QED  BY <2>2, <2>3, <2>4
<1>13. h.kind = Kinds[kind] /\ h.enc = IdOf(kind, e.id) /\ (h.hasNulls <=> has)
  BY <1>2, <1>11
<1>14. DecodeChunk(raw) =
          IF ~ TooManyRows(h) /\ ~ TooManyBytes(h) /\ ~ RatioExceeded(h) /\ r.ok
          THEN [ok |-> TRUE, kind |-> Kinds[kind], vals |-> r.vals, hasNulls |-> h.hasNulls,
                present |-> w]
          ELSE Failed
  BY <1>1, <1>10, <1>12, <1>13
<1> QED  BY <1>1, <1>10, <1>13, <1>14 DEF raw, h, r, w, has, bm, e

\* A row is present unless its cell is null.
LEMMA NullsKept ==
    ASSUME BuilderRight, NEW i \in 1 .. Rows(b)
    PROVE  Present(b, i) <=> cells[i] # Null
<1>1. b.vals[i] \in Word
  BY SoundFields DEF BuilderRight
<1>2. CellAt(b, i) = cells[i]
  BY DEF BuilderRight
<1>3. b.vals[i] # Null
  BY <1>1, WordFacts
<1> QED  BY <1>2, <1>3 DEF CellAt

\* The nulls of a decoded vector are those of the builder.
LEMMA NullsRead ==
    ASSUME BuilderRight, Rows(b) > 0, NEW d, d.hasNulls <=> HasNulls(b),
           d.present = BitmapPart(HasNulls(b), BitmapOf(b.present)), NEW i \in 1 .. Rows(b)
    PROVE  IsNull(d, i) <=> ~ Present(b, i)
<1>1. CASE HasNulls(b)
  <2>1. d.present = BitmapOf(b.present) /\ d.hasNulls
    BY <1>1 DEF BitmapPart
  <2>2. GetMark(BitmapOf(b.present), i) <=> b.present[i] = 1
    BY <1>1, BitmapReadBack
  <2>3. IsNull(d, i) <=> ~ GetMark(BitmapOf(b.present), i)
    BY <2>1 DEF IsNull
  <2> QED  BY <1>1, <2>2, <2>3 DEF Present
<1>2. CASE ~ HasNulls(b)
  BY <1>2 DEF IsNull, Present
<1> QED  BY <1>1, <1>2

\* A chunk that Encode made is decoded to the builder's vector, or refused.
LEMMA ChunkReadsBack ==
    ASSUME EntropyRight, BuilderRight, PayloadFits, Rows(b) > 0, NEW entropy \in Codecs
    PROVE  LET raw == EncodeChunk(kind, b, entropy)
               d == DecodeChunk(raw)
           IN  /\ d.ok => \A i \in 1 .. Rows(b) : IsNull(d, i) <=> ~ Present(b, i)
               /\ SameVector(d, kind, b) \/ Refused(raw) \/ TooLong
<1> DEFINE raw == EncodeChunk(kind, b, entropy)
           d == DecodeChunk(raw)
           h == HeaderHere(entropy)
           r == DecodedHere
           good == ~ TooManyRows(h) /\ ~ TooManyBytes(h) /\ ~ RatioExceeded(h) /\ r.ok
           vec == [ok |-> TRUE, kind |-> Kinds[kind], vals |-> r.vals, hasNulls |-> h.hasNulls,
                   present |-> BitmapPart(HasNulls(b), BitmapOf(b.present))]
<1>1. /\ HeaderOf(raw) = h /\ h.enc = IdOf(kind, Encoded(kind, b).id)
      /\ d = IF good THEN vec ELSE Failed
      /\ h.hasNulls <=> HasNulls(b)
  BY ChunkDecodes
<1>2. \/ Gives(r, Vals(kind, b))
      \/ TableTooBig /\ h.enc = IdOf(kind, "dict")
      \/ TooLong
  BY <1>1, PayloadIs DEF DecodedHere
<1>3. ~ Failed.ok
  BY DEF Failed
<1>4. /\ vec.ok /\ vec.kind = Kinds[kind] /\ vec.vals = r.vals /\ vec.hasNulls = h.hasNulls
      /\ vec.present = BitmapPart(HasNulls(b), BitmapOf(b.present))
  OBVIOUS
<1> HIDE DEF raw, d, h, r, vec
<1>5. \A i \in 1 .. Rows(b) : IsNull(vec, i) <=> ~ Present(b, i)
  <2>1. vec.hasNulls <=> HasNulls(b)
    BY <1>1, <1>4
  <2> QED  BY <1>4, <2>1, NullsRead
<1>6. CASE good
  <2>1. d = vec /\ r.ok
    BY <1>1, <1>6
  <2>2. CASE Gives(r, Vals(kind, b))
    <3>1. vec.vals = Vals(kind, b)
      BY <1>4, <2>2 DEF Gives
    <3>2. SameVector(vec, kind, b)
      BY <1>4, <1>5, <3>1 DEF SameVector
    <3> QED  BY <1>5, <2>1, <3>2 DEF raw, d
  <2>3. CASE TableTooBig /\ h.enc = IdOf(kind, "dict")
    <3>1. Refused(raw)
      BY <1>1, <2>3 DEF Refused
    <3> QED  BY <1>5, <2>1, <3>1 DEF raw, d
  <2>4. CASE TooLong
    BY <1>5, <2>1, <2>4 DEF raw, d
  <2> QED  BY <1>2, <2>2, <2>3, <2>4
<1>7. CASE ~ good
  <2>1. ~ d.ok
    BY <1>1, <1>3, <1>7
  <2>2. Refused(raw) \/ TooLong
    <3>1. CASE TooManyRows(h) \/ TooManyBytes(h) \/ RatioExceeded(h)
      BY <1>1, <3>1 DEF Refused
    <3>2. CASE ~ r.ok
      <4>1. ~ Gives(r, Vals(kind, b))
        BY <3>2 DEF Gives
      <4>2. (TableTooBig /\ h.enc = IdOf(kind, "dict")) \/ TooLong
        BY <1>2, <4>1
      <4> QED  BY <1>1, <4>2 DEF Refused
    <3> QED  BY <1>7, <3>1, <3>2
  <2> QED  BY <2>1, <2>2 DEF raw, d
<1> QED  BY <1>6, <1>7

\* A chunk is what Encode made of the builder, and the vector what DecodeChunk
\* made of that.
ChunkRight ==
    /\ phase \in {"stored", "read"} => \E entropy \in Codecs : chunk = EncodeChunk(kind, b, entropy)
    /\ phase = "read" => data = DecodeChunk(chunk)

LEMMA ChunkRightAlways == Spec => []ChunkRight
<1>1. Init => ChunkRight
  BY DEF Init, ChunkRight
<1>2. ChunkRight /\ [Next]_vars => ChunkRight'
  <2> SUFFICES ASSUME ChunkRight, [Next]_vars PROVE ChunkRight'
    OBVIOUS
  <2>1. CASE AppendValueOrNull
    <3>1. phase' = "build"
      BY <2>1 DEF AppendValueOrNull
    <3> QED  BY <3>1 DEF ChunkRight
  <2>2. CASE Encode
    <3>1. PICK entropy \in Codecs : chunk' = EncodeChunk(kind, b, entropy)
      BY <2>2 DEF Encode
    <3>2. phase' = "stored" /\ family' = family /\ b' = b
      BY <2>2 DEF Encode
    <3>3. chunk' = EncodeChunk(kind', b', entropy)
      BY <3>1, <3>2 DEF kind
    <3> QED  BY <3>2, <3>3 DEF ChunkRight
  <2>3. CASE Decode
    <3>1. phase = "stored" /\ data' = DecodeChunk(chunk) /\ chunk' = chunk /\ family' = family /\ b' = b
      BY <2>3 DEF Decode
    <3>2. PICK entropy \in Codecs : chunk = EncodeChunk(kind, b, entropy)
      BY <3>1 DEF ChunkRight
    <3>3. chunk' = EncodeChunk(kind', b', entropy)
      BY <3>1, <3>2 DEF kind
    <3>4. data' = DecodeChunk(chunk')
      BY <3>1
    <3> QED  BY <3>3, <3>4 DEF ChunkRight
  <2>4. CASE Write \/ Cut \/ Change \/ OpenFile \/ RecoverFile
    <3>1. phase' \in {"closed", "damaged", "opened", "recovered"}
      BY <2>4 DEF Write, Cut, Change, OpenFile, RecoverFile
    <3> QED  BY <3>1 DEF ChunkRight
  <2>5. CASE UNCHANGED vars
    <3>1. phase' = phase /\ chunk' = chunk /\ data' = data /\ family' = family /\ b' = b
      BY <2>5 DEF vars
    <3> QED  BY <3>1 DEF ChunkRight, kind
  <2> QED  BY <2>1, <2>2, <2>3, <2>4, <2>5 DEF Next
<1> QED  BY <1>1, <1>2, PTL DEF Spec

\* Given only its bytes, a chunk reconstructs the values and the nulls of the
\* column it was made of, with any codec and any entropy codec, unless a reader
\* refuses what a writer made (chunk.go:31-32).
THEOREM ReadsBackOrRefusedAlways ==
    ASSUME EntropyRight
    PROVE  Spec /\ []PayloadFits => []ReadsBackOrRefused
<1>1. PayloadFits /\ BuilderRight /\ RowsStored /\ ChunkRight => ReadsBackOrRefused
  <2> SUFFICES ASSUME PayloadFits, BuilderRight, RowsStored, ChunkRight, phase = "read"
               PROVE  /\ data.ok => \A i \in DOMAIN cells : IsNull(data, i) <=> cells[i] = Null
                      /\ SameVector(data, kind, b) \/ Refused(chunk) \/ TooLong
    BY DEF ReadsBackOrRefused
  <2>1. Rows(b) > 0
    BY DEF RowsStored
  <2>2. PICK entropy \in Codecs : chunk = EncodeChunk(kind, b, entropy)
    BY DEF ChunkRight
  <2>3. data = DecodeChunk(chunk)
    BY DEF ChunkRight
  <2>4. /\ data.ok => \A i \in 1 .. Rows(b) : IsNull(data, i) <=> ~ Present(b, i)
        /\ SameVector(data, kind, b) \/ Refused(chunk) \/ TooLong
    BY <2>1, <2>2, <2>3, ChunkReadsBack
  <2>5. DOMAIN cells = 1 .. Rows(b)
    BY DEF BuilderRight
  <2>6. \A i \in 1 .. Rows(b) : cells[i] = Null <=> ~ Present(b, i)
    BY NullsKept
  <2> QED  BY <2>4, <2>5, <2>6
<1> QED  BY <1>1, BuilderAlwaysRight, RowsStoredAlways, ChunkRightAlways, PTL
=============================================================================
