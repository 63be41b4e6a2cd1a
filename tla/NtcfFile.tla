------------------------------ MODULE NtcfFile ------------------------------
(***************************************************************************)
(* A whole file as bytes: header and footer (internal/format), the schema  *)
(* descriptor (internal/schema), index blobs (internal/index), the layout  *)
(* of a segment (pkg/ntcf/writer.go) and the way back through store.Reader *)
(* (internal/store).                                                       *)
(*                                                                         *)
(* NtcfFormat looks at the same container from further away, as blocks     *)
(* that are whole or torn.  NtcfIndex says what an index is to mean; here  *)
(* it is laid out in bytes, its filter with real hash probes.              *)
(***************************************************************************)
EXTENDS NtcfChunk

CONSTANTS
    CRC32C(_),               \* util.CRC32C
    FormatVersion,           \* version.Format, the only one a reader supports
    MaxType,                 \* schema.TypeBool, the last logical type: 6
    MaxColumns,              \* util.MaxColumns
    MaxSegments,             \* util.MaxSegments
    MaxFooterSize,           \* util.MaxFooterSize
    WriterIDBytes,           \* bytes of Header.WriterID: 16
    BitsPerKey,              \* bits of a Bloom filter for each key: 9.59
    MaxProbes,               \* the most probes of a Bloom filter: 32
    OddHash,                 \* the second hash in place of zero
    MaxBloomWords,           \* the limit on a filter's words: 2^28
    BloomProbeCap,           \* distinct values counted before sizing by rows
    InvertedMaxCardinality   \* distinct values an inverted index may have

ASSUME FileAssumption ==
    /\ FormatVersion \in Nat \ {0} /\ MaxType \in Byte
    /\ {MaxColumns, MaxSegments, MaxFooterSize, WriterIDBytes, MaxBloomWords} \subseteq Nat
    /\ BitsPerKey \in Nat \ {0} /\ MaxProbes \in Byte \ {0} /\ OddHash \in Word \ {0}

(***************************************************************************)
(* Schema descriptor.  A column is its name, type and two flags.           *)
(***************************************************************************)
BytesTypes == {1, 4, 5}    \* TypeIP, TypeEnum, TypeString

KindOf(type) == IF type \in BytesTypes THEN "bytes" ELSE "int"

Valid(schema) ==
    /\ schema.columns # <<>> /\ Len(schema.columns) <= MaxColumns
    /\ \A i \in DOMAIN schema.columns :
          /\ schema.columns[i].name # <<>>
          /\ schema.columns[i].type <= MaxType
          /\ \A j \in DOMAIN schema.columns :
                schema.columns[i].name = schema.columns[j].name => i = j

AppendDescriptor(schema) ==
    Emit(<< <<"u32", schema.id>>, <<"name", schema.name>>, <<"u16", schema.version>>,
            <<"uvarint", Len(schema.columns)>> >>)
    \o FlattenSeq([i \in DOMAIN schema.columns |->
           LET col == schema.columns[i]
           IN  Emit(<< <<"name", col.name>>, <<"u8", col.type>>,
                       <<"u8", FlagBits(<<col.indexed, col.nullable>>)>> >>)])

ReadColumns(c, n) ==
    [i \in 1 .. n |->
        LET e == Entry(c, 4, 3, i)
        IN  [name |-> e[1], type |-> e[2], indexed |-> HasFlag(e[3], 1),
             nullable |-> HasFlag(e[3], 2)]]

SchemaOf(c) ==
    [id |-> c.out[1], name |-> c.out[2], version |-> c.out[3], columns |-> ReadColumns(c, c.out[4])]

\* The schema, when it is a valid one, and the cursor behind the descriptor.
Validated(schema, c) ==
    Provided(Valid(schema), [ok |-> TRUE, schema |-> schema, cursor |-> [c EXCEPT !.out = <<>>]])

ReadDescriptor(cursor) ==
    Then(Reads(cursor, <<"u32", "name", "u16", "uvarint">>), LAMBDA c :
    IF c.out[4] > MaxColumns THEN Failed
    ELSE Then(ReadsEach(c, Times(c.out[4], <<"name", "u8", "u8">>)), LAMBDA d :
             Validated(SchemaOf(d), d)))

(***************************************************************************)
(* Header.                                                                 *)
(***************************************************************************)
HeaderSize == Len(Magic) + 2 * ShortBytes + WordBytes + WriterIDBytes + HalfBytes

Checked(body) == body \o LittleEndian(CRC32C(body), HalfBytes)

AppendHeader(h) ==
    Checked(Emit(<< <<"raw", Magic>>, <<"u16", h.version>>, <<"u16", h.flags>>,
                    <<"u64", h.created>>, <<"raw", h.writerID>> >>))

HeaderFields == <<"magic", "u16", "u16", "u64">>

ReadHeaderBody(body) ==
    Then(Reads(NewCursor(body), HeaderFields), LAMBDA c :
    Then(Bytes(c, WriterIDBytes), LAMBDA d :
        Provided(d.out[2] = FormatVersion,
                 [ok |-> TRUE, header |-> [version |-> d.out[2], flags |-> d.out[3],
                                           created |-> d.out[4], writerID |-> d.out[5]]])))

\* A body followed by its CRC.
ReadChecked(body, crc) == IF CRC32C(body) = crc THEN ReadHeaderBody(body) ELSE Failed

ReadHeader(file) ==
    IF Len(file) < HeaderSize THEN Failed
    ELSE ReadChecked(SubSeq(file, 1, HeaderSize - HalfBytes),
                     ReadLE(file, HeaderSize - HalfBytes, HalfBytes))

(***************************************************************************)
(* Footer.  Minimum and maximum of a column are words or strings, as its   *)
(* type says; the body carries a CRC and ends the file with the magic.     *)
(***************************************************************************)
Bound(kind, v) == IF kind = "int" THEN <<"u64", v>> ELSE <<"value", v>>

AppendDir(col, kind) ==
    Emit(<< <<"u64", col.chunkOffset>>, <<"u64", col.chunkLength>>,
            <<"u64", col.indexOffset>>, <<"u64", col.indexLength>>,
            <<"u8", FlagBits(<<col.hasNulls>>)>>, <<"uvarint", col.nonNull>>,
            Bound(kind, col.min), Bound(kind, col.max) >>)

AppendSegmentDir(seg, kinds) ==
    Emit(<< <<"u64", seg.offset>>, <<"u64", seg.length>>, <<"uvarint", seg.rows>>,
            <<"u64", seg.minTS>>, <<"u64", seg.maxTS>>, <<"uvarint", Len(seg.columns)>> >>)
    \o FlattenSeq([j \in DOMAIN seg.columns |-> AppendDir(seg.columns[j], kinds[j])])

KindsOf(schema) == [j \in DOMAIN schema.columns |-> KindOf(schema.columns[j].type)]

FooterBody(f) ==
    AppendDescriptor(f.schema)
    \o Emit(<< <<"name", f.sourceType>>, <<"u64", f.totalRows>>,
               <<"u64", f.minTS>>, <<"u64", f.maxTS>>, <<"uvarint", Len(f.segments)>> >>)
    \o FlattenSeq([i \in DOMAIN f.segments |->
                      AppendSegmentDir(f.segments[i], KindsOf(f.schema))])

Trailed(body) ==
    body \o Emit(<< <<"u32", Len(body)>>, <<"u32", CRC32C(body)>>, <<"raw", Magic>> >>)

AppendFooter(f) == Trailed(FooterBody(f))

FooterFields == <<"name", "u64", "u64", "u64", "uvarint">>

BoundField(kind) == IF kind = "int" THEN "u64" ELSE "value"

DirFields(kind) ==
    <<"u64", "u64", "u64", "u64", "u8", "uvarint", BoundField(kind), BoundField(kind)>>

SegmentBatches(kinds) ==
    << <<"u64", "u64", "uvarint", "u64", "u64", "uvarint">> >>
    \o [j \in DOMAIN kinds |-> DirFields(kinds[j])]

\* Columns of a segment whose reads are e.
DirsOf(e, n) ==
    [j \in 1 .. n |->
        LET d == SubSeq(e, 6 + 8 * (j - 1) + 1, 6 + 8 * j)
        IN  [chunkOffset |-> d[1], chunkLength |-> d[2], indexOffset |-> d[3],
             indexLength |-> d[4], hasNulls |-> HasFlag(d[5], 1), nonNull |-> d[6],
             min |-> d[7], max |-> d[8]]]

SegmentOf(e, n) ==
    [offset |-> e[1], length |-> e[2], rows |-> e[3], minTS |-> e[4], maxTS |-> e[5],
     columns |-> DirsOf(e, n)]

\* The reads of segment i, the count of its columns among them.
SegmentReads(c, n, i) == Entry(c, 5, 6 + 8 * n, i)

SegmentsOf(c, n) ==
    Provided(\A i \in 1 .. c.out[5] : SegmentReads(c, n, i)[6] = n,
             [ok |-> TRUE, segments |-> [i \in 1 .. c.out[5] |-> SegmentOf(SegmentReads(c, n, i), n)]])

ReadSegments(c, kinds) ==
    IF c.out[5] > MaxSegments THEN Failed
    ELSE Then(ReadsEach(c, FlattenSeq(Times(c.out[5], SegmentBatches(kinds)))), LAMBDA d :
             SegmentsOf(d, Len(kinds)))

ReadBody(body) ==
    Then(ReadDescriptor(NewCursor(body)), LAMBDA s :
    Then(Reads(s.cursor, FooterFields), LAMBDA c :
    Then(ReadSegments(c, KindsOf(s.schema)), LAMBDA r :
        [ok |-> TRUE,
         footer |-> [schema |-> s.schema, sourceType |-> c.out[1], totalRows |-> c.out[2],
                     minTS |-> c.out[3], maxTS |-> c.out[4], segments |-> r.segments]])))

FooterTrailer == 2 * HalfBytes + Len(Magic)

BodyOf(file, bodyLen) ==
    SubSeq(file, Len(file) - FooterTrailer - bodyLen + 1, Len(file) - FooterTrailer)

ReadFooterBody(body, crc) == IF CRC32C(body) = crc THEN ReadBody(body) ELSE Failed

ReadFooter(file) ==
    LET bodyEnd == Len(file) - FooterTrailer
        bodyLen == ReadLE(file, bodyEnd, HalfBytes)
    IN  IF /\ Len(file) >= HeaderSize + FooterTrailer
           /\ SubSeq(file, Len(file) - Len(Magic) + 1, Len(file)) = Magic
           /\ bodyLen <= MaxFooterSize /\ bodyLen <= bodyEnd - HeaderSize
        THEN ReadFooterBody(BodyOf(file, bodyLen), ReadLE(file, bodyEnd + HalfBytes, HalfBytes))
        ELSE Failed

(***************************************************************************)
(* Bloom filters.  A key is hashed once; the probes step from its digest   *)
(* by a second hash, the digest with its halves swapped, and wrap.         *)
(***************************************************************************)
Key(kind, v) == IF kind = "int" THEN LittleEndian(v, WordBytes) ELSE Texts[v + 1]

BloomWords(n) == (n * BitsPerKey + WordBits - 1) \div WordBits

\* The rounded words * WordBits / n * ln 2, between 1 and MaxProbes.
BloomProbes(n) ==
    LET k == ((BloomWords(n) * WordBits * 69) \div n + 50) \div 100
    IN  IF k > MaxProbes THEN MaxProbes ELSE IF k < 1 THEN 1 ELSE k

SecondHash(h) ==
    LET half == Pow2[WordBits \div 2]
        h2   == h \div (2 * half) + (h % (2 * half)) * (half \div 2)
    IN  IF h2 = 0 THEN OddHash ELSE h2

ProbeBits(hash, words, k) ==
    {Wrap(hash + i * SecondHash(hash)) % (words * WordBits) : i \in 0 .. (k - 1)}

\* The filter of a set of keys, sized for n of them.
BloomOf(keys, n) ==
    LET words == BloomWords(n)
        bits  == UNION {ProbeBits(XXH64(x), words, BloomProbes(n)) : x \in keys}
    IN  [k |-> BloomProbes(n),
         words |-> [w \in 1 .. words |->
                       Total([j \in 1 .. WordBits |->
                                 IF (w - 1) * WordBits + j - 1 \in bits THEN Pow2[j - 1] ELSE 0],
                             WordBits)]]

MayContain(bloom, key) ==
    \A bit \in ProbeBits(XXH64(key), Len(bloom.words), bloom.k) :
        (bloom.words[bit \div WordBits + 1] \div Pow2[bit % WordBits]) % 2 = 1

(***************************************************************************)
(* Index blobs.  The bytes of a Roaring bitmap are the library's own; a    *)
(* word with a bit for each row stands for them.                           *)
(***************************************************************************)
\* What NtcfIndex builds for a column; Probes, which it leaves open, is not
\* needed for the parts used here.
Ix(WithInverted, Probes(_, _)) == INSTANCE NtcfIndex

Index(b, withInverted) == Ix(withInverted, LAMBDA n, v : {})!BuildColumn(b)

BloomKeys(b) == Ix(FALSE, LAMBDA n, v : {})!BloomKeys(b)

MarshalBitmap(rows) ==
    LittleEndian(Total([i \in 1 .. WordBits |-> IF i \in rows THEN Pow2[i - 1] ELSE 0], WordBits),
                 WordBytes)

UnmarshalBitmap(raw) == {i \in 1 .. WordBits : (ReadLE(raw, 0, WordBytes) \div Pow2[i - 1]) % 2 = 1}

KeyField(kind) == IF kind = "int" THEN "uvarint" ELSE "value"

\* The value of rank v, as a posting list is headed by it.
KeyValue(kind, v) == IF kind = "int" THEN v ELSE Texts[v + 1]

AppendInverted(kind, postings) ==
    LET keys == SetToSortSeq(DOMAIN postings, LAMBDA u, v : u < v)
    IN  Emit(<< <<"u8", Kinds[kind]>>, <<"uvarint", Len(keys)>> >>)
        \o FlattenSeq([i \in DOMAIN keys |->
               Emit(<< <<KeyField(kind), KeyValue(kind, keys[i])>>,
                       <<"blob", MarshalBitmap(postings[keys[i]])>> >>)])

AppendBloom(bloom) ==
    Emit(<< <<"u8", bloom.k>>, <<"uvarint", Len(bloom.words)>> >>
         \o [w \in DOMAIN bloom.words |-> <<"u64", bloom.words[w]>>])

\* The blob of ix, an index of NtcfIndex, over these keys.
AppendIx(kind, ix, keys, n) ==
    Emit(<< <<"u8", FlagBits(<<ix.bloom, ix.inverted>>)>> >>)
    \o AppendBloom(BloomOf(keys, n))
    \o (IF ix.inverted THEN AppendInverted(kind, ix.postings) ELSE <<>>)

AppendIndex(kind, b, withInverted) ==
    AppendIx(kind, Index(b, withInverted), {Key(kind, v) : v \in PresentValues(b)}, BloomKeys(b))

NoBloom == [k |-> 0, words |-> <<>>]

\* The cursor behind the filter, its only result the filter itself.
ReadBloom(cursor) ==
    Then(Reads(cursor, <<"u8", "uvarint">>), LAMBDA c :
    IF c.out[2] > MaxBloomWords \/ c.out[2] = 0 \/ c.out[1] = 0 THEN Failed
    ELSE Then(ReadsEach(c, Times(c.out[2], <<"u64">>)), LAMBDA d :
             [ok |-> TRUE, cursor |-> [d EXCEPT !.out = <<>>],
              bloom |-> [k |-> d.out[1], words |-> SubSeq(d.out, 3, Len(d.out))]]))

\* A later entry of the same key takes the place of an earlier one.
Postings(c, n) ==
    LET key(i)  == Entry(c, 2, 2, i)[1]
        rows(i) == UnmarshalBitmap(Entry(c, 2, 2, i)[2])
    IN  [x \in {key(i) : i \in 1 .. n} |-> rows(Max({i \in 1 .. n : key(i) = x}))]

InvertedFields(kind) == <<KeyField(IF kind = 0 THEN "int" ELSE "bytes"), "blob">>

Unmarshalled(c, n) ==
    Provided(\A i \in 1 .. n : Len(Entry(c, 2, 2, i)[2]) = WordBytes,
             [ok |-> TRUE, postings |-> Postings(c, n)])

ReadInverted(cursor) ==
    Then(Reads(cursor, <<"u8", "uvarint">>), LAMBDA c :
    IF c.out[2] > InvertedMaxCardinality \/ c.out[1] > 1 THEN Failed
    ELSE Then(ReadsEach(c, Times(c.out[2], InvertedFields(c.out[1]))), LAMBDA d :
             Unmarshalled(d, d.out[2])))

EmptyIndex == [ok |-> TRUE, hasBloom |-> FALSE, bloom |-> NoBloom, hasInverted |-> FALSE,
               postings |-> <<>>]

ReadParts(has(_), cursor) ==
    Then(IF has(1) THEN ReadBloom(cursor) ELSE [ok |-> TRUE, cursor |-> cursor, bloom |-> NoBloom],
         LAMBDA bl :
    Then(IF has(2) THEN ReadInverted(bl.cursor) ELSE [ok |-> TRUE, postings |-> <<>>], LAMBDA iv :
        [ok |-> TRUE, hasBloom |-> has(1), bloom |-> bl.bloom, hasInverted |-> has(2),
         postings |-> iv.postings]))

ReadColumnIndex(raw) ==
    IF raw = <<>> THEN EmptyIndex
    ELSE Then(Reads(NewCursor(raw), <<"u8">>), LAMBDA c :
             ReadParts(LAMBDA j : HasFlag(c.out[1], j), [c EXCEPT !.out = <<>>]))

(***************************************************************************)
(* flushSegment: the chunk of each column and, behind it, its index blob.  *)
(* cols is the builder of every column, s the file so far and what the     *)
(* directory of the segment has.                                           *)
(***************************************************************************)
BoundOf(kind, v) == IF kind = "int" THEN v ELSE Texts[v + 1]

\* A slip: the entry of the index is where the chunk begins.
IndexAtChunk(start, chunk) == start

IndexOffset(start, chunk) == start + Len(chunk)

ColumnDir(start, chunk, ix, st, kind) ==
    [chunkOffset |-> start, chunkLength |-> Len(chunk),
     indexOffset |-> IF ix = <<>> THEN 0 ELSE IndexOffset(start, chunk), indexLength |-> Len(ix),
     hasNulls |-> st.hasNulls, nonNull |-> st.nonNull,
     min |-> BoundOf(kind, st.min), max |-> BoundOf(kind, st.max)]

WriteColumn(s, kind, b, chunk, ix) ==
    [file |-> s.file \o chunk \o ix,
     columns |-> Append(s.columns, ColumnDir(Len(s.file), chunk, ix, Stats(b), kind))]

FlushColumn(s, col, kind, b, entropy, withInverted) ==
    WriteColumn(s, kind, b, EncodeChunk(kind, b, entropy),
                IF col.indexed THEN AppendIndex(kind, b, withInverted) ELSE <<>>)

\* The directory entry of a segment; the times are those of its first column.
SegmentDir(start, s, times) ==
    [file |-> s.file,
     segment |-> [offset |-> start, length |-> Len(s.file) - start, rows |-> Rows(times),
                  minTS |-> Stats(times).min, maxTS |-> Stats(times).max, columns |-> s.columns]]

FlushSegment(file, schema, cols, entropy, withInverted) ==
    SegmentDir(Len(file),
               FoldLeft(LAMBDA s, j : FlushColumn(s, schema.columns[j],
                                                  KindOf(schema.columns[j].type), cols[j],
                                                  entropy, withInverted),
                        [file |-> file, columns |-> <<>>], [j \in DOMAIN cols |-> j]),
               cols[1])

(***************************************************************************)
(* store.Reader: New, Recover, Column and Index.                           *)
(***************************************************************************)
Open(file) ==
    Then(ReadHeader(file), LAMBDA h :
    Then(ReadFooter(file), LAMBDA f :
        [ok |-> TRUE, header |-> h.header, footer |-> f.footer]))

\* RecoverFooter: the latest end in front of which a footer reads, among those
\* that carry the magic.
EndsInMagic(file, end) == SubSeq(file, end - Len(Magic) + 1, end) = Magic

\* A slip: the scan gives up at the first magic it meets.
LatestMagicOnly(file) ==
    LET ends == {end \in (HeaderSize + FooterTrailer) .. Len(file) : EndsInMagic(file, end)}
    IN  {end \in ends : end = Max(ends) /\ ReadFooter(SubSeq(file, 1, end)).ok}

FooterEnds(file) ==
    {end \in (HeaderSize + FooterTrailer) .. Len(file) :
        EndsInMagic(file, end) /\ ReadFooter(SubSeq(file, 1, end)).ok}

RecoverFooter(file, ends) ==
    IF ends = {} THEN Failed ELSE ReadFooter(SubSeq(file, 1, Max(ends)))

FooterOrRecovered(file, f) == IF f.ok THEN f ELSE RecoverFooter(file, FooterEnds(file))

Recover(file) ==
    Then(ReadHeader(file), LAMBDA h :
    Then(FooterOrRecovered(file, ReadFooter(file)), LAMBDA f :
        [ok |-> TRUE, header |-> h.header, footer |-> f.footer]))

Slice(file, off, length) ==
    Provided(off + length <= Len(file),
             [ok |-> TRUE, bytes |-> SubSeq(file, off + 1, off + length)])

Column(file, dir) ==
    Then(Slice(file, dir.chunkOffset, dir.chunkLength), LAMBDA raw : DecodeChunk(raw.bytes))

ColumnIndex(file, dir) ==
    IF dir.indexLength = 0 THEN EmptyIndex
    ELSE Then(Slice(file, dir.indexOffset, dir.indexLength), LAMBDA raw : ReadColumnIndex(raw.bytes))
=============================================================================
