------------------------------ MODULE NtcfStore ------------------------------
(***************************************************************************)
(* One column of a segment on its way to disk and back.                    *)
(*                                                                         *)
(* A builder takes its rows.  Either its chunk alone is made and decoded,  *)
(* or a file is written around it: a schema of a timestamp and the column, *)
(* segments with their index blobs, a footer after each and at the end.    *)
(* The file may then be cut short or have one byte changed, and a reader   *)
(* opens or recovers it and reads every column and index there is.         *)
(***************************************************************************)
EXTENDS NtcfFile

CONSTANTS
    Families,     \* families of columns: kind, cells, most rows, whether in files
    Codecs,       \* entropy codecs a writer is set to
    Damages,      \* what may be added to a byte that storage changes
    MaxTimes      \* the most segments written

ASSUME StoreAssumption ==
    /\ \A f \in Families : /\ f.kind \in {"int", "bytes"}
                           /\ f.cells \subseteq Word \cup {Null}
                           /\ f.kind = "bytes" => f.cells \subseteq Ranks \cup {Null}
                           /\ f.rows \in 0 .. (HalfWord - 1) /\ f.file \in BOOLEAN
    /\ Codecs \subseteq {"none", "zstd", "lz4"}
    /\ Damages \subseteq Byte \ {0} /\ MaxTimes \in Nat

VARIABLES
    family,  \* the family the column is of
    cells,   \* history: the cells appended
    b,       \* the builder
    chunk,   \* what Encode made of it
    data,    \* what DecodeChunk made of that
    file,    \* the bytes of the file
    wrote,   \* history: the file, its footers and the options of its writer
    hit,     \* what storage did to the file
    got,     \* what a reader got
    phase    \* "build", "stored", "read", "closed", "damaged", "opened", "recovered"

vars == <<family, cells, b, chunk, data, file, wrote, hit, got, phase>>

kind == family.kind

NoHit == [how |-> "none", at |-> 0]

Init ==
    /\ family \in Families
    /\ cells = <<>>
    /\ b = NewBuilder
    /\ chunk = <<>>
    /\ data = Failed
    /\ file = <<>>
    /\ wrote = Failed
    /\ hit = NoHit
    /\ got = Failed
    /\ phase = "build"

AppendValueOrNull ==
    /\ phase = "build"
    /\ Len(cells) < family.rows
    /\ \E c \in family.cells :
          /\ cells' = Append(cells, c)
          /\ b' = AppendCell(b, c)
    /\ UNCHANGED <<family, chunk, data, file, wrote, hit, got, phase>>

Encode ==
    /\ phase = "build"
    /\ Rows(b) > 0
    /\ \E entropy \in Codecs : chunk' = EncodeChunk(kind, b, entropy)
    /\ phase' = "stored"
    /\ UNCHANGED <<family, cells, b, data, file, wrote, hit, got>>

Decode ==
    /\ phase = "stored"
    /\ data' = DecodeChunk(chunk)
    /\ phase' = "read"
    /\ UNCHANGED <<family, cells, b, chunk, file, wrote, hit, got>>

(***************************************************************************)
(* A file of `times` segments, each with the rows of the column next to a  *)
(* column of ascending times and each followed by a checkpoint, and the    *)
(* footer of Close.                                                        *)
(***************************************************************************)
Schema ==
    [id |-> 1, name |-> <<2>>, version |-> 1,
     columns |-> << [name |-> <<3>>, type |-> 0, indexed |-> FALSE, nullable |-> FALSE],
                    [name |-> <<4, 3>>, type |-> IF kind = "int" THEN 2 ELSE 5,
                     indexed |-> TRUE, nullable |-> TRUE] >>]

TimeColumn == [vals |-> [i \in 1 .. Rows(b) |-> i], present |-> <<>>]

Builders == <<TimeColumn, b>>

Header == [version |-> FormatVersion, flags |-> 0, created |-> 7,
           writerID |-> [i \in 1 .. WriterIDBytes |-> 5]]

FooterOf(segments) ==
    [schema |-> Schema, sourceType |-> <<6>>, totalRows |-> Len(segments) * Rows(b),
     minTS |-> IF segments = <<>> THEN 0 ELSE 1, maxTS |-> IF segments = <<>> THEN 0 ELSE Rows(b),
     segments |-> segments]

\* A footer at the end of what there is; it is remembered with its place.
AddFooter(s) ==
    LET bytes == AppendFooter(FooterOf(s.segments))
    IN  [file |-> s.file \o bytes, segments |-> s.segments,
         footers |-> Append(s.footers, [start |-> Len(s.file), end |-> Len(s.file) + Len(bytes),
                                        footer |-> FooterOf(s.segments)])]

\* A segment and the footer of a checkpoint.
AddSegment(s, flushed) ==
    AddFooter([s EXCEPT !.file = flushed.file, !.segments = Append(@, flushed.segment)])

Checkpointed(times, entropy, withInverted) ==
    FoldLeft(LAMBDA s, t : AddSegment(s, FlushSegment(s.file, Schema, Builders, entropy, withInverted)),
             [file |-> AppendHeader(Header), segments |-> <<>>, footers |-> <<>>],
             [t \in 1 .. times |-> t])

WithOptions(s, withInverted) ==
    [ok |-> TRUE, file |-> s.file, footers |-> s.footers, inverted |-> withInverted]

Write ==
    /\ phase = "build" /\ family.file
    /\ \E times \in 0 .. MaxTimes, entropy \in Codecs, withInverted \in BOOLEAN :
          /\ times = 0 <=> Rows(b) = 0
          /\ wrote' = WithOptions(AddFooter(Checkpointed(times, entropy, withInverted)), withInverted)
    /\ file' = wrote'.file
    /\ phase' = "closed"
    /\ UNCHANGED <<family, cells, b, chunk, data, hit, got>>

(***************************************************************************)
(* What storage may do, and the reader.                                    *)
(***************************************************************************)
Cut ==
    /\ phase = "closed"
    /\ \E n \in 0 .. (Len(file) - 1) :
          /\ file' = SubSeq(file, 1, n)
          /\ hit' = [how |-> "cut", at |-> n]
    /\ phase' = "damaged"
    /\ UNCHANGED <<family, cells, b, chunk, data, wrote, got>>

Change ==
    /\ phase = "closed"
    /\ \E n \in DOMAIN file, d \in Damages :
          /\ file' = [file EXCEPT ![n] = (@ + d) % ByteSize]
          /\ hit' = [how |-> "change", at |-> n]
    /\ phase' = "damaged"
    /\ UNCHANGED <<family, cells, b, chunk, data, wrote, got>>

\* Every column and every index of every segment.
EachColumn(segs, F(_)) ==
    [i \in DOMAIN segs |-> [j \in DOMAIN segs[i].columns |-> F(segs[i].columns[j])]]

ReadAll(r) ==
    Then(r, LAMBDA s :
        [ok |-> TRUE, header |-> s.header, footer |-> s.footer,
         data |-> EachColumn(s.footer.segments, LAMBDA dir : Column(file, dir)),
         index |-> EachColumn(s.footer.segments, LAMBDA dir : ColumnIndex(file, dir))])

OpenFile ==
    /\ phase \in {"closed", "damaged"}
    /\ got' = ReadAll(Open(file))
    /\ phase' = "opened"
    /\ UNCHANGED <<family, cells, b, chunk, data, file, wrote, hit>>

RecoverFile ==
    /\ phase \in {"closed", "damaged"}
    /\ got' = ReadAll(Recover(file))
    /\ phase' = "recovered"
    /\ UNCHANGED <<family, cells, b, chunk, data, file, wrote, hit>>

Next ==
    \/ AppendValueOrNull
    \/ Encode
    \/ Decode
    \/ Write
    \/ Cut
    \/ Change
    \/ OpenFile
    \/ RecoverFile

Spec == Init /\ [][Next]_vars

(***************************************************************************)
(* Properties of chunks.                                                   *)
(***************************************************************************)
Gives(r, vals) == r.ok /\ r.vals = vals

\* A reader takes strings up to a limit the writer does not know of.
TooLong == kind = "bytes" /\ \E v \in PresentValues(b) : Len(Texts[v + 1]) > MaxBytesValue

\* It also takes so many entries and so many bytes of a dictionary, and the
\* writer does not look at the bytes.
TableTooBig ==
    \/ Cardinality(ToSet(b.vals)) > MaxDictEntries
    \/ /\ kind = "bytes"
       /\ Len(FlattenSeq(StringTable(Strings(b.vals)))) > MaxStringTable

TableTaken(id) == id = "dict" => ~ TableTooBig

\* Whichever codec the chooser had picked, its decoder gives back the very
\* values of the column, over the whole range of words (encoding.go:6-9), up
\* to the longest string and the biggest dictionary a reader takes.
EveryCodecExact ==
    phase = "build" /\ Rows(b) > 0 /\ ~ TooLong =>
        IF kind = "int"
        THEN \A id \in IntCodecs : TableTaken(id) =>
                 Gives(DecodeInts(id, EncodeInts(id, b.vals), Rows(b)), b.vals)
        ELSE LET s == Strings(b.vals)
             IN  \A id \in BytesCodecs : TableTaken(id) =>
                     Gives(DecodeBytes(id, EncodeBytes(id, s), Rows(b)), s)

\* No decoder takes a payload that was cut short for a whole one: it runs out
\* of bytes before it has its rows, whatever the codec (errTruncated).
CutPayloadFails ==
    phase = "stored" =>
        LET e == Encoded(kind, b)
        IN  \A n \in 0 .. (Len(e.data) - 1) :
                ~ DecodeValues(Kinds[kind], IdOf(kind, e.id), SubSeq(e.data, 1, n), Rows(b)).ok

\* The words the packer flushes are one stream of bits, in which bit t is bit
\* t % width of value t \div width; no bit is lost where a value crosses a word
\* (bitpack.go:5-13).
PackedIsBitStream ==
    phase = "build" /\ Rows(b) > 0 /\ kind = "int" =>
        \A width \in 1 .. WordBits :
            LET bit(t) == IF t < Rows(b) * width
                          THEN (b.vals[t \div width + 1] \div Pow2[t % width]) % 2 ELSE 0
                byte(k) == Total([j \in 1 .. ByteBits |->
                                     bit((k - 1) * ByteBits + j - 1) * Pow2[j - 1]], ByteBits)
            IN  AppendPacked(b.vals, width) =
                    [k \in 1 .. PackedBytes(Rows(b), width) |-> byte(k)]

Vals(k, col) == IF k = "int" THEN col.vals ELSE Strings(col.vals)

\* A decoded vector has the values and the nulls of this builder.
SameVector(d, k, col) ==
    /\ d.ok
    /\ d.kind = Kinds[k] /\ d.vals = Vals(k, col)
    /\ \A i \in 1 .. Rows(col) : ~ IsNull(d, i) <=> Present(col, i)

HeaderOf(raw) == ChunkHeader(Reads(NewCursor(raw), ChunkFields))

\* What a reader refuses although a writer made it.
Refused(raw) ==
    \/ TooManyRows(HeaderOf(raw))
    \/ TooManyBytes(HeaderOf(raw))
    \/ RatioExceeded(HeaderOf(raw))
    \/ TableTooBig /\ HeaderOf(raw).enc = IdOf(kind, "dict")

\* What the code takes from the libraries, for these bytes: a digest is a word,
\* and a block gives back the bytes it was made of; LZ4 alone may have none.
EntropyRightFor(s) ==
    /\ XXH64(s) \in Word
    /\ Squeeze(s) \in Seq(Byte)
    /\ \/ Expand(Squeeze(s)) = Whole(s)
       \/ Squeeze(s) = <<>> /\ "zstd" \notin Codecs

EntropyRight == \A s \in Seq(Byte) : EntropyRightFor(s)

\* The length of a payload that a chunk states is an unsigned 64-bit number.
PayloadFits == Rows(b) > 0 => Len(Encoded(kind, b).data) \in Word

\* A chunk that Encode made reads back cell by cell, nulls included, with any
\* entropy codec, unless it is refused for its rows, its bytes, for how far it
\* was compressed, for its dictionary or for a string over the limit.
ReadsBackOrRefused ==
    phase = "read" =>
        /\ data.ok => \A i \in DOMAIN cells : IsNull(data, i) <=> cells[i] = Null
        /\ SameVector(data, kind, b) \/ Refused(chunk) \/ TooLong

\* Given only its bytes, a chunk reconstructs its values and nulls
\* (chunk.go:31-32).
ReadsBack ==
    phase = "read" => SameVector(data, kind, b)

(***************************************************************************)
(* Properties of files.                                                    *)
(***************************************************************************)
Chunk(dir) == SubSeq(wrote.file, dir.chunkOffset + 1, dir.chunkOffset + dir.chunkLength)

\* The filter never denies a value that is there, and the posting lists are
\* the ones NtcfIndex defines.
SameIndex(x) ==
    LET ix == Index(b, wrote.inverted)
    IN  /\ x.ok /\ x.hasBloom = ix.bloom /\ x.hasInverted = ix.inverted
        /\ \A v \in PresentValues(b) : MayContain(x.bloom, Key(kind, v))
        /\ ix.inverted =>
              /\ DOMAIN x.postings = {KeyValue(kind, v) : v \in DOMAIN ix.postings}
              /\ \A v \in DOMAIN ix.postings : x.postings[KeyValue(kind, v)] = ix.postings[v]

\* A zone map holds a string over the limit.
BoundTooLong ==
    kind = "bytes" /\ \E v \in {Stats(b).min, Stats(b).max} : Len(Texts[v + 1]) > MaxBytesValue

\* Segment i is the one that was written, or a reader refuses what it may.
SegmentRight(i) ==
    LET dirs == got.footer.segments[i].columns
    IN  /\ SameVector(got.data[i][1], "int", TimeColumn) \/ Refused(Chunk(dirs[1]))
        /\ SameVector(got.data[i][2], kind, b) \/ Refused(Chunk(dirs[2])) \/ TooLong
        /\ got.index[i][1] = EmptyIndex
        /\ SameIndex(got.index[i][2]) \/ TooLong

\* Header, schema, totals, directory and zone maps as they were written, every
\* vector and every index as it was built.
GivesBack(footer) ==
    /\ got.header = Header /\ got.footer = footer
    /\ \A i \in DOMAIN got.data : SegmentRight(i)

\* A file that nothing happened to opens and gives everything back, unless one
\* of its strings is over the limit and a zone map has it: then the whole file
\* is refused, whatever else is in it (footer.go:170-180).
FileReadsBack ==
    phase \in {"opened", "recovered"} /\ hit = NoHit =>
        /\ got.ok <=> ~ BoundTooLong
        /\ got.ok => GivesBack(Last(wrote.footers).footer)

\* The footers that are whole in the first n bytes.
WholeFooters(n) == {k \in DOMAIN wrote.footers : wrote.footers[k].end <= n}

\* A file that was cut short opens where a footer ends and nowhere else, and
\* recovers to the last whole footer and all it describes, also where a string
\* or a torn footer ends in the bytes of the magic (recover.go:9-18).
CutGivesBackFooters ==
    phase \in {"opened", "recovered"} /\ hit.how = "cut" /\ ~ BoundTooLong =>
        LET whole == WholeFooters(hit.at)
            last  == wrote.footers[Max(whole)]
        IN  /\ got.ok <=> whole # {} /\ (phase = "opened" => last.end = hit.at)
            /\ got.ok => GivesBack(last.footer)

\* Everything that was read, was read without an error.
AllRead ==
    /\ got.ok
    /\ \A i \in DOMAIN got.data, j \in {1, 2} : got.data[i][j].ok /\ got.index[i][j].ok

\* The bytes under a checksum: header, the last footer with its trailer, and of
\* each chunk the checksum and the payload stored behind it.
Protected(n) ==
    \/ n <= HeaderSize \/ n > Last(wrote.footers).start
    \/ \E i \in DOMAIN Last(wrote.footers).footer.segments, j \in {1, 2} :
          LET dir == Last(wrote.footers).footer.segments[i].columns[j]
              end == dir.chunkOffset + dir.chunkLength
          IN  n \in (end - HeaderOf(Chunk(dir)).storedLen - WordBytes + 1) .. end

\* A changed byte of the header, the footer, a payload or a checksum is an
\* error of open or of the column, never another answer
\* (docs/Security.md:56-59).
ProtectedDamageDetected ==
    phase = "opened" /\ hit.how = "change" /\ AllRead => ~ Protected(hit.at)

\* Corruption is detected before the data is interpreted (docs/Security.md:59):
\* a changed byte is an error, or it changes nothing that is read.
DamageDetected ==
    phase = "opened" /\ hit.how = "change" /\ AllRead =>
        \A i \in DOMAIN got.data :
            /\ SameVector(got.data[i][1], "int", TimeColumn)
            /\ SameVector(got.data[i][2], kind, b)
            /\ SameIndex(got.index[i][2])
=============================================================================
