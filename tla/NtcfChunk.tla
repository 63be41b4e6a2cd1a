----------------------------- MODULE NtcfChunk -----------------------------
(***************************************************************************)
(* A column chunk as bytes: what Builder.Encode makes of a column of one   *)
(* segment with its two layers of compression and its null bitmap, and     *)
(* what DecodeChunk makes of any bytes, with the limits it enforces        *)
(* (internal/column/builder.go, chunk.go, column.go, internal/compress).   *)
(*                                                                         *)
(* In a column of strings the builder's values are ranks; Texts gives the  *)
(* strings, in bytewise order, the empty one first.                        *)
(***************************************************************************)
EXTENDS NtcfCursor

CONSTANTS
    Texts,                 \* the byte strings a value stands for
    Squeeze(_),            \* the block an entropy algorithm makes of bytes
    Expand(_),             \* its inverse, Failed where there is none
    XXH64(_),              \* util.XXH64
    FirstBytesId,          \* encoding.Raw, the first codec id for strings: 64
    MaxSegmentRows,        \* util.MaxSegmentRows
    MaxChunkUncompressed,  \* util.MaxChunkUncompressed
    MaxDecompressRatio     \* util.MaxDecompressRatio

\* The values that stand for a string.
Ranks == 0 .. (Len(Texts) - 1)

ASSUME ChunkAssumption ==
    /\ Texts \in Seq(Seq(Byte)) /\ 1 \in DOMAIN Texts /\ Texts[1] = <<>>
    /\ \A i \in DOMAIN Texts : Len(Texts[i]) \in Word
    /\ {MaxSegmentRows, MaxChunkUncompressed, MaxDecompressRatio} \subseteq Nat
    /\ {FirstBytesId, FirstBytesId + 2} \subseteq Byte /\ FirstBytesId > 6

(***************************************************************************)
(* The null bitmap: bit i of it is the mark of row i, least bit first.     *)
(***************************************************************************)
BitmapLen(rows) == (rows + ByteBits - 1) \div ByteBits

BitmapOf(marks) ==
    [k \in 1 .. BitmapLen(Len(marks)) |->
        Total([j \in 1 .. ByteBits |->
                  LET i == (k - 1) * ByteBits + j
                  IN  IF i <= Len(marks) THEN marks[i] * Pow2[j - 1] ELSE 0], ByteBits)]

\* A slip: the bits are read from the other end of the byte.
GetReversed(bits, i) ==
    (bits[(i - 1) \div ByteBits + 1] \div Pow2[ByteBits - 1 - ((i - 1) % ByteBits)]) % 2 = 1

GetMark(bits, i) == (bits[(i - 1) \div ByteBits + 1] \div Pow2[(i - 1) % ByteBits]) % 2 = 1

(***************************************************************************)
(* The entropy layer.  LZ4 marks its output: 0 before the bytes as they    *)
(* are, 1 before a block.  Every decompression knows the length it must    *)
(* come to.                                                                *)
(***************************************************************************)
CompressionIds == [none |-> 0, zstd |-> 1, lz4 |-> 2]

LZ4Compress(src) ==
    IF Squeeze(src) = <<>> \/ Len(Squeeze(src)) >= Len(src) THEN <<0>> \o src
    ELSE <<1>> \o Squeeze(src)

Compress(entropy, src) == IF entropy = "zstd" THEN Squeeze(src) ELSE LZ4Compress(src)

Whole(bytes) == [ok |-> TRUE, bytes |-> bytes]

LZ4Decompress(src) ==
    IF src = <<>> THEN Whole(<<>>)
    ELSE IF src[1] = 0 THEN Whole(Tail(src))
    ELSE IF src[1] = 1 THEN Expand(Tail(src))
    ELSE Failed

Expanded(comp, src) ==
    IF comp = 0 THEN Whole(src)
    ELSE IF comp = 1 THEN Expand(src)
    ELSE IF comp = 2 THEN LZ4Decompress(src)
    ELSE Failed

Decompress(comp, src, outLen) ==
    Then(Expanded(comp, src), LAMBDA r : Provided(Len(r.bytes) = outLen, r))

(***************************************************************************)
(* Encode.  The entropy codec's output is kept only when it is shorter.    *)
(***************************************************************************)
Kinds == [int |-> 0, bytes |-> 1]

IntIds == <<"plain", "varint", "delta", "dod", "rle", "bitpack", "dict">>

BytesIds == <<"raw", "dict", "rle">>

IdOf(kind, enc) ==
    IF kind = "int" THEN CHOOSE i \in 0 .. 6 : IntIds[i + 1] = enc
    ELSE CHOOSE i \in FirstBytesId .. (FirstBytesId + 2) : BytesIds[i - FirstBytesId + 1] = enc

Strings(vals) == [i \in DOMAIN vals |-> Texts[vals[i] + 1]]

\* What a column of this kind holds for the values of a builder.
Values(kind, b) == IF kind = "int" THEN b.vals ELSE Strings(b.vals)

Encoded(kind, b) ==
    IF kind = "int" THEN EncodeIntsAuto(b.vals) ELSE EncodeBytesAuto(Strings(b.vals))

Shorter(payload, entropy, cand) ==
    IF Len(cand) < Len(payload) THEN [comp |-> entropy, bytes |-> cand]
    ELSE [comp |-> "none", bytes |-> payload]

Stored(payload, entropy) ==
    Shorter(payload, entropy, IF entropy = "none" THEN payload ELSE Compress(entropy, payload))

\* Flags, lengths, bitmap and checksum before the stored bytes.
Framed(kind, e, stored, b) ==
    Emit(<< <<"u8", Kinds[kind]>>, <<"u8", IdOf(kind, e.id)>>,
            <<"u8", CompressionIds[stored.comp]>>, <<"u8", FlagBits(<<HasNulls(b)>>)>>,
            <<"uvarint", Rows(b)>>, <<"uvarint", Len(e.data)>>,
            <<"uvarint", Len(stored.bytes)>> >>
         \o (IF HasNulls(b) THEN << <<"blob", BitmapOf(b.present)>> >> ELSE <<>>)
         \o << <<"u64", XXH64(stored.bytes)>>, <<"raw", stored.bytes>> >>)

Pack(kind, e, b, entropy) == Framed(kind, e, Stored(e.data, entropy), b)

EncodeChunk(kind, b, entropy) == Pack(kind, Encoded(kind, b), b, entropy)

(***************************************************************************)
(* DecodeChunk.                                                            *)
(***************************************************************************)
ChunkFields == <<"u8", "u8", "u8", "u8", "uvarint", "uvarint", "uvarint">>

ChunkHeader(c) ==
    [kind |-> c.out[1], enc |-> c.out[2], comp |-> c.out[3], hasNulls |-> HasFlag(c.out[4], 1),
     rows |-> c.out[5], uncompressedLen |-> c.out[6], storedLen |-> c.out[7]]

TooManyRows(h) == h.rows > MaxSegmentRows

TooManyBytes(h) == h.storedLen > MaxBlob \/ h.uncompressedLen > MaxChunkUncompressed

RatioExceeded(h) == h.storedLen > 0 /\ h.uncompressedLen \div h.storedLen > MaxDecompressRatio

\* The bitmap, when there is one: its length must fit the rows.
FitsRows(c, h) == Provided(Len(Last(c.out)) = BitmapLen(h.rows), c)

ReadBitmap(c, h) ==
    IF h.hasNulls THEN Then(Counted(c, BitmapLen(h.rows)), LAMBDA d : FitsRows(d, h))
    ELSE Got(c, <<>>, c.pos)

DecodeValues(kind, enc, data, n) ==
    IF kind = 0 /\ enc < Len(IntIds) THEN DecodeInts(IntIds[enc + 1], data, n)
    ELSE IF kind = 1 /\ enc \in FirstBytesId .. (FirstBytesId + 2)
         THEN DecodeBytes(BytesIds[enc - FirstBytesId + 1], data, n)
    ELSE Failed

\* A slip: the digest is read and not compared.
DigestIgnored(stored, checksum) == TRUE

DigestMatches(stored, checksum) == XXH64(stored) = checksum

Decoded(h, bitmap, stored) ==
    Then(Decompress(h.comp, stored, h.uncompressedLen), LAMBDA e :
    Then(DecodeValues(h.kind, h.enc, e.bytes, h.rows), LAMBDA r :
        [ok |-> TRUE, kind |-> h.kind, vals |-> r.vals, hasNulls |-> h.hasNulls,
         present |-> bitmap]))

\* The checksum, and behind it the stored bytes.
DecodeBody(h, c) ==
    Then(Reads(c, <<"u64">>), LAMBDA d :
    Then(Bytes(d, h.storedLen), LAMBDA s :
        IF DigestMatches(s.out[10], s.out[9]) /\ ~ TooManyBytes(h) /\ ~ RatioExceeded(h)
        THEN Decoded(h, s.out[8], s.out[10]) ELSE Failed))

DecodeRest(h, c) ==
    IF TooManyRows(h) THEN Failed ELSE Then(ReadBitmap(c, h), LAMBDA d : DecodeBody(h, d))

DecodeChunk(raw) ==
    Then(Reads(NewCursor(raw), ChunkFields), LAMBDA c : DecodeRest(ChunkHeader(c), c))

\* Data.IsNull, else the value of row i.
IsNull(data, i) == data.hasNulls /\ ~ GetMark(data.present, i)
=============================================================================
