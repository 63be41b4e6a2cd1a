---------------------------- MODULE NtcfEncoding ----------------------------
(***************************************************************************)
(* The semantic codecs of internal/encoding, as functions from columns to  *)
(* payloads of bytes and back.                                             *)
(*                                                                         *)
(* The code has 8 bits to a byte and 8 bytes to a word; both are constants *)
(* here, so that every word and every place where a value crosses a byte   *)
(* or a word is within reach of an exhaustive check.  A read is a record   *)
(* with ok, what was read, and the place after it.                         *)
(***************************************************************************)
EXTENDS NtcfColumn, SequencesExt

CONSTANTS
    ByteBits,         \* bits of a byte: 8
    WordBytes,        \* bytes of a word: 8
    MaxBytesValue,    \* util.MaxBytesValue
    MaxDictEntries,   \* util.MaxDictEntries
    MaxStringTable,   \* util.MaxStringTableBytes
    DictProbeLimit    \* distinct values the encoder counts

WordBits == WordBytes * ByteBits

\* 2 to the n: a shift by n bits multiplies by it or divides by it.
Pow2[n \in Nat] == IF n = 0 THEN 1 ELSE 2 * Pow2[n - 1]

ByteSize == Pow2[ByteBits]

ASSUME EncodingAssumption ==
    /\ ByteBits \in Nat \ {0, 1}
    /\ WordBytes \in Nat \ {0}
    /\ 2 * HalfWord = Pow2[WordBits]
    /\ WordBits < ByteSize
    /\ {MaxBytesValue, MaxDictEntries, MaxStringTable} \subseteq Word
    /\ DictProbeLimit \in Nat \ {0}

Byte == 0 .. (ByteSize - 1)

\* uint64 arithmetic.
Wrap(x) == x % (2 * HalfWord)

\* The sum of f[1] to f[n].
Total(f, n) == LET s[k \in 0 .. n] == IF k = 0 THEN 0 ELSE s[k - 1] + f[k] IN s[n]

\* Little-endian bytes, and the value of k of them (zeros past the end).
LittleEndian(v, k) == [j \in 1 .. k |-> (v \div Pow2[ByteBits * (j - 1)]) % ByteSize]

ReadLE(src, pos, k) ==
    Total([j \in 1 .. k |-> IF pos + j <= Len(src) THEN src[pos + j] * Pow2[ByteBits * (j - 1)]
                           ELSE 0], k)

(***************************************************************************)
(* Varints (encoding/binary) and zigzag (util/varint.go).                  *)
(***************************************************************************)
Septet == ByteBits - 1

More == Pow2[Septet]

MaxVarintLen == (WordBits + Septet - 1) \div Septet

AppendUvarint(v) ==
    LET n == Min({k \in 1 .. MaxVarintLen : v < Pow2[Septet * k]})
    IN  [k \in 1 .. n |-> ((v \div Pow2[Septet * (k - 1)]) % More) + (IF k < n THEN More ELSE 0)]

Failed == [ok |-> FALSE]

\* What F makes of a read that did not fail.
Then(r, F(_)) == IF r.ok THEN F(r) ELSE Failed

Provided(cond, r) == IF cond THEN r ELSE Failed

Uvarint(data, pos) ==
    LET ends == {k \in (pos + 1) .. Len(data) : data[k] < More}
        n    == Min(ends) - pos
        v    == Total([k \in 1 .. n |-> (data[pos + k] % More) * Pow2[Septet * (k - 1)]], n)
    IN  IF ends = {} THEN Failed
        ELSE IF n > MaxVarintLen \/ v >= 2 * HalfWord THEN Failed
             ELSE [ok |-> TRUE, val |-> v, pos |-> pos + n]

ZigZag(d) == IF d >= 0 THEN 2 * d ELSE -2 * d - 1

\* A slip: the sign is not restored.
UnZigZagUnsigned(z) == z \div 2

UnZigZag(z) == IF z % 2 = 0 THEN z \div 2 ELSE -(z \div 2) - 1

(***************************************************************************)
(* A value of either kind in a payload: an integer is a varint, a string   *)
(* its length and its bytes.                                               *)
(***************************************************************************)
AppendBytes(s) == AppendUvarint(Len(s)) \o s

TakeBytes(data, pos) ==
    Then(Uvarint(data, pos), LAMBDA len :
        Provided(len.val <= MaxBytesValue /\ len.pos + len.val <= Len(data),
           [ok |-> TRUE, val |-> SubSeq(data, len.pos + 1, len.pos + len.val),
            pos |-> len.pos + len.val]))

Put(kind, v) == IF kind = "int" THEN AppendUvarint(v) ELSE AppendBytes(v)

Take(kind, data, pos) == IF kind = "int" THEN Uvarint(data, pos) ELSE TakeBytes(data, pos)

(***************************************************************************)
(* Loops of the decoders: n values one after the other, or runs of them    *)
(* until there are n.                                                      *)
(***************************************************************************)
Start(pos) == [ok |-> TRUE, vals |-> <<>>, pos |-> pos]

ReadNext(kind, data, r) ==
    Then(Take(kind, data, r.pos), LAMBDA t :
        [ok |-> TRUE, vals |-> Append(r.vals, t.val), pos |-> t.pos])

ReadValues(kind, data, from, n) ==
    LET r[k \in 0 .. n] ==
            IF k = 0 THEN Start(from)
            ELSE Then(r[k - 1], LAMBDA s : ReadNext(kind, data, s))
    IN  r[n]

\* The code compares len(out)+int(run) with n: a sum of half the words or more
\* turns negative and passes, and the run is appended whatever n is; only the
\* loop's last check refuses the result.  (A process that has no memory for so
\* many rows is not modelled.)
ReadRun(kind, data, r, n) ==
    Then(Take(kind, data, r.pos), LAMBDA t :
    Then(Uvarint(data, t.pos), LAMBDA u :
        Provided(u.val # 0 /\ AsInt64(Wrap(Len(r.vals) + u.val)) <= n,
           [ok |-> TRUE, vals |-> r.vals \o [k \in 1 .. u.val |-> t.val], pos |-> u.pos])))

\* Every run has a value, so there are at most n.
ReadRuns(kind, data, n) ==
    LET r[k \in 0 .. n] ==
            IF k = 0 THEN Start(0)
            ELSE Then(r[k - 1], LAMBDA s :
                     IF Len(s.vals) >= n THEN s ELSE ReadRun(kind, data, s, n))
    IN  Then(r[n], LAMBDA s : Provided(Len(s.vals) = n, s))

(***************************************************************************)
(* Bit packing (bitpack.go).  The packer fills an accumulator of one word  *)
(* and flushes it when it is full; what is left goes out byte by byte.     *)
(***************************************************************************)
MinWidth(m) == Min({w \in 0 .. WordBits : m < Pow2[w]})

PackedBytes(n, width) == (n * width + ByteBits - 1) \div ByteBits

\* A slip: the high bits of a value that crosses a word are dropped.
CrossLosesHigh(s, v, width) ==
    LET free == WordBits - s.nbits
    IN  [dst |-> s.dst \o LittleEndian(s.acc + (v % Pow2[free]) * Pow2[s.nbits], WordBytes),
         acc |-> 0, nbits |-> width - free]

Cross(s, v, width) ==
    LET free == WordBits - s.nbits
    IN  [dst |-> s.dst \o LittleEndian(s.acc + (v % Pow2[free]) * Pow2[s.nbits], WordBytes),
         acc |-> v \div Pow2[free], nbits |-> width - free]

PackOne(s, v, width) ==
    LET t == IF width <= WordBits - s.nbits
             THEN [s EXCEPT !.acc = @ + v * Pow2[s.nbits], !.nbits = @ + width]
             ELSE Cross(s, v, width)
    IN  IF t.nbits = WordBits
        THEN [dst |-> t.dst \o LittleEndian(t.acc, WordBytes), acc |-> 0, nbits |-> 0]
        ELSE t

Packer(vals, width) ==
    LET s[k \in 0 .. Len(vals)] ==
            IF k = 0 THEN [dst |-> <<>>, acc |-> 0, nbits |-> 0]
            ELSE PackOne(s[k - 1], vals[k] % Pow2[width], width)
    IN  s[Len(vals)]

AppendPacked(vals, width) ==
    LET s == Packer(vals, width)
    IN  IF width = 0 THEN <<>> ELSE s.dst \o LittleEndian(s.acc, PackedBytes(1, s.nbits))

GetBits(src, off, width) ==
    LET p    == off \div ByteBits
        bit  == off % ByteBits
        have == WordBits - bit
        low  == ReadLE(src, p, WordBytes) \div Pow2[bit]
        high == IF have < width THEN ReadLE(src, p + WordBytes, WordBytes) * Pow2[have] ELSE 0
    IN  (low + high) % Pow2[width]

\* A slip: the length of the payload is not looked at.
UnpackAny(src, n, width) ==
    IF width > WordBits THEN Failed
    ELSE [ok |-> TRUE, vals |-> [i \in 1 .. n |-> GetBits(src, (i - 1) * width, width)]]

Unpack(src, n, width) ==
    Provided(width <= WordBits /\ Len(src) >= PackedBytes(n, width),
       [ok |-> TRUE, vals |-> [i \in 1 .. n |-> GetBits(src, (i - 1) * width, width)]])

\* The width at pos and the values packed behind it.
ReadPacked(data, pos, n) ==
    IF pos >= Len(data) THEN Failed
    ELSE Unpack(SubSeq(data, pos + 2, Len(data)), n, data[pos + 1])

(***************************************************************************)
(* Runs and dictionaries, for values of either kind.                       *)
(***************************************************************************)
RunStarts(vals) == {i \in DOMAIN vals : i = 1 \/ vals[i] # vals[i - 1]}

\* The first row after the run that begins at row i.
RunEnd(vals, i) ==
    Min({j \in (i + 1) .. (Len(vals) + 1) : j <= Len(vals) => vals[j] # vals[i]})

\* One run: its value and how often it stands there.
PutRun(kind, vals, s) ==
    LET j == RunEnd(vals, s.at)
    IN  [out |-> s.out \o Put(kind, vals[s.at]) \o AppendUvarint(j - s.at), at |-> j]

EncodeRLE(kind, vals) ==
    LET s[k \in 0 .. Len(vals)] ==
            IF k = 0 THEN [out |-> <<>>, at |-> 1]
            ELSE IF s[k - 1].at > Len(vals) THEN s[k - 1] ELSE PutRun(kind, vals, s[k - 1])
    IN  s[Len(vals)].out

\* Ordinals in the sorted table of the distinct values, packed.
PackOrdinals(vals, dict) ==
    LET width == MinWidth(Len(dict) - 1)
        ordinal(v) == CHOOSE i \in DOMAIN dict : dict[i] = v
    IN  <<width>> \o AppendPacked([i \in DOMAIN vals |-> ordinal(vals[i]) - 1], width)

LookupOrdinals(dict, r) ==
    Then(r, LAMBDA s :
        Provided(\A i \in DOMAIN s.vals : s.vals[i] < Len(dict),
           [ok |-> TRUE, vals |-> [i \in DOMAIN s.vals |-> dict[s.vals[i] + 1]]]))

(***************************************************************************)
(* The integer codecs (ints.go).                                           *)
(***************************************************************************)
EncodePlain(vals) == FlattenSeq([i \in DOMAIN vals |-> LittleEndian(vals[i], WordBytes)])

DecodePlain(data, n) ==
    Provided(Len(data) >= n * WordBytes,
       [ok |-> TRUE, vals |-> [i \in 1 .. n |-> ReadLE(data, (i - 1) * WordBytes, WordBytes)]])

EncodeVarint(vals) == FlattenSeq([i \in DOMAIN vals |-> AppendUvarint(vals[i])])

DecodeVarint(data, n) == ReadValues("int", data, 0, n)

\* int64(b) - int64(a), which wraps.
Difference(a, b) == AsInt64(Wrap(b - a))

EncodeDelta(vals) ==
    FlattenSeq([i \in DOMAIN vals |->
        AppendUvarint(IF i = 1 THEN vals[1] ELSE ZigZag(Difference(vals[i - 1], vals[i])))])

\* The words whose successive differences are d, from the first on.
Undo(first, d, n) ==
    LET out[i \in 1 .. n] == IF i = 1 THEN first ELSE Wrap(out[i - 1] + d[i])
    IN  [i \in 1 .. n |-> out[i]]

DecodeDelta(data, n) ==
    Then(DecodeVarint(data, n), LAMBDA r :
        [ok |-> TRUE, vals |-> Undo(r.vals[1], [i \in 1 .. n |-> UnZigZag(r.vals[i])], n)])

EncodeDoD(vals) ==
    LET delta(i) == Difference(vals[i - 1], vals[i])
        entry(i) == IF i = 1 THEN vals[1]
                    ELSE IF i = 2 THEN ZigZag(delta(2))
                    ELSE ZigZag(AsInt64(Wrap(delta(i) - delta(i - 1))))
    IN  FlattenSeq([i \in DOMAIN vals |-> AppendUvarint(entry(i))])

\* The differences whose own successive differences are in z, from the second.
Deltas(z, n) ==
    LET delta[i \in 2 .. n] ==
            IF i = 2 THEN UnZigZag(z[2]) ELSE AsInt64(Wrap(delta[i - 1] + UnZigZag(z[i])))
    IN  delta

DecodeDoD(data, n) ==
    Then(DecodeVarint(data, n), LAMBDA r :
        [ok |-> TRUE, vals |-> Undo(r.vals[1], Deltas(r.vals, n), n)])

EncodeRLEInt(vals) == EncodeRLE("int", vals)

DecodeRLEInt(data, n) == ReadRuns("int", data, n)

EncodeBitpack(vals) ==
    LET low   == Min(ToSet(vals))
        width == MinWidth(Max(ToSet(vals)) - low)
    IN  AppendUvarint(low) \o <<width>>
        \o AppendPacked([i \in DOMAIN vals |-> vals[i] - low], width)

DecodeBitpack(data, n) ==
    Then(Uvarint(data, 0), LAMBDA low :
    Then(ReadPacked(data, low.pos, n), LAMBDA r :
        [ok |-> TRUE, vals |-> [i \in 1 .. n |-> Wrap(r.vals[i] + low.val)]]))

\* The distinct values in ascending order.
IntTable(vals) == InOrder(ToSet(vals), <)

EncodeDictInt(vals) ==
    LET dict == IntTable(vals)
        gaps == [i \in DOMAIN dict |-> IF i = 1 THEN dict[1] ELSE dict[i] - dict[i - 1]]
    IN  AppendUvarint(Len(dict)) \o EncodeVarint(gaps) \o PackOrdinals(vals, dict)

\* The table of a dictionary: its size and its entries.
ReadTable(kind, data) ==
    Then(Uvarint(data, 0), LAMBDA len :
        IF len.val > MaxDictEntries THEN Failed ELSE ReadValues(kind, data, len.pos, len.val))

DecodeDictInt(data, n) ==
    Then(ReadTable("int", data), LAMBDA gaps :
        LookupOrdinals(Undo(gaps.vals[1], gaps.vals, Len(gaps.vals)),
                       ReadPacked(data, gaps.pos, n)))

(***************************************************************************)
(* The byte codecs (bytes.go).                                             *)
(***************************************************************************)
\* The bytewise order of strings.
StringLess(s, t) ==
    \/ IsStrictPrefix(s, t)
    \/ \E k \in DOMAIN s \cap DOMAIN t :
          /\ s[k] < t[k]
          /\ \A j \in 1 .. (k - 1) : s[j] = t[j]

EncodeRaw(vals) == FlattenSeq([i \in DOMAIN vals |-> AppendBytes(vals[i])])

DecodeRaw(data, n) == ReadValues("bytes", data, 0, n)

EncodeRLEBytes(vals) == EncodeRLE("bytes", vals)

DecodeRLEBytes(data, n) == ReadRuns("bytes", data, n)

\* The distinct strings in bytewise order.
StringTable(vals) == InOrder(ToSet(vals), StringLess)

EncodeDictBytes(vals) ==
    LET dict == StringTable(vals)
    IN  AppendUvarint(Len(dict)) \o EncodeRaw(dict) \o PackOrdinals(vals, dict)

DecodeDictBytes(data, n) ==
    Then(ReadTable("bytes", data), LAMBDA dict :
        IF Len(FlattenSeq(dict.vals)) > MaxStringTable THEN Failed
        ELSE LookupOrdinals(dict.vals, ReadPacked(data, dict.pos, n)))

(***************************************************************************)
(* The choice of a codec: candidates in the order the code considers them, *)
(* of which the first one of the shortest wins.                            *)
(***************************************************************************)
IsSorted64(vals) == \A i \in 2 .. Len(vals) : vals[i - 1] <= vals[i]

FewRuns(vals) == Cardinality(RunStarts(vals)) * 3 < Len(vals)

FewDistinct(vals, distinct) == distinct <= MaxDictEntries /\ distinct * 4 < Len(vals) * 3

\* Integers stop counting at the limit, strings one above it.
DistinctInts(vals) ==
    LET n == Cardinality(ToSet(vals)) IN IF n > DictProbeLimit THEN DictProbeLimit ELSE n

DistinctBytes(vals) ==
    LET n == Cardinality(ToSet(vals)) IN IF n > DictProbeLimit THEN DictProbeLimit + 1 ELSE n

Given(cond, id) == IF cond THEN <<id>> ELSE <<>>

IntCandidates(vals) ==
    <<"plain", "varint">> \o Given(FewRuns(vals), "rle") \o <<"bitpack", "delta">>
    \o Given(IsSorted64(vals), "dod") \o Given(FewDistinct(vals, DistinctInts(vals)), "dict")

BytesCandidates(vals) ==
    <<"raw">> \o Given(FewRuns(vals), "rle") \o Given(FewDistinct(vals, DistinctBytes(vals)), "dict")

IntCodecs == {"plain", "varint", "rle", "bitpack", "delta", "dod", "dict"}
BytesCodecs == {"raw", "rle", "dict"}

EncodeInts(id, vals) ==
    IF id = "plain" THEN EncodePlain(vals)
    ELSE IF id = "varint" THEN EncodeVarint(vals)
    ELSE IF id = "rle" THEN EncodeRLEInt(vals)
    ELSE IF id = "bitpack" THEN EncodeBitpack(vals)
    ELSE IF id = "delta" THEN EncodeDelta(vals)
    ELSE IF id = "dod" THEN EncodeDoD(vals)
    ELSE EncodeDictInt(vals)

DecodeInts(id, data, n) ==
    IF id = "plain" THEN DecodePlain(data, n)
    ELSE IF id = "varint" THEN DecodeVarint(data, n)
    ELSE IF id = "rle" THEN DecodeRLEInt(data, n)
    ELSE IF id = "bitpack" THEN DecodeBitpack(data, n)
    ELSE IF id = "delta" THEN DecodeDelta(data, n)
    ELSE IF id = "dod" THEN DecodeDoD(data, n)
    ELSE DecodeDictInt(data, n)

EncodeBytes(id, vals) ==
    IF id = "raw" THEN EncodeRaw(vals)
    ELSE IF id = "rle" THEN EncodeRLEBytes(vals)
    ELSE EncodeDictBytes(vals)

DecodeBytes(id, data, n) ==
    IF id = "raw" THEN DecodeRaw(data, n)
    ELSE IF id = "rle" THEN DecodeRLEBytes(data, n)
    ELSE DecodeDictBytes(data, n)

Consider(best, cand) == IF Len(cand.data) < Len(best.data) THEN cand ELSE best

\* The first one of the shortest candidates.
Shortest(cands) ==
    LET best[k \in 1 .. Len(cands)] ==
            IF k = 1 THEN cands[1] ELSE Consider(best[k - 1], cands[k])
    IN  best[Len(cands)]

Candidate(id, payload) == [id |-> id, data |-> payload]

EncodeIntsAuto(vals) ==
    LET ids == IntCandidates(vals)
    IN  Shortest([k \in DOMAIN ids |-> Candidate(ids[k], EncodeInts(ids[k], vals))])

EncodeBytesAuto(vals) ==
    LET ids == BytesCandidates(vals)
    IN  Shortest([k \in DOMAIN ids |-> Candidate(ids[k], EncodeBytes(ids[k], vals))])
=============================================================================
